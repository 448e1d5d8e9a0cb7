---------------------------------- MODULE Ide ----------------------------------
(***************************************************************************)
(* src/drivers/ide/ide.c over one place of an IDE channel, in the order of *)
(* kmain: s2_IDECreateATADeviceInstance finds out what is connected there, *)
(* and s2_IDEATAPIRead reads sectors if it is a packet device.  Both poll, *)
(* sleep and halt between the handlers of the timer and of the two ATA     *)
(* lines, which share ataLock.  What is connected is external: nothing, a  *)
(* bus that reads as ones, a disk, a disk that rejects the command, or a   *)
(* packet device; each may be slow, report an error or report a fault.     *)
(***************************************************************************)
EXTENDS Naturals

CONSTANTS
  BufWords,     \* words of the identification, 256
  SleepMs,      \* the argument of s2_IDESleep, 10
  Lbas,         \* the sectors callers read
  SectorWords,  \* 16-bit words of a sector, 1024
  MaxProbes, MaxReads, MaxForeign  \* bounds: calls, and interrupts of line 15

ASSUME IdeAssumption ==
  /\ {BufWords, SleepMs, SectorWords} \subseteq Nat \ {0} /\ Lbas # {}
  /\ {MaxProbes, MaxReads, MaxForeign} \subseteq Nat

VARIABLES
  kind,     \* what is connected
  phase, command, left, asked,  \* the device: its phase, the command it carries
                                \* out, words it holds, the sector asked for
  irq,      \* IRQ 14 is pending
  pc,       \* where the thread is; "idle" outside the two functions
  exists, type, error, countdown,  \* of the probe; s2_IOPITCountdown
  i,        \* of the loop over words (j in the probe)
  lba, crop, size, stored, result, \* of the read; what it stored, word by word
  ataLock,
  probes, reads,
  late,     \* a read began before the device had finished (history)
  foreign,  \* interrupts of line 15; those before this read (history)
  before,
  faulted   \* the device failed after it had taken the packet (history)

device == <<kind, phase, command, left, asked>>
probe  == <<exists, type, error, countdown>>
args   == <<lba, crop>>
read   == <<size, stored, result>>
past   == <<probes, reads, late, before, faulted>>
vars   == <<device, irq, pc, probe, i, args, read, ataLock, past, foreign>>

SizeBytes == 2 * SectorWords         \* S2_ATAPI_SECTOR_SIZE
Crops == 1..(2 * SizeBytes)          \* bytes a caller still wants: cropAt
Kinds == {"nothing", "ones", "disk", "rejecting", "packet"}
Types == {"atapi", "ata", "other"}   \* S2_ATA_TYPE_ATAPI, _ATA, any other byte

(* The bits of the alternate status register. *)
BSY  == kind = "ones" \/ phase \in {"busy", "finishing"}
DRQ  == kind = "ones" \/ phase \in {"packet", "data"}
ERR  == kind = "ones" \/ phase = "error"
DEVF == kind = "ones" \/ phase = "fault"

(* The device has finished: it holds nothing and takes a command. *)
AtRest == phase \in {"ready", "error", "fault"}

-----------------------------------------------------------------------------
Init ==
  /\ kind \in Kinds /\ phase = "ready" /\ command = "none" /\ left = 0 /\ asked = 0
  /\ irq = FALSE /\ pc = "idle"
  /\ exists = FALSE /\ type = "other" /\ error = 0 /\ countdown = 0
  /\ i = 0 /\ lba = 0 /\ crop = SizeBytes /\ size = 0 /\ stored = <<>> /\ result = "none"
  /\ ataLock = FALSE
  /\ probes = 0 /\ reads = 0 /\ late = FALSE /\ foreign = 0 /\ before = 0 /\ faulted = FALSE

(* A device that is busy or holds data ignores a command. *)
Issue(c) ==
  /\ IF AtRest /\ kind \notin {"nothing", "ones"}
     THEN phase' = "busy" /\ command' = c ELSE UNCHANGED <<phase, command>>
  /\ UNCHANGED <<kind, left, asked>>

(* The data port: the next word while the device has DRQ. *)
InW ==
  /\ IF phase = "data"
     THEN /\ left' = left - 1
          /\ phase' = IF left > 1 THEN phase
                      ELSE IF command = "read" THEN "finishing" ELSE "ready"
     ELSE UNCHANGED <<left, phase>>
  /\ UNCHANGED <<kind, command, asked>>

-----------------------------------------------------------------------------
(* s2_IDECreateATADeviceInstance up to the command: error is not set, and  *)
(* type is what the heap held where the new record is.                     *)
Start ==
  /\ pc = "idle" /\ probes < MaxProbes /\ reads = 0 /\ probes' = probes + 1
  /\ exists' = TRUE /\ type' \in Types /\ error' \in {0, 1} /\ i' = 0
  /\ Issue("identify")
  /\ pc' = "present"
  /\ UNCHANGED <<irq, countdown, args, read, ataLock, reads, late, before, faulted, foreign>>

(* The alternate status is 0 where nothing is connected. *)
Present ==
  /\ pc = "present"
  /\ exists' = (kind # "nothing")
  /\ IF exists' THEN type' = "ata" /\ pc' = "spin" ELSE pc' = "idle" /\ UNCHANGED type
  /\ UNCHANGED <<device, irq, error, countdown, i, args, read, ataLock, past, foreign>>

(* Variants, each with the mistake its name tells. *)
SpinEndsWithData == ~BSY /\ DRQ /\ UNCHANGED error
SignatureUnread == error # 0
WakeUnchecked == IF pc = "asleep" THEN "size" ELSE pc
CopyUpToCrop(k) == k < size /\ k < crop

(* The loop ends with data and no BSY, or with ERR, which sets error; DEVF *)
(* does not end it.                                                        *)
SpinEnds ==
  \/ ~BSY /\ DRQ /\ UNCHANGED error
  \/ (BSY \/ ~DRQ) /\ ERR /\ error' = 1

Spin ==
  /\ pc = "spin" /\ SpinEnds
  /\ pc' = "signature"
  /\ UNCHANGED <<device, irq, exists, type, countdown, i, args, read, ataLock, past, foreign>>

(* With error not 0, which it may be without an error of the device, the   *)
(* signature tells a packet device from others.                            *)
IsPacketDevice == error # 0 /\ kind = "packet"

Signature ==
  /\ pc = "signature"
  /\ IF IsPacketDevice
     THEN type' = "atapi" /\ Issue("identify_packet") /\ pc' = "poll_identify"
     ELSE pc' = "identification" /\ UNCHANGED <<type, device>>
  /\ UNCHANGED <<irq, exists, error, countdown, i, args, read, ataLock, past, foreign>>

(* s2_IDEPoll: not before BSY is clear, then ERR, DEVF and DRQ. *)
PollResult == CASE ERR -> 1 [] ~ERR /\ DEVF -> 2 [] ~ERR /\ ~DEVF /\ ~DRQ -> 3 [] OTHER -> 0

PollIdentify ==
  /\ pc = "poll_identify" /\ ~BSY
  /\ error' = PollResult
  /\ countdown' = SleepMs /\ pc' = "sleep"
  /\ UNCHANGED <<device, irq, exists, type, i, args, read, ataLock, past, foreign>>

(* s2_PITSleep: hlt until the countdown is 0. *)
Sleep ==
  /\ pc = "sleep" /\ countdown = 0
  /\ pc' = "identification"
  /\ UNCHANGED <<device, irq, probe, i, args, read, ataLock, past, foreign>>

Identification ==
  /\ pc = "identification"
  /\ IF i < BufWords THEN InW /\ i' = i + 1 /\ UNCHANGED pc
                     ELSE pc' = "idle" /\ UNCHANGED <<device, i>>
  /\ UNCHANGED <<irq, probe, args, read, ataLock, past, foreign>>

Probe == Present \/ Spin \/ Signature \/ PollIdentify \/ Sleep \/ Identification

-----------------------------------------------------------------------------
(* s2_IDEATAPIRead: ataLock = false, then command 0xA0. *)
Call ==
  /\ pc = "idle" /\ exists /\ type = "atapi" /\ reads < MaxReads
  /\ reads' = reads + 1
  /\ lba' \in Lbas /\ crop' \in Crops
  /\ ataLock' = FALSE
  /\ i' = 0 /\ size' = 0 /\ stored' = <<>> /\ result' = "none"
  /\ late' = (late \/ ~AtRest \/ irq)
  /\ before' = foreign /\ faulted' = FALSE
  /\ pc' = "command"
  /\ UNCHANGED <<device, irq, probe, probes, foreign>>

Command ==
  /\ pc = "command"
  /\ Issue("packet")
  /\ pc' = "poll"
  /\ UNCHANGED <<irq, probe, i, args, read, ataLock, past, foreign>>

Poll ==
  /\ pc = "poll" /\ ~BSY
  /\ IF PollResult = 0 THEN pc' = "packet" /\ UNCHANGED result
                       ELSE pc' = "idle" /\ result' = "error"
  /\ UNCHANGED <<device, irq, probe, i, args, size, stored, ataLock, past, foreign>>

(* Six words of packet to the data port. *)
Packet ==
  /\ pc = "packet"
  /\ IF phase = "packet" THEN phase' = "busy" /\ command' = "read" /\ asked' = lba
                         ELSE UNCHANGED <<phase, command, asked>>
  /\ pc' = "wait"
  /\ UNCHANGED <<kind, left, irq, probe, i, args, read, ataLock, past, foreign>>

(* while (!ataLock) hlt *)
Wait ==
  /\ pc = "wait"
  /\ pc' = IF ataLock THEN "size" ELSE "halt"
  /\ UNCHANGED <<device, irq, probe, i, args, read, ataLock, past, foreign>>

Halt ==
  /\ pc = "halt"
  /\ pc' = "asleep"
  /\ UNCHANGED <<device, irq, probe, i, args, read, ataLock, past, foreign>>

(* The byte count is the one asked for only while the device has data. *)
ReadSize ==
  /\ pc = "size"
  /\ size' \in IF phase = "data" THEN {SizeBytes} ELSE {0, SizeBytes, 2 * SizeBytes}
  /\ pc' = "copy"
  /\ UNCHANGED <<device, irq, probe, i, args, stored, result, ataLock, past, foreign>>

(* A word of the sector, or one of no sector, numbered SectorWords. *)
Word == <<asked, IF phase = "data" THEN SectorWords - left ELSE SectorWords>>

(* size counts bytes, and the loop moves that many words. *)
CopyGoesOn(k) == k < size

Copy ==
  /\ pc = "copy"
  /\ IF CopyGoesOn(i)
     THEN /\ InW /\ i' = i + 1
          /\ stored' = IF i >= crop THEN stored
                       ELSE [k \in 0..i |-> IF k = i THEN Word ELSE stored[k]]
          /\ UNCHANGED <<pc, result>>
     ELSE pc' = "idle" /\ result' = "done" /\ UNCHANGED <<device, i, stored>>
  /\ UNCHANGED <<irq, probe, args, size, ataLock, past, foreign>>

Read == Command \/ Poll \/ Packet \/ Wait \/ Halt \/ ReadSize \/ Copy

-----------------------------------------------------------------------------
(* Any interrupt ends hlt; the loop tests ataLock again. *)
Wake == IF pc = "asleep" THEN "wait" ELSE pc

(* irq14_handler *)
Irq14 ==
  /\ irq /\ irq' = FALSE
  /\ ataLock' = TRUE /\ pc' = Wake
  /\ UNCHANGED <<device, probe, i, args, read, past, foreign>>

(* irq15_handler: a device of the secondary channel. *)
Irq15 ==
  /\ foreign < MaxForeign /\ foreign' = foreign + 1
  /\ ataLock' = TRUE /\ pc' = Wake
  /\ UNCHANGED <<device, irq, probe, i, args, read, past>>

(* irq0_handler *)
Timer ==
  /\ pc = "asleep" \/ countdown > 0
  /\ countdown' = IF countdown > 0 THEN countdown - 1 ELSE 0
  /\ pc' = Wake
  /\ UNCHANGED <<device, irq, exists, type, error, i, args, read, ataLock, past, foreign>>

(* The device carries out its command, or has a fault. *)
Identified ==
  /\ command \in {"identify", "identify_packet"} /\ irq' = TRUE
  /\ \/ IF <<kind, command>> \in {<<"disk", "identify">>, <<"packet", "identify_packet">>}
        THEN phase' = "data" /\ left' = BufWords
        ELSE phase' = "error" /\ UNCHANGED left
     \/ phase' = "fault" /\ UNCHANGED left
  /\ UNCHANGED faulted

(* It asks for the packet, or there is no disc, or it has a fault. *)
PacketWanted ==
  /\ command = "packet"
  /\ \/ phase' = "packet" /\ UNCHANGED irq
     \/ phase' \in {"error", "fault"} /\ irq' \in {irq, TRUE}
  /\ UNCHANGED <<left, faulted>>

(* It answers the packet with the sector, an error or a fault. *)
SectorReady ==
  /\ command = "read" /\ irq' = TRUE
  /\ \/ phase' = "data" /\ left' = SectorWords /\ UNCHANGED faulted
     \/ phase' \in {"error", "fault"} /\ faulted' = TRUE /\ UNCHANGED left

Answer ==
  /\ phase = "busy"
  /\ Identified \/ PacketWanted \/ SectorReady
  /\ UNCHANGED <<kind, command, asked, pc, probe, i, args, read, ataLock, probes, reads,
                 late, before, foreign>>

(* The last word of a sector taken, it interrupts once more. *)
Finish ==
  /\ phase = "finishing" /\ phase' = "ready" /\ irq' = TRUE
  /\ UNCHANGED <<kind, command, left, asked, pc, probe, i, args, read, ataLock, past, foreign>>

Device == Answer \/ Finish

Next == Start \/ Probe \/ Call \/ Read \/ Irq14 \/ Irq15 \/ Timer \/ Device

(* The thread runs while it is not halted, interrupts are taken, the timer *)
(* ticks, and the device answers in the end.                               *)
Fairness ==
  /\ WF_vars(Probe) /\ WF_vars(Read)
  /\ WF_vars(Irq14) /\ WF_vars(Timer) /\ WF_vars(Device)

Spec == Init /\ [][Next]_vars /\ Fairness

-----------------------------------------------------------------------------
(* The variables that matter to the device keep their types. *)
TypeOK ==
  /\ phase \in {"ready", "busy", "packet", "data", "finishing", "error", "fault"}
  /\ left \in 0..(BufWords + SectorWords) /\ (phase = "data" <=> left > 0)
  /\ error \in 0..3 /\ countdown \in 0..SleepMs /\ size \in 0..(2 * SizeBytes)
  /\ \A k \in DOMAIN stored : stored[k][2] \in 0..SectorWords

(* Whatever the uninitialised error holds (ide.c:130) and whatever the     *)
(* heap held in type, a probe that has returned found whether something is *)
(* connected and, if so, whether it is a packet device.  Where nothing is  *)
(* connected type is what the heap held, "atapi" or not (ide.c:81, 112).   *)
FoundIsConnected ==
  pc = "idle" /\ probes > 0 =>
    /\ exists <=> kind # "nothing"
    /\ exists => (type = "atapi" <=> kind = "packet")

(* A read that returns from a device that neither failed nor was late, and *)
(* that line 15 did not interrupt, has stored the sector asked for, from   *)
(* its first word, as far as the caller wanted it: neither a tick of the   *)
(* timer nor the interrupts that the probe's commands and the read before  *)
(* left behind make it take the data too early.                            *)
SectorDelivered ==
  result = "done" /\ ~late /\ ~faulted /\ foreign = before =>
    \A k \in 0..(SectorWords - 1) :
      k < crop => k \in DOMAIN stored /\ stored[k] = <<lba, k>>

(* Neither a probe nor a read that line 15 did not interrupt leaves words  *)
(* in the device or the device at work: it would ignore the next command.  *)
Drained ==
  /\ TypeOK
  /\ pc = "idle" /\ ~late /\ (reads = 0 \/ foreign = before) => AtRest \/ phase = "finishing"

(* Every call returns unless it began before the device had finished, with *)
(* one exception: a device that answers the first command with DEVF alone *)
(* leaves the probe in the spin without a limit (ide.c:118-127), which     *)
(* tests ERR and DRQ only.  For every other device the spin ends, and so   *)
(* do the polls, which test DEVF; the sleep ends with the timer, and the   *)
(* wait for an interrupt ends though the interrupt may arrive between the  *)
(* test of ataLock and hlt, or on the other channel.                       *)
CallReturns ==
  (pc # "idle" /\ ~late) ~> (pc = "idle" \/ late \/ (pc = "spin" /\ phase = "fault"))
=============================================================================
