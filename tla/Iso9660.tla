-------------------------------- MODULE Iso9660 --------------------------------
(***************************************************************************)
(* The file system of src/fs/iso9660/iso9660.c: s2_ISO9660InstCreate, the  *)
(* scan of the directories of a path and s2_ISO9660ReadFile.  The disc is  *)
(* external: directories by sector, each a sequence of the records of its  *)
(* first sector.  A read is s2_IDEATAPIRead as module Ide has it; it may   *)
(* fail, and the file system looks at no value it returns.  The heap may   *)
(* refuse a sector's block or the file's: s2_MemoryAlloc returns NULL with *)
(* interrupts off (manager.c:74), and a read that gets past its poll halts *)
(* for ever.                                                               *)
(***************************************************************************)
EXTENDS Integers, Sequences, FiniteSets

CONSTANTS
  Discs,        \* the discs: functions from sectors to sequences of records
                \* [name, lba, size], a file's name ending in ";1"
  Paths,        \* the paths given to s2_ISO9660ReadFile, without the NUL
  RootLba,      \* the sector of every disc's root directory
  SectorBytes,  \* S2_ATAPI_SECTOR_SIZE
  MaxFaults     \* bound: reads of a call that fail

Slash == 47
Semicolon == 59

IsFile(r) == \E k \in DOMAIN r.name : r.name[k] = Semicolon
FileName(c) == c \o <<Semicolon, 49>>

(* A name is without slashes; a file's ends in its only semicolon and "1"; *)
(* a directory leads to a sector of records and shares its name with no    *)
(* other record beside it.                                                 *)
IsRecord(d, lba, k) ==
  LET r == d[lba][k]
      c == SubSeq(r.name, 1, Len(r.name) - 2)
  IN  /\ \A j \in DOMAIN r.name : r.name[j] # Slash
      /\ IF IsFile(r) THEN r.name = FileName(c) /\ \A j \in DOMAIN c : c[j] # Semicolon
         ELSE /\ r.lba \in DOMAIN d
              /\ \A j \in DOMAIN d[lba] : d[lba][j].name = r.name => j = k

IsDisc(d) ==
  /\ RootLba \in DOMAIN d
  /\ \A lba \in DOMAIN d :
       /\ d[lba] \in Seq([name : Seq(Nat), lba : Nat, size : Nat])
       /\ \A k \in DOMAIN d[lba] : IsRecord(d, lba, k)

(* The characters of a component are counted in a char, iter. *)
IsPath(p) ==
  /\ p \in Seq(Nat)
  /\ \A k \in 1..Len(p) - 127 : \E j \in k..k + 127 : p[j] = Slash

ASSUME Iso9660Assumption ==
  /\ \A d \in Discs : IsDisc(d)
  /\ \A p \in Paths : IsPath(p)
  /\ RootLba \in Nat
  /\ SectorBytes \in Nat /\ SectorBytes > 0 /\ SectorBytes % 2 = 0 /\ MaxFaults \in Nat

VARIABLES
  pc,       \* "mount", "idle", "scan", "sectors", "done"; "wild" off the path
            \* or the disc, "halted" for ever; "refused" and "null" for the
            \* loop and the return without a buffer
  disc,
  rootLBA, valid,  \* the fields of fs
  path,     \* the argument
  rest,     \* what the scan has not yet matched of it
  dir,      \* sector of the directory in bufo
  at,       \* the record buf points to
  entry,    \* the s2_ISO9660DirectoryEntry returned
  i,        \* the loop of s2_ISO9660ReadFile
  buf,      \* the file's buffer by byte, and what was written past it
  blocks,   \* blocks the call has allocated and not freed
  faults,   \* reads that failed (history)
  told,     \* the path less the directories that were not read (history)
  failed    \* the sectors of the file that were not read (history)

fs   == <<disc, rootLBA, valid>>
scan == <<path, rest, dir, at>>
file == <<entry, i, buf>>
past == <<faults, told, failed>>
vars == <<pc, fs, scan, file, blocks, past>>

Bad  == [lba |-> -1, size |-> 0]        \* S2_ISO9660LBA_BAD
None == [lba |-> -2, size |-> 0]
NoSector == -1
Junk == <<NoSector, 0>>

-----------------------------------------------------------------------------
Init ==
  /\ pc = "mount" /\ disc \in Discs /\ rootLBA = 0 /\ valid = FALSE
  /\ path = <<>> /\ rest = <<>> /\ dir = 0 /\ at = 1
  /\ entry = None /\ i = 0 /\ buf = <<>> /\ blocks = 0
  /\ faults = 0 /\ told = <<>> /\ failed = {}

(* s2_ISO9660InstCreate: sector 16 of a disc begins with "CD" at byte 1.   *)
InstCreate ==
  /\ pc = "mount" /\ pc' = "idle"
  /\ rootLBA' = RootLba /\ valid' = TRUE
  /\ UNCHANGED <<disc, scan, file, blocks, past>>

(* Without a disc, or if it cannot be read, the fields keep what the block *)
(* held, and a block leaks; or that block is refused.                      *)
InstCreateOfNoDisc ==
  /\ pc = "mount" /\ pc' \in {"wild", "halted"}
  /\ valid' \in BOOLEAN
  /\ blocks' = blocks + 1
  /\ UNCHANGED <<disc, rootLBA, scan, file, past>>

Fault == faults < MaxFaults /\ faults' = faults + 1

(* s2_ISO9660FSRecursiveDirectoryScan up to its loop. *)
Enter(p, lba) ==
  /\ rest' = p /\ dir' = lba /\ at' = 1
  /\ pc' = "scan"

(* The block of a sector refused, the read of it never ends. *)
Halt == pc' = "halted" /\ UNCHANGED <<rest, dir, at, faults>>

(* s2_ISO9660ReadFile up to the scan: res and the scan's bufo.  If the root*)
(* is not read, the scan goes over what the new block holds.               *)
ReadFile(p) ==
  /\ pc = "idle"
  /\ path' = p /\ told' = p
  /\ blocks' = 2
  /\ \/ Enter(p, rootLBA) /\ UNCHANGED faults
     \/ Fault /\ pc' = "wild" /\ UNCHANGED <<rest, dir, at>>
     \/ Halt
  /\ UNCHANGED <<fs, file, failed>>

Record == disc[dir][at]

(* pathlen: up to the next slash or the NUL. *)
PathLen == CHOOSE n \in 0..Len(rest) :
             /\ n = Len(rest) \/ rest[n + 1] = Slash
             /\ \A k \in 1..n : rest[k] # Slash

(* Variants, each with the mistake its name tells. *)
LengthFitsAny == PathLen <= Len(Record.name)
KeepBufo(n) == n
SameRecord(k) == k

(* (pathlen == namelen) || (pathlen == namelen-2) *)
LengthFits == PathLen \in {Len(Record.name), Len(Record.name) - 2}

(* No character before a ';' differs; beyond the path there is its NUL. *)
SamePath ==
  LET name == Record.name IN
  \A k \in DOMAIN name :
    (\A j \in 1..k : name[j] # Semicolon) => k <= Len(rest) /\ name[k] = rest[k]

Matches == LengthFits /\ SamePath

(* buf += *buf *)
NextRecord(k) == k + 1

(* The record does not match. *)
Skip ==
  /\ pc = "scan" /\ at <= Len(disc[dir]) /\ ~Matches
  /\ at' = NextRecord(at)
  /\ UNCHANGED <<pc, fs, path, rest, dir, file, blocks, past>>

(* The size field of a record of length 0 ends the loop: not found.  bufo  *)
(* is kept, the entry is kept, and s2_ISO9660ReadFile returns no buffer.   *)
Miss ==
  /\ pc = "scan" /\ at > Len(disc[dir])
  /\ entry' = Bad
  /\ blocks' = blocks + 1
  /\ pc' = "done"
  /\ UNCHANGED <<fs, scan, i, buf, past>>

(* s2_MemoryFree(bufo) *)
FreeBufo(n) == n - 1

(* secsz: the size in sectors, rounded up. *)
SectorsOfFile(size) ==
  LET secsz == size \div SectorBytes IN
  IF size - SectorBytes * secsz > 0 THEN secsz + 1 ELSE secsz

(* A name with a ';': bufo is freed, the entry filled in from it, and the  *)
(* file's buffer allocated.                                                *)
Hit ==
  /\ pc = "scan" /\ at <= Len(disc[dir]) /\ Matches /\ IsFile(Record)
  /\ entry' = [lba |-> Record.lba, size |-> Record.size]
  /\ blocks' = FreeBufo(blocks) + 2
  /\ i' = 0 /\ buf' = [b \in 0..(Record.size - 1) |-> Junk]
  /\ pc' = "sectors"
  /\ UNCHANGED <<fs, scan, past>>

(* The same, the file's buffer refused. *)
HitRefused ==
  /\ pc = "scan" /\ at <= Len(disc[dir]) /\ Matches /\ IsFile(Record)
  /\ entry' = [lba |-> Record.lba, size |-> Record.size]
  /\ blocks' = FreeBufo(blocks) + 1
  /\ i' = 0 /\ pc' = "refused"
  /\ UNCHANGED <<fs, scan, buf, past>>

(* A directory: the rest of the path is looked for in it.  If it is not    *)
(* read, then in what the block allocated for it holds: the directory just *)
(* scanned, if the block freed with it is given out again.                 *)
Descend ==
  /\ pc = "scan" /\ at <= Len(disc[dir]) /\ Matches /\ ~IsFile(Record)
  /\ PathLen < Len(rest)
  /\ blocks' = FreeBufo(blocks) + 1
  /\ LET below == SubSeq(rest, PathLen + 2, Len(rest)) IN
     \/ Enter(below, Record.lba) /\ UNCHANGED <<faults, told>>
     \/ /\ Fault /\ Enter(below, dir)
        /\ told' = SubSeq(told, 1, Len(told) - Len(rest)) \o below
     \/ Fault /\ pc' = "wild" /\ UNCHANGED <<rest, dir, at, told>>
     \/ Halt /\ UNCHANGED told
  /\ UNCHANGED <<fs, path, file, failed>>

(* The path ends at a directory: path+pathlen+1 is beyond its NUL, and the *)
(* scan goes on with whatever string is there.                             *)
DescendPastEnd ==
  /\ pc = "scan" /\ at <= Len(disc[dir]) /\ Matches /\ ~IsFile(Record)
  /\ PathLen = Len(rest)
  /\ pc' = "wild"
  /\ UNCHANGED <<fs, scan, file, blocks, past>>

-----------------------------------------------------------------------------
(* What s2_IDEATAPIRead(lba, b + offset, cropAt) stores: cropAt words, of  *)
(* which the sector fills the first half.                                  *)
Stored(b, lba, offset, cropAt) ==
  LET words == IF cropAt < SectorBytes THEN cropAt ELSE SectorBytes
      last  == offset + 2 * words - 1
  IN  [k \in DOMAIN b \cup (offset..last) |->
         IF k \in offset..last
         THEN IF k - offset < SectorBytes THEN <<lba, k - offset>> ELSE Junk
         ELSE b[k]]

(* Variants, each with the mistake its name tells. *)
Uncropped(k) == SectorBytes
LastFirst(k) == SectorsOfFile(entry.size) - 1 - k

(* cropAt: what is left of the file, also when it is more than a sector. *)
CropAt(k) == entry.size - SectorBytes * k

(* for (i = 0; i < secsz; i++) *)
SectorOf(k) == k

(* One round of the loop over the file's sectors.  A read that fails stores*)
(* nothing, or whatever the drive puts on its data port.                   *)
Sector ==
  /\ pc = "sectors" /\ i < SectorsOfFile(entry.size)
  /\ LET k == SectorOf(i) IN
     \/ /\ buf' = Stored(buf, entry.lba + k, SectorBytes * k, CropAt(k))
        /\ UNCHANGED <<faults, failed>>
     \/ /\ Fault /\ failed' = failed \cup {k}
        /\ buf' \in {buf, Stored(buf, NoSector, SectorBytes * k, CropAt(k))}
  /\ i' = i + 1
  /\ UNCHANGED <<pc, fs, scan, entry, blocks, told>>

Return ==
  /\ pc = "sectors" /\ i = SectorsOfFile(entry.size)
  /\ pc' = "done"
  /\ UNCHANGED <<fs, scan, file, blocks, past>>

(* With no buffer a sector halts for ever, unless its poll fails. *)
SectorRefused ==
  /\ pc = "refused" /\ i < SectorsOfFile(entry.size)
  /\ \/ pc' = "halted" /\ UNCHANGED <<i, faults, failed>>
     \/ Fault /\ failed' = failed \cup {i} /\ i' = i + 1 /\ UNCHANGED pc
  /\ UNCHANGED <<fs, scan, entry, buf, blocks, told>>

(* No sector to read, or none read: res->buf is NULL. *)
ReturnNull ==
  /\ pc = "refused" /\ i = SectorsOfFile(entry.size)
  /\ pc' = "null"
  /\ UNCHANGED <<fs, scan, file, blocks, past>>

Next ==
  \/ InstCreate \/ InstCreateOfNoDisc
  \/ \E p \in Paths : ReadFile(p)
  \/ Skip \/ Miss \/ Hit \/ HitRefused \/ Descend \/ DescendPastEnd
  \/ Sector \/ Return \/ SectorRefused \/ ReturnNull

Spec == Init /\ [][Next]_vars /\ WF_vars(Next)

-----------------------------------------------------------------------------
(* The meaning of a path, defined without the scan.  A component begins    *)
(* after a cut, the path's beginning or a slash, and goes to the next one; *)
(* the directories a path goes through are a chain: the root, and at each  *)
(* further cut one that the component before it names in the one before.   *)
Cuts(p) == {0} \cup {n \in DOMAIN p : p[n] = Slash}

CutAfter(p, s) == CHOOSE e \in (s + 1)..(Len(p) + 1) :
                    /\ e = Len(p) + 1 \/ p[e] = Slash
                    /\ \A k \in (s + 1)..(e - 1) : p[k] # Slash

LastCut(p) == CHOOSE s \in Cuts(p) : \A t \in Cuts(p) : t <= s

Component(p, s) == SubSeq(p, s + 1, CutAfter(p, s) - 1)

InDir(d, lba, name) == {r \in {d[lba][k] : k \in DOMAIN d[lba]} : r.name = name}

Chains(d, p, s) ==
  {f \in [Cuts(p) \cap (0..s) -> DOMAIN d] :
     /\ f[0] = RootLba
     /\ \A t \in DOMAIN f \ {s} :
          \E r \in InDir(d, f[t], Component(p, t)) : ~IsFile(r) /\ f[CutAfter(p, t)] = r.lba}

DirsAt(d, p, s) == {f[s] : f \in Chains(d, p, s)}

FilesAt(d, p) ==
  LET s == LastCut(p)
  IN  UNION {InDir(d, lba, FileName(Component(p, s))) : lba \in DirsAt(d, p, s)}

(* Paths on which the lengths compared in the scan mislead it: a component *)
(* two characters longer than the name of a file that it begins with, a    *)
(* file in the place of a directory, and a directory in the place of the   *)
(* file.                                                                   *)
Misleads(d, p, s) ==
  LET c == Component(p, s)
  IN  \E lba \in DirsAt(d, p, s) :
        \/ Len(c) >= 2 /\ InDir(d, lba, FileName(SubSeq(c, 1, Len(c) - 2))) # {}
        \/ s # LastCut(p) /\ InDir(d, lba, FileName(c)) # {}
        \/ s = LastCut(p) /\ InDir(d, lba, c) # {}

Misleading(d, p) == \E s \in Cuts(p) : Misleads(d, p, s)

(* The variables the scan and the loop depend on keep their types. *)
TypeOK ==
  /\ pc \in {"mount", "idle", "scan", "sectors", "done", "wild", "halted", "refused", "null"}
  /\ valid \in BOOLEAN /\ blocks \in 0..3 /\ faults \in 0..MaxFaults
  /\ pc = "scan" => dir \in DOMAIN disc /\ at \in 1..(Len(disc[dir]) + 1)
  /\ i \in 0..SectorsOfFile(entry.size)
  /\ pc \in {"sectors", "done"} => 0..(entry.size - 1) \subseteq DOMAIN buf

(* Every path that does not mislead the scan is resolved: to the file it   *)
(* names, or to none exactly when there is none.  A directory that could   *)
(* not be read (iso9660.c:27 ignores it) is not missed but left out of the *)
(* path: the rest of it is looked for in the directory above.  What is     *)
(* found does not depend on the file's buffer being refused.               *)
Resolves ==
  pc \in {"done", "null"} /\ ~Misleading(disc, told) =>
    IF FilesAt(disc, told) = {} THEN entry = Bad
    ELSE \E r \in FilesAt(disc, told) : entry = [lba |-> r.lba, size |-> r.size]

(* The buffer returned holds the file, although each read but the last also*)
(* stores a sector of junk where the next one is to go; a read that fails  *)
(* spoils its own sector and no other.                                     *)
FileDelivered ==
  pc = "done" /\ entry # Bad =>
    \A b \in 0..(entry.size - 1) :
      IF b \div SectorBytes \in failed THEN buf[b][1] = NoSector
      ELSE buf[b] = <<entry.lba + b \div SectorBytes, b % SectorBytes>>

(* The reads store past the end of the buffer, each up to two sectors for  *)
(* the words asked for (iso9660.c:109): the last one as many bytes as the  *)
(* file has in its last sector, and the one before it, if there is one, as *)
(* far as the last sector ends; of a file of 2148 bytes that is 1948 bytes *)
(* past its end, though 100 are in its last sector.  None reaches further. *)
OverrunBounded ==
  pc = "done" /\ entry # Bad /\ entry.size > 0 =>
    LET n    == SectorsOfFile(entry.size)
        tail == entry.size - SectorBytes * (n - 1)
    IN  \A b \in DOMAIN buf : b < entry.size + tail \/ (n > 1 /\ b < SectorBytes * n)

(* However deep the path, and whatever could not be read, a call keeps     *)
(* three blocks: the file, its buffer and the directory entry, or instead  *)
(* of the buffer the sector of the directory that had no match.  Refused   *)
(* the buffer, it keeps the other two.                                     *)
KeepsThree ==
  /\ TypeOK
  /\ pc = "done" => blocks = 3
  /\ pc \in {"refused", "null"} => blocks = 2

(* A scan ends, in directories that name themselves and each other, and    *)
(* also when an unread one makes it scan the directory above again: the    *)
(* lookup returns a file or none, or no buffer where the heap refused it,  *)
(* unless it has left the path or the disc, or a block was refused and the *)
(* read into it halts with interrupts off, from which nothing returns.     *)
ReadFileReturns == (pc = "scan") ~> (pc \in {"done", "null", "wild", "halted"})
=============================================================================
