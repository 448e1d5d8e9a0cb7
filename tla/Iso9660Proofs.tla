----------------------------- MODULE Iso9660Proofs -----------------------------
(***************************************************************************)
(* Theorems about the file system, for any discs and paths, any size of a  *)
(* sector and any number of reads that fail.                               *)
(***************************************************************************)
EXTENDS Iso9660, SequenceTheorems, WellFoundedInduction, TLAPS

Records == [name : Seq(Nat), lba : Nat, size : Nat]

(* The disc mounted, and where the scan is on it. *)
OnDisc ==
  /\ disc \in Discs
  /\ pc = "idle" => rootLBA = RootLba
  /\ pc = "scan" => dir \in DOMAIN disc /\ at \in 1..(Len(disc[dir]) + 1)

(* The blocks of a call, at each of its stages. *)
Kept ==
  /\ pc \in {"mount", "idle"} => blocks = 0
  /\ pc = "scan" => blocks = 2
  /\ pc \in {"sectors", "done"} => blocks = 3
  /\ pc \in {"refused", "null"} => blocks = 2
  /\ pc \in {"wild", "halted"} => blocks \in 0..3

(* What is in a byte of the file's buffer that the loop has been at. *)
Delivered(b) ==
  IF b \div SectorBytes \in failed THEN buf[b][1] = NoSector
  ELSE buf[b] = <<entry.lba + b \div SectorBytes, b % SectorBytes>>

Full == SectorBytes * SectorsOfFile(entry.size)
Tail1 == entry.size - SectorBytes * (SectorsOfFile(entry.size) - 1)
End ==
  IF SectorsOfFile(entry.size) > 1 /\ Full > entry.size + Tail1 THEN Full
  ELSE entry.size + Tail1

(* The file's buffer during and after the loop over its sectors. *)
Filled ==
  /\ entry \in [lba : Nat, size : Nat]
  /\ i \in 0..SectorsOfFile(entry.size)
  /\ pc = "done" => i = SectorsOfFile(entry.size)
  /\ failed \subseteq 0..(i - 1)
  /\ 0..(entry.size - 1) \subseteq DOMAIN buf
  /\ entry.size > 0 => DOMAIN buf \subseteq 0..(End - 1)
  /\ \A b \in 0..(entry.size - 1) :
       IF b < SectorBytes * i THEN Delivered(b) ELSE buf[b][1] = NoSector

(* The loop over the sectors of a file whose buffer was refused. *)
Unbuffered ==
  /\ entry \in [lba : Nat, size : Nat] \cup {None}
  /\ i \in 0..SectorsOfFile(entry.size)

Filing ==
  /\ pc \in {"mount", "idle", "scan", "wild"} => entry = None /\ i = 0 /\ buf = <<>> /\ failed = {}
  /\ pc = "sectors" => Filled
  /\ pc \in {"refused", "null", "halted"} => Unbuffered
  /\ pc = "done" => \/ entry = Bad /\ i = 0 /\ buf = <<>> /\ failed = {}
                    \/ Filled

IsoInv ==
  /\ pc \in {"mount", "idle", "scan", "sectors", "done", "wild", "halted", "refused", "null"}
  /\ valid \in BOOLEAN /\ faults \in 0..MaxFaults
  /\ OnDisc /\ Kept /\ Filing

-----------------------------------------------------------------------------
(* Quotient and remainder. *)
LEMMA DivMod ==
  ASSUME NEW m \in Int, NEW n \in Nat, n > 0
  PROVE  m \div n \in Int /\ m % n \in 0..(n - 1) /\ m = n * (m \div n) + (m % n)
  OBVIOUS

(* A multiple grows by no less than its factor. *)
LEMMA Steps ==
  ASSUME NEW n \in Nat, NEW a \in Int, NEW b \in Int, n > 0, a > b
  PROVE  n * a >= n * b + n
  OBVIOUS

(* The sector a byte of the file is in. *)
LEMMA SectorOfByte ==
  ASSUME NEW b \in Int, NEW k \in Int, SectorBytes * k <= b, b < SectorBytes * k + SectorBytes
  PROVE  b \div SectorBytes = k /\ b % SectorBytes = b - SectorBytes * k
  <1> DEFINE q == b \div SectorBytes
             r == b % SectorBytes
             n == SectorBytes
  <1>1. n \in Nat /\ n > 0
    BY Iso9660Assumption DEF Iso9660Assumption
  <1>2. q \in Int /\ r \in 0..(n - 1) /\ b = n * q + r
    BY <1>1, DivMod
  <1>3. n * k <= b /\ b < n * k + n
    OBVIOUS
  <1> HIDE DEF q, r, n
  <1>4. q > k => n * q >= n * k + n
    BY <1>1, <1>2, Steps
  <1>5. k > q => n * k >= n * q + n
    BY <1>1, <1>2, Steps
  <1>6. n * q \in Int /\ n * k \in Int
    BY <1>1, <1>2
  <1>7. q = k
    BY <1>1, <1>2, <1>3, <1>4, <1>5, <1>6
  <1>8. r = b - n * k
    BY <1>2, <1>6, <1>7
  <1> QED BY <1>7, <1>8 DEF q, r, n

(* The sectors of a file are as many as it needs and no more. *)
LEMMA Sectors ==
  ASSUME NEW size \in Nat, NEW n, n = SectorsOfFile(size)
  PROVE  /\ n \in Nat /\ (size > 0 <=> n > 0)
         /\ SectorBytes * n \in Int /\ SectorBytes * (n - 1) = SectorBytes * n - SectorBytes
         /\ size > 0 => SectorBytes * (n - 1) < size /\ size <= SectorBytes * n
  <1> DEFINE q == size \div SectorBytes
             r == size % SectorBytes
             S == SectorBytes
  <1>1. S \in Nat /\ S > 0
    BY Iso9660Assumption DEF Iso9660Assumption
  <1>2. q \in Int /\ r \in 0..(S - 1) /\ size = S * q + r
    BY <1>1, DivMod
  <1>3. n = IF size - S * q > 0 THEN q + 1 ELSE q
    BY DEF SectorsOfFile
  <1> HIDE DEF q, r, S
  <1>4. q < 0 => S * 0 >= S * q + S
    BY <1>1, <1>2, Steps
  <1>5. S * q \in Int /\ S * 0 = 0 /\ S * (q + 1) = S * q + S /\ S * (q - 1) = S * q - S
        /\ (q = 0 => S * q = 0)
    BY <1>1, <1>2
  <1>6. q > 0 => S * q >= S * 0 + S
    BY <1>1, <1>2, Steps
  <1>7. q >= 0
    BY <1>1, <1>2, <1>4, <1>5
  <1>8. CASE r > 0
    <2>1. n = q + 1 /\ n - 1 = q
      BY <1>2, <1>3, <1>5, <1>8
    <2>2. n > 0 /\ n \in Nat /\ size > 0
      BY <1>1, <1>2, <1>5, <1>6, <1>7, <1>8, <2>1
    <2>3. S * n = S * q + S /\ S * (n - 1) = S * q
      BY <1>5, <2>1
    <2> QED BY <1>1, <1>2, <1>5, <1>8, <2>2, <2>3 DEF S
  <1>9. CASE r = 0
    <2>1. n = q
      BY <1>2, <1>3, <1>5, <1>9
    <2>2. n \in Nat /\ (size > 0 <=> n > 0)
      BY <1>1, <1>2, <1>5, <1>6, <1>7, <1>9, <2>1
    <2>3. S * n = size /\ S * (n - 1) = size - S
      BY <1>2, <1>5, <1>9, <2>1
    <2> QED BY <1>1, <1>2, <2>2, <2>3 DEF S
  <1> QED BY <1>2, <1>8, <1>9

(* What a read of the file's k-th sector does to the buffer. *)
LEMMA Storing ==
  ASSUME NEW size \in Nat, NEW n, n = SectorsOfFile(size), NEW k \in 0..(n - 1), NEW b, NEW l,
         NEW c, c = Stored(b, l, SectorBytes * k, size - SectorBytes * k),
         NEW full, full = SectorBytes * n,
         NEW end, end = size + (size - SectorBytes * (n - 1))
  PROVE  /\ DOMAIN b \subseteq DOMAIN c
         /\ \A p \in DOMAIN c : \/ p \in DOMAIN b
                                \/ p \in Int /\ p >= 0 /\ ((n > 1 /\ p < full) \/ p < end)
         /\ \A p \in DOMAIN b : p \in Int /\ p < SectorBytes * k => c[p] = b[p]
         /\ \A p \in DOMAIN b : p \in Int /\ p < size /\ p >= SectorBytes * k + SectorBytes =>
                                   c[p] = Junk \/ c[p] = b[p]
         /\ \A p \in DOMAIN b : p \in Int /\ p < size /\ SectorBytes * k <= p
                                /\ p < SectorBytes * k + SectorBytes =>
                                   c[p] = <<l, p - SectorBytes * k>>
  <1> DEFINE S == SectorBytes
             offset == SectorBytes * k
             crop == size - offset
             words == IF crop < SectorBytes THEN crop ELSE SectorBytes
             last == offset + 2 * words - 1
  <1>1. S \in Nat /\ S > 0
    BY Iso9660Assumption DEF Iso9660Assumption
  <1>2. /\ n \in Nat /\ n > 0 /\ size > 0 /\ full \in Int /\ SectorBytes * (n - 1) = full - S
        /\ full - S < size /\ size <= full
    <2>1. n \in Nat /\ n > 0
      BY Sectors
    <2> QED BY <2>1, Sectors
  <1>3. c = [p \in DOMAIN b \cup (offset..last) |->
              IF p \in offset..last
              THEN IF p - offset < SectorBytes THEN <<l, p - offset>> ELSE Junk
              ELSE b[p]]
    BY DEF Stored
  <1>4. k \in Int /\ 0 <= k /\ k <= n - 1
    BY <1>2
  <1>5. offset \in Int /\ offset >= 0 /\ offset <= full - S
    <2>1. k < n - 1 => SectorBytes * (n - 1) >= SectorBytes * k + SectorBytes
      BY <1>1, <1>2, <1>4, Steps
    <2>2. offset \in Int /\ offset >= 0
      BY <1>1, <1>4
    <2>3. k = n - 1 => offset = full - S
      BY <1>2
    <2> QED BY <1>1, <1>2, <1>4, <2>1, <2>2, <2>3
  <1>6. k < n - 1 => offset + S <= full - S
    <2>1. k < n - 1 => SectorBytes * (n - 1) >= SectorBytes * k + SectorBytes
      BY <1>1, <1>2, <1>4, Steps
    <2> QED BY <1>1, <1>2, <1>4, <1>5, <2>1
  <1>7. end = size + (size - (full - S))
    BY <1>2
  <1>8. k = n - 1 => offset = full - S
    BY <1>2
  <1>9. /\ words \in Int /\ words > 0 /\ words <= S /\ last \in Int
        /\ (words < S => words = size - offset) /\ words <= size - offset
    BY <1>1, <1>2, <1>5
  <1>10. last = (offset + 2 * words) - 1
    BY <1>5, <1>9
  <1> HIDE DEF S, offset, words, last, crop
  <1>11. (n > 1 /\ last < full) \/ last < end
    <2>1. CASE k < n - 1
      BY <1>1, <1>2, <1>5, <1>6, <1>9, <1>10, <2>1
    <2>2. CASE k = n - 1
      <3>1. offset = full - S
        BY <1>8, <2>2
      <3> QED BY <1>1, <1>2, <1>5, <1>7, <1>9, <1>10, <3>1
    <2> QED BY <1>2, <1>4, <2>1, <2>2
  <1>12. DOMAIN c = DOMAIN b \cup (offset..last)
    BY <1>3
  <1>13. \A p \in DOMAIN c : \/ p \in DOMAIN b
                             \/ p \in Int /\ p >= 0 /\ ((n > 1 /\ p < full) \/ p < end)
    <2> SUFFICES ASSUME NEW p \in offset..last
                 PROVE  p \in Int /\ p >= 0 /\ ((n > 1 /\ p < full) \/ p < end)
      BY <1>12
    <2>1. end \in Int
      BY <1>1, <1>2, <1>7
    <2> QED BY <1>2, <1>5, <1>9, <1>11, <2>1
  <1>14. ASSUME NEW p \in DOMAIN b, p \in Int, p < offset PROVE c[p] = b[p]
    BY <1>3, <1>5, <1>9, <1>14
  <1>15. ASSUME NEW p \in DOMAIN b, p \in Int, p >= offset + S
         PROVE  c[p] = Junk \/ c[p] = b[p]
    BY <1>1, <1>3, <1>5, <1>15 DEF S
  <1>16. ASSUME NEW p \in DOMAIN b, p \in Int, p < size, offset <= p, p < offset + S
         PROVE  c[p] = <<l, p - offset>>
    <2>1. p \in offset..last
      BY <1>1, <1>2, <1>5, <1>9, <1>10, <1>16
    <2>2. p - offset < SectorBytes
      BY <1>1, <1>5, <1>16 DEF S
    <2> QED BY <1>3, <2>1, <2>2
  <1> QED BY <1>12, <1>13, <1>14, <1>15, <1>16 DEF offset, S

-----------------------------------------------------------------------------
LEMMA IsoInit == Init => IsoInv
  <1> SUFFICES ASSUME Init PROVE IsoInv
    OBVIOUS
  <1>1. /\ pc = "mount" /\ disc \in Discs /\ valid = FALSE /\ entry = None /\ i = 0 /\ buf = <<>>
        /\ blocks = 0 /\ faults = 0 /\ failed = {}
    BY DEF Init
  <1>2. faults \in 0..MaxFaults
    BY <1>1, Iso9660Assumption DEF Iso9660Assumption
  <1> QED BY <1>1, <1>2 DEF IsoInv, OnDisc, Kept, Filing

(* The records of a directory. *)
LEMMA RecordOf ==
  ASSUME IsoInv, pc = "scan", at <= Len(disc[dir])
  PROVE  /\ Record \in Records /\ at \in Nat
         /\ IsFile(Record) \/ Record.lba \in DOMAIN disc
  <1>1. disc \in Discs /\ dir \in DOMAIN disc /\ at \in 1..(Len(disc[dir]) + 1)
    BY DEF IsoInv, OnDisc
  <1>2. /\ disc[dir] \in Seq(Records)
        /\ \A k \in DOMAIN disc[dir] : IsFile(disc[dir][k]) \/ disc[dir][k].lba \in DOMAIN disc
    BY <1>1, Iso9660Assumption DEF Iso9660Assumption, IsDisc, IsRecord, Records
  <1>3. at \in 1..Len(disc[dir]) /\ DOMAIN disc[dir] = 1..Len(disc[dir])
    BY <1>1, <1>2, LenProperties
  <1>4. Record \in Records
    BY <1>2, <1>3, ElementOfSeq DEF Record
  <1> QED BY <1>2, <1>3, <1>4 DEF Record

(* A directory entered is one of the disc. *)
LEMMA Entered ==
  ASSUME NEW d, d \in Discs, NEW lba, lba \in DOMAIN d
  PROVE  1 \in 1..(Len(d[lba]) + 1)
  <1>1. d[lba] \in Seq(Records)
    BY Iso9660Assumption DEF Iso9660Assumption, IsDisc, Records
  <1>2. Len(d[lba]) \in Nat
    BY <1>1, LenProperties
  <1> QED BY <1>2

(* No file is being read: it has no sectors to go through. *)
LEMMA EmptyFile == None.size = 0 /\ Bad.size = 0 /\ SectorsOfFile(0) \in Nat
  BY Sectors DEF None, Bad

(* The steps before a file is found. *)
LEMMA MountKeeps ==
  ASSUME IsoInv, InstCreate \/ InstCreateOfNoDisc
  PROVE  IsoInv'
  <1>1. CASE InstCreate
    BY <1>1 DEF InstCreate, IsoInv, OnDisc, Kept, Filing, scan, file, past
  <1>2. CASE InstCreateOfNoDisc
    <2>1. /\ pc = "mount" /\ pc' \in {"wild", "halted"} /\ valid' \in BOOLEAN /\ blocks' = blocks + 1
          /\ UNCHANGED <<disc, rootLBA, entry, i, buf, faults, failed>>
      BY <1>2 DEF InstCreateOfNoDisc, scan, file, past
    <2>2. disc \in Discs /\ faults \in 0..MaxFaults /\ blocks = 0
          /\ entry = None /\ i = 0 /\ buf = <<>> /\ failed = {}
      BY <2>1 DEF IsoInv, OnDisc, Kept, Filing
    <2>3. Unbuffered'
      BY <2>1, <2>2, EmptyFile DEF Unbuffered
    <2> QED BY <2>1, <2>2, <2>3 DEF IsoInv, OnDisc, Kept, Filing
  <1> QED BY <1>1, <1>2

LEMMA ReadFileKeeps ==
  ASSUME IsoInv, NEW p \in Paths, ReadFile(p)
  PROVE  IsoInv'
  <1>1. /\ pc = "idle" /\ blocks' = 2
        /\ UNCHANGED <<disc, rootLBA, valid, entry, i, buf, failed>>
        /\ \/ pc' = "scan" /\ dir' = rootLBA /\ at' = 1 /\ faults' = faults
           \/ pc' = "wild" /\ Fault
           \/ pc' = "halted" /\ faults' = faults
    BY DEF ReadFile, Enter, Halt, fs, file
  <1>2. /\ disc \in Discs /\ rootLBA = RootLba /\ valid \in BOOLEAN /\ faults \in 0..MaxFaults
        /\ entry = None /\ i = 0 /\ buf = <<>> /\ failed = {}
    BY <1>1 DEF IsoInv, OnDisc, Filing
  <1>3. RootLba \in DOMAIN disc
    BY <1>2, Iso9660Assumption DEF Iso9660Assumption, IsDisc
  <1>4. 1 \in 1..(Len(disc[RootLba]) + 1)
    BY <1>2, <1>3, Entered
  <1>5. faults' \in 0..MaxFaults
    BY <1>1, <1>2, Iso9660Assumption DEF Fault, Iso9660Assumption
  <1>6. OnDisc'
    BY <1>1, <1>2, <1>3, <1>4 DEF OnDisc
  <1>7. Unbuffered'
    BY <1>1, <1>2, EmptyFile DEF Unbuffered
  <1>8. Kept' /\ Filing'
    BY <1>1, <1>2, <1>7 DEF Kept, Filing
  <1> QED BY <1>1, <1>2, <1>5, <1>6, <1>8 DEF IsoInv

LEMMA SkipKeeps ==
  ASSUME IsoInv, Skip
  PROVE  IsoInv'
  <1>1. /\ pc = "scan" /\ at <= Len(disc[dir]) /\ at' = at + 1 /\ pc' = pc
        /\ UNCHANGED <<disc, rootLBA, valid, dir, entry, i, buf, blocks, faults, failed>>
    BY DEF Skip, NextRecord, fs, file, past
  <1>2. /\ disc \in Discs /\ dir \in DOMAIN disc /\ at \in 1..(Len(disc[dir]) + 1)
    BY <1>1 DEF IsoInv, OnDisc
  <1>3. Len(disc[dir]) \in Nat
    <2>1. disc[dir] \in Seq(Records)
      BY <1>2, Iso9660Assumption DEF Iso9660Assumption, IsDisc, Records
    <2> QED BY <2>1, LenProperties
  <1>4. at' \in 1..(Len(disc[dir]) + 1)
    BY <1>1, <1>2, <1>3
  <1> QED BY <1>1, <1>2, <1>4 DEF IsoInv, OnDisc, Kept, Filing

LEMMA MissKeeps ==
  ASSUME IsoInv, Miss
  PROVE  IsoInv'
  <1>1. /\ pc = "scan" /\ entry' = Bad /\ blocks' = blocks + 1 /\ pc' = "done"
        /\ UNCHANGED <<disc, rootLBA, valid, i, buf, faults, failed>>
    BY DEF Miss, fs, past
  <1>2. blocks = 2 /\ i = 0 /\ buf = <<>> /\ failed = {}
    BY <1>1 DEF IsoInv, Kept, Filing
  <1> QED BY <1>1, <1>2 DEF IsoInv, OnDisc, Kept, Filing

(* The scan goes down a directory, is told a block that was freed, or has  *)
(* left the path or the disc.                                              *)
LEMMA DescendKeeps ==
  ASSUME IsoInv, Descend \/ DescendPastEnd
  PROVE  IsoInv'
  <1>1. CASE DescendPastEnd
    BY <1>1 DEF DescendPastEnd, IsoInv, OnDisc, Kept, Filing, fs, scan, file, past
  <1>2. CASE Descend
    <2>1. /\ pc = "scan" /\ at <= Len(disc[dir]) /\ ~IsFile(Record)
          /\ blocks' = FreeBufo(blocks) + 1
          /\ UNCHANGED <<disc, rootLBA, valid, entry, i, buf, failed>>
          /\ \/ dir' = Record.lba /\ at' = 1 /\ pc' = "scan" /\ faults' = faults
             \/ dir' = dir /\ at' = 1 /\ pc' = "scan" /\ Fault
             \/ pc' = "wild" /\ Fault
             \/ pc' = "halted" /\ faults' = faults
      BY <1>2 DEF Descend, Enter, Halt, fs, file
    <2>2. /\ disc \in Discs /\ dir \in DOMAIN disc /\ blocks = 2 /\ faults \in 0..MaxFaults
          /\ valid \in BOOLEAN /\ entry = None /\ i = 0 /\ buf = <<>> /\ failed = {}
      BY <2>1 DEF IsoInv, OnDisc, Kept, Filing
    <2>3. Record.lba \in DOMAIN disc
      BY <2>1, RecordOf
    <2>4. blocks' = 2
      BY <2>1, <2>2 DEF FreeBufo
    <2>5. faults' \in 0..MaxFaults
      BY <2>1, <2>2, Iso9660Assumption DEF Fault, Iso9660Assumption
    <2>6. OnDisc'
      BY <2>1, <2>2, <2>3, Entered DEF OnDisc
    <2>7. Unbuffered'
      BY <2>1, <2>2, EmptyFile DEF Unbuffered
    <2>8. Kept' /\ Filing'
      BY <2>1, <2>2, <2>4, <2>7 DEF Kept, Filing
    <2> QED BY <2>1, <2>2, <2>5, <2>6, <2>8 DEF IsoInv
  <1> QED BY <1>1, <1>2

(* A file is found, and its buffer allocated. *)
LEMMA HitKeeps ==
  ASSUME IsoInv, Hit
  PROVE  IsoInv'
  <1>1. /\ pc = "scan" /\ at <= Len(disc[dir])
        /\ entry' = [lba |-> Record.lba, size |-> Record.size]
        /\ blocks' = FreeBufo(blocks) + 2 /\ i' = 0
        /\ buf' = [b \in 0..(Record.size - 1) |-> Junk] /\ pc' = "sectors"
        /\ UNCHANGED <<disc, rootLBA, valid, faults, failed>>
    BY DEF Hit, fs, past
  <1>2. disc \in Discs /\ blocks = 2 /\ faults \in 0..MaxFaults /\ valid \in BOOLEAN /\ failed = {}
    BY <1>1 DEF IsoInv, OnDisc, Kept, Filing
  <1> DEFINE size == Record.size
             n == SectorsOfFile(size)
             S == SectorBytes
  <1>3. Record.lba \in Nat /\ size \in Nat
    BY <1>1, RecordOf DEF Records
  <1>4. entry' \in [lba : Nat, size : Nat] /\ entry'.size = size
    BY <1>1, <1>3
  <1>5. n \in Nat /\ (size > 0 => S * (n - 1) < size /\ size <= S * n)
        /\ S * (n - 1) = S * n - S /\ S * n \in Int
    BY <1>3, Sectors
  <1>6. SectorsOfFile(entry'.size) = n
    BY <1>4
  <1>7. S \in Nat /\ S * 0 = 0
    BY Iso9660Assumption DEF Iso9660Assumption
  <1> HIDE DEF n
  <1>8. ASSUME size > 0 PROVE DOMAIN buf' \subseteq 0..(End' - 1)
    <2>1. Full' = S * n /\ Tail1' = size - (S * n - S)
      BY <1>4, <1>5, <1>6 DEF Full, Tail1
    <2>2. End' = IF n > 1 /\ S * n > size + (size - (S * n - S)) THEN S * n
              ELSE size + (size - (S * n - S))
      BY <1>4, <1>6, <2>1 DEF End
    <2>3. size <= End' /\ End' \in Int
      BY <1>3, <1>5, <1>7, <1>8, <2>2
    <2> QED BY <1>1, <1>3, <2>3
  <1>9. Filled'
    <2>1. \A b \in 0..(size - 1) : buf'[b][1] = NoSector /\ ~(b < S * 0)
      BY <1>1, <1>3, <1>7 DEF Junk
    <2>2. 0..(size - 1) = DOMAIN buf'
      BY <1>1
    <2>3. failed' \subseteq 0..(i' - 1) /\ i' \in 0..n
      BY <1>1, <1>2, <1>5
    <2>4. \A b \in 0..(entry'.size - 1) :
            IF b < SectorBytes * i' THEN Delivered(b)' ELSE buf'[b][1] = NoSector
      BY <1>1, <1>4, <2>1
    <2> QED BY <1>1, <1>4, <1>6, <1>8, <2>2, <2>3, <2>4 DEF Filled
  <1>10. Kept'
    BY <1>1, <1>2 DEF Kept, FreeBufo
  <1> QED BY <1>1, <1>2, <1>9, <1>10 DEF IsoInv, OnDisc, Filing

(* A file is found, and its buffer refused. *)
LEMMA HitRefusedKeeps ==
  ASSUME IsoInv, HitRefused
  PROVE  IsoInv'
  <1>1. /\ pc = "scan" /\ at <= Len(disc[dir])
        /\ entry' = [lba |-> Record.lba, size |-> Record.size]
        /\ blocks' = FreeBufo(blocks) + 1 /\ i' = 0 /\ pc' = "refused"
        /\ UNCHANGED <<disc, rootLBA, valid, faults>>
    BY DEF HitRefused, fs, past
  <1>2. disc \in Discs /\ blocks = 2 /\ faults \in 0..MaxFaults /\ valid \in BOOLEAN
    BY <1>1 DEF IsoInv, OnDisc, Kept
  <1>3. entry' \in [lba : Nat, size : Nat] /\ SectorsOfFile(entry'.size) \in Nat
    BY <1>1, RecordOf, Sectors DEF Records
  <1>4. Unbuffered'
    BY <1>1, <1>3 DEF Unbuffered
  <1>5. Kept'
    BY <1>1, <1>2 DEF Kept, FreeBufo
  <1> QED BY <1>1, <1>2, <1>4, <1>5 DEF IsoInv, OnDisc, Filing

(* Without a buffer a sector halts, or its poll fails; the loop may end. *)
LEMMA RefusedKeeps ==
  ASSUME IsoInv, SectorRefused \/ ReturnNull
  PROVE  IsoInv'
  <1>1. /\ pc = "refused" /\ pc' \in {"refused", "halted", "null"}
        /\ i' = i \/ (i' = i + 1 /\ i < SectorsOfFile(entry.size))
        /\ faults' = faults \/ Fault
        /\ UNCHANGED <<disc, rootLBA, valid, entry, blocks>>
    BY DEF SectorRefused, ReturnNull, fs, scan, file, past
  <1>2. disc \in Discs /\ blocks = 2 /\ faults \in 0..MaxFaults /\ valid \in BOOLEAN /\ Unbuffered
    BY <1>1 DEF IsoInv, OnDisc, Kept, Filing
  <1>3. SectorsOfFile(entry.size) \in Nat
    BY <1>2, Sectors, EmptyFile DEF Unbuffered
  <1>4. Unbuffered'
    BY <1>1, <1>2, <1>3 DEF Unbuffered
  <1>5. faults' \in 0..MaxFaults
    BY <1>1, <1>2, Iso9660Assumption DEF Fault, Iso9660Assumption
  <1> QED BY <1>1, <1>2, <1>4, <1>5 DEF IsoInv, OnDisc, Kept, Filing

(* A sector is read, or not read: its own bytes are then what its read     *)
(* stored or none of the disc's, and those of the sectors before stay.     *)
LEMMA SectorKeeps ==
  ASSUME IsoInv, Sector
  PROVE  IsoInv'
  <1> DEFINE S == SectorBytes
             size == entry.size
             n == SectorsOfFile(size)
             lba == entry.lba
             After(l) == Stored(buf, l, SectorBytes * i, size - SectorBytes * i)
  <1>1. /\ pc = "sectors" /\ i < n /\ i' = i + 1 /\ pc' = pc
        /\ UNCHANGED <<disc, rootLBA, valid, entry, blocks>>
        /\ \/ /\ buf' = After(lba + i) /\ faults' = faults /\ failed' = failed
           \/ /\ Fault /\ failed' = failed \cup {i}
              /\ buf' = buf \/ buf' = After(NoSector)
    BY DEF Sector, SectorOf, CropAt, fs, scan
  <1>2. /\ disc \in Discs /\ valid \in BOOLEAN /\ faults \in 0..MaxFaults /\ blocks = 3 /\ Filled
    BY <1>1 DEF IsoInv, OnDisc, Kept, Filing
  <1>3. /\ entry \in [lba : Nat, size : Nat] /\ lba \in Nat /\ size \in Nat
        /\ i \in 0..n /\ failed \subseteq 0..(i - 1)
        /\ \A b \in 0..(size - 1) : b \in DOMAIN buf
        /\ size > 0 => DOMAIN buf \subseteq 0..(End - 1)
        /\ \A b \in 0..(size - 1) :
             IF b < S * i THEN Delivered(b) ELSE buf[b][1] = NoSector
    BY <1>2 DEF Filled
  <1>4. S \in Nat /\ S > 0
    BY Iso9660Assumption DEF Iso9660Assumption
  <1>5. /\ n \in Nat /\ (size > 0 <=> n > 0) /\ S * n \in Int /\ S * (n - 1) = S * n - S
        /\ size > 0 => S * (n - 1) < size /\ size <= S * n
    BY <1>3, Sectors
  <1>6. i \in 0..(n - 1) /\ size > 0 /\ S * i \in Int /\ S * (i + 1) = S * i + S
    BY <1>1, <1>3, <1>4, <1>5
  <1> DEFINE top == size + (size - S * (n - 1))
  <1>7. \A l : /\ DOMAIN buf \subseteq DOMAIN After(l)
               /\ \A p \in DOMAIN After(l) :
                    p \in DOMAIN buf \/ (p \in Int /\ p >= 0 /\ ((n > 1 /\ p < S * n) \/ p < top))
               /\ \A p \in DOMAIN buf : p \in Int /\ p < S * i => After(l)[p] = buf[p]
               /\ \A p \in DOMAIN buf : p \in Int /\ p < size /\ p >= S * i + S =>
                                          After(l)[p] = Junk \/ After(l)[p] = buf[p]
               /\ \A p \in DOMAIN buf : p \in Int /\ p < size /\ S * i <= p /\ p < S * i + S =>
                                          After(l)[p] = <<l, p - S * i>>
    BY <1>3, <1>6, Storing
  <1>8. faults' \in 0..MaxFaults
    BY <1>1, <1>2, Iso9660Assumption DEF Fault, Iso9660Assumption
  <1>9. End = IF n > 1 /\ S * n > top THEN S * n ELSE top
    BY DEF End, Full, Tail1
  <1>10. top \in Int
    BY <1>3, <1>4, <1>5
  <1> HIDE DEF S, n, After, top
  <1>11. \A b \in 0..(size - 1) : b \in DOMAIN buf'
    BY <1>1, <1>3, <1>7
  <1>12. DOMAIN buf' \subseteq 0..(End - 1)
    <2> SUFFICES ASSUME NEW p \in DOMAIN buf' PROVE p \in 0..(End - 1)
      OBVIOUS
    <2>1. p \in DOMAIN buf \/ (p \in Int /\ p >= 0 /\ ((n > 1 /\ p < S * n) \/ p < top))
      BY <1>1, <1>7
    <2>2. CASE p \in DOMAIN buf
      BY <1>3, <1>6, <2>2
    <2>3. CASE p \in Int /\ p >= 0 /\ ((n > 1 /\ p < S * n) \/ p < top)
      BY <1>5, <1>9, <1>10, <2>3
    <2> QED BY <2>1, <2>2, <2>3
  <1>13. failed' \subseteq 0..(i' - 1) /\ i' \in 0..n
    <2>1. i \in Int /\ i >= 0 /\ i' = i + 1 /\ i' \in 0..n
      BY <1>1, <1>5, <1>6
    <2>2. failed' \subseteq failed \cup {i}
      BY <1>1
    <2>3. \A k \in failed \cup {i} : k \in 0..i
      BY <1>3, <2>1
    <2> QED BY <2>1, <2>2, <2>3
  <1>14. ASSUME NEW b \in 0..(size - 1)
         PROVE  IF b < S * (i + 1)
                THEN IF b \div S \in failed' THEN buf'[b][1] = NoSector
                     ELSE buf'[b] = <<lba + b \div S, b % S>>
                ELSE buf'[b][1] = NoSector
    <2>1. b \in Int /\ b < size /\ b \in DOMAIN buf
      BY <1>3
    <2>2. CASE b < S * i
      <3>1. buf'[b] = buf[b]
        BY <1>1, <1>7, <2>1, <2>2
      <3>2. b \div S \in failed' <=> b \div S \in failed
        <4>1. b = S * (b \div S) + (b % S) /\ b \div S \in Int /\ b % S \in 0..(S - 1)
          BY <1>4, <2>1, DivMod
        <4>2. b \div S # i
          BY <1>4, <2>1, <2>2, <4>1
        <4> QED BY <1>1, <4>2
      <3>3. IF b \div S \in failed THEN buf[b][1] = NoSector
            ELSE buf[b] = <<lba + b \div S, b % S>>
        BY <1>3, <2>2 DEF Delivered, S
      <3>4. b < S * (i + 1)
        BY <1>4, <1>6, <2>1, <2>2
      <3> QED BY <3>1, <3>2, <3>3, <3>4
    <2>3. CASE S * i <= b /\ b < S * i + S
      <3>1. b \div S = i /\ b % S = b - S * i
        BY <1>6, <2>1, <2>3, SectorOfByte DEF S
      <3>2. i \notin failed /\ ~(b < S * i)
        BY <1>3, <1>6, <2>1, <2>3
      <3>3. b < S * (i + 1)
        BY <1>6, <2>3
      <3>4. CASE buf' = After(lba + i) /\ failed' = failed
        <4>1. buf'[b] = <<lba + i, b - S * i>>
          BY <1>7, <2>1, <2>3, <3>4
        <4> QED BY <3>1, <3>2, <3>3, <3>4, <4>1
      <3>5. CASE failed' = failed \cup {i} /\ (buf' = buf \/ buf' = After(NoSector))
        <4>1. CASE buf' = buf
          BY <1>3, <3>1, <3>2, <3>3, <3>5, <4>1
        <4>2. CASE buf' = After(NoSector)
          <5>1. buf'[b] = <<NoSector, b - S * i>>
            BY <1>7, <2>1, <2>3, <4>2
          <5> QED BY <3>1, <3>3, <3>5, <5>1
        <4> QED BY <3>5, <4>1, <4>2
      <3> QED BY <1>1, <3>4, <3>5
    <2>4. CASE b >= S * i + S
      <3>1. ~(b < S * (i + 1)) /\ ~(b < S * i)
        BY <1>4, <1>6, <2>1, <2>4
      <3>2. buf'[b] = Junk \/ buf'[b] = buf[b]
        BY <1>1, <1>7, <2>1, <2>4
      <3>3. buf[b][1] = NoSector /\ Junk[1] = NoSector
        BY <1>3, <3>1 DEF Junk
      <3> QED BY <3>1, <3>2, <3>3
    <2> QED BY <1>4, <1>6, <2>1, <2>2, <2>3, <2>4
  <1>15. Filled'
    <2>1. entry' = entry /\ i' = i + 1 /\ End' = End /\ pc' = "sectors"
      BY <1>1 DEF End, Full, Tail1
    <2>2. \A b \in 0..(entry'.size - 1) :
            IF b < SectorBytes * i' THEN Delivered(b)' ELSE buf'[b][1] = NoSector
      BY <1>14, <2>1 DEF Delivered, S
    <2>3. 0..(size - 1) \subseteq DOMAIN buf'
      BY <1>11
    <2>4. i' \in 0..SectorsOfFile(entry'.size)
      BY <1>13, <2>1 DEF n
    <2> QED BY <1>3, <1>12, <1>13, <2>1, <2>2, <2>3, <2>4 DEF Filled
  <1> QED BY <1>1, <1>2, <1>8, <1>15 DEF IsoInv, OnDisc, Kept, Filing

LEMMA ReturnKeeps ==
  ASSUME IsoInv, Return
  PROVE  IsoInv'
  <1>1. /\ pc = "sectors" /\ i = SectorsOfFile(entry.size) /\ pc' = "done"
        /\ UNCHANGED <<disc, rootLBA, valid, entry, i, buf, blocks, faults, failed>>
    BY DEF Return, fs, scan, file, past
  <1>2. Filled'
    BY <1>1 DEF IsoInv, Filing, Filled, Delivered, End, Full, Tail1
  <1> QED BY <1>1, <1>2 DEF IsoInv, OnDisc, Kept, Filing

LEMMA IsoNext == IsoInv /\ [Next]_vars => IsoInv'
  <1> SUFFICES ASSUME IsoInv, [Next]_vars PROVE IsoInv'
    OBVIOUS
  <1>1. CASE UNCHANGED vars
    BY <1>1 DEF vars, fs, scan, file, past, IsoInv, OnDisc, Kept, Filing, Filled, Delivered,
                Unbuffered, End, Full, Tail1
  <1>2. CASE Next
    BY <1>2, MountKeeps, ReadFileKeeps, SkipKeeps, MissKeeps, HitKeeps, HitRefusedKeeps, DescendKeeps,
       SectorKeeps, ReturnKeeps, RefusedKeeps DEF Next
  <1> QED BY <1>1, <1>2

-----------------------------------------------------------------------------
(* In every state of a lookup: where the scan is, the blocks it has cost,  *)
(* and what each byte of the file's buffer holds (iso9660.c:23-116).       *)
THEOREM IsoInvariant == Spec => []IsoInv
  BY IsoInit, IsoNext, PTL DEF Spec

(* A call keeps three blocks, however deep its path and whatever is not    *)
(* read (iso9660.c:25, 66, 88-105), and the variables keep their types.    *)
THEOREM BlocksKept == Spec => []KeepsThree
  <1>1. IsoInv => KeepsThree
    <2> SUFFICES ASSUME IsoInv PROVE KeepsThree
      OBVIOUS
    <2>1. /\ pc \in {"mount", "idle", "scan", "sectors", "done", "wild", "halted", "refused", "null"}
          /\ valid \in BOOLEAN /\ faults \in 0..MaxFaults /\ OnDisc /\ Kept /\ Filing
      BY DEF IsoInv
    <2>2. blocks \in 0..3 /\ (pc = "done" => blocks = 3) /\ (pc \in {"refused", "null"} => blocks = 2)
      BY <2>1 DEF Kept
    <2>3. i \in 0..SectorsOfFile(entry.size)
      <3>1. CASE Filled
        BY <3>1 DEF Filled
      <3>2. CASE Unbuffered
        BY <3>2 DEF Unbuffered
      <3>3. CASE ~Filled /\ ~Unbuffered
        <4>1. i = 0 /\ (entry = None \/ entry = Bad)
          BY <2>1, <3>3 DEF Filing
        <4> QED BY <4>1, EmptyFile
      <3> QED BY <3>1, <3>2, <3>3
    <2>4. pc \in {"sectors", "done"} => 0..(entry.size - 1) \subseteq DOMAIN buf
      <3>1. Filled => 0..(entry.size - 1) \subseteq DOMAIN buf
        BY DEF Filled
      <3>2. entry = Bad => entry.size = 0
        BY EmptyFile
      <3> QED BY <2>1, <3>1, <3>2 DEF Filing
    <2> QED BY <2>1, <2>2, <2>3, <2>4 DEF KeepsThree, TypeOK, OnDisc
  <1> QED BY <1>1, IsoInvariant, PTL

(* The buffer holds the file, sector by sector in its place, over the junk *)
(* that each read stores behind its own (iso9660.c:107-111, ide.c:232); a  *)
(* read that fails spoils its own sector and no other.                     *)
THEOREM FileRead == Spec => []FileDelivered
  <1>1. IsoInv => FileDelivered
    <2> SUFFICES ASSUME IsoInv, pc = "done", entry # Bad, NEW b \in 0..(entry.size - 1)
                 PROVE  Delivered(b)
      BY DEF FileDelivered, Delivered
    <2>1. Filled
      BY DEF IsoInv, Filing
    <2>2. entry.size \in Nat /\ i = SectorsOfFile(entry.size)
      BY <2>1 DEF Filled
    <2>3. b < SectorBytes * i
      <3>1. entry.size > 0 /\ b < entry.size /\ b \in Int
        BY <2>2
      <3>2. entry.size <= SectorBytes * i /\ SectorBytes * i \in Int
        BY <2>2, <3>1, Sectors
      <3> QED BY <2>2, <3>1, <3>2
    <2> QED BY <2>1, <2>3 DEF Filled
  <1> QED BY <1>1, IsoInvariant, PTL

(* ide.c:232 moves twice what iso9660.c:109 asks for: the reads store past *)
(* the end of the buffer as many bytes as the file has in its last sector, *)
(* or, of a file of several sectors, to the end of that sector; no further.*)
THEOREM OverrunLimited == Spec => []OverrunBounded
  <1>1. IsoInv => OverrunBounded
    <2> DEFINE n == SectorsOfFile(entry.size)
               tail == entry.size - SectorBytes * (n - 1)
    <2> SUFFICES ASSUME IsoInv, pc = "done", entry # Bad, entry.size > 0, NEW b \in DOMAIN buf
                 PROVE  b < entry.size + tail \/ (n > 1 /\ b < SectorBytes * n)
      BY DEF OverrunBounded
    <2>1. Filled
      BY DEF IsoInv, Filing
    <2>2. entry.size \in Nat
      BY <2>1 DEF Filled
    <2>3. n \in Nat /\ SectorBytes * n \in Int /\ SectorBytes * (n - 1) = SectorBytes * n - SectorBytes
      BY <2>2, Sectors
    <2>4. b \in 0..(End - 1)
      BY <2>1 DEF Filled
    <2>5. End = IF n > 1 /\ SectorBytes * n > entry.size + tail THEN SectorBytes * n
                ELSE entry.size + tail
      BY DEF End, Full, Tail1
    <2>6. entry.size + tail \in Int
      BY <2>2, <2>3, Iso9660Assumption DEF Iso9660Assumption
    <2> HIDE DEF n, tail
    <2> QED BY <2>3, <2>4, <2>5, <2>6
  <1> QED BY <1>1, IsoInvariant, PTL
-----------------------------------------------------------------------------
(* Paths.  Any numbers have a least one. *)
LEMMA Least ==
  ASSUME NEW T \in SUBSET Nat, T # {}
  PROVE  \E x \in T : \A y \in T : x <= y
  <1>1. PICK x \in T : \A y \in T : ~ (<<y, x>> \in OpToRel(<, Nat))
    BY NatLessThanWellFounded, WFMin
  <1>2. ASSUME NEW y \in T PROVE x <= y
    <2>1. x \in Nat /\ y \in Nat
      OBVIOUS
    <2>2. ~(y < x)
      BY <1>1, <2>1 DEF OpToRel
    <2> QED BY <2>1, <2>2
  <1> QED BY <1>2

(* The next cut, and what it alone is. *)
IsNextCut(p, s, e) ==
  /\ e \in (s + 1)..(Len(p) + 1)
  /\ e = Len(p) + 1 \/ p[e] = Slash
  /\ \A k \in (s + 1)..(e - 1) : p[k] # Slash

LEMMA NextCutExists ==
  ASSUME NEW p \in Seq(Nat), NEW s \in Nat, s <= Len(p)
  PROVE  IsNextCut(p, s, CutAfter(p, s))
  <1> DEFINE T == {e \in (s + 1)..(Len(p) + 1) : e = Len(p) + 1 \/ p[e] = Slash}
  <1>1. PICK n \in Nat : n = Len(p)
    BY LenProperties
  <1>2. T \in SUBSET Nat /\ n + 1 \in T
    BY <1>1
  <1>3. PICK e \in T : \A y \in T : e <= y
    BY <1>2, Least
  <1>4. IsNextCut(p, s, e)
    <2>1. e \in (s + 1)..(Len(p) + 1) /\ (e = Len(p) + 1 \/ p[e] = Slash)
      BY <1>3
    <2>2. ASSUME NEW k \in (s + 1)..(e - 1), p[k] = Slash PROVE FALSE
      <3>1. k \in T
        BY <1>1, <2>1, <2>2
      <3> QED BY <1>1, <1>3, <2>1, <3>1
    <2> QED BY <2>1, <2>2 DEF IsNextCut
  <1> QED BY <1>4 DEF IsNextCut, CutAfter

LEMMA NextCutUnique ==
  ASSUME NEW p \in Seq(Nat), NEW s \in Nat, s <= Len(p), NEW e, IsNextCut(p, s, e)
  PROVE  CutAfter(p, s) = e
  <1>1. PICK n \in Nat : n = Len(p)
    BY LenProperties
  <1> DEFINE c == CutAfter(p, s)
  <1>2. IsNextCut(p, s, c)
    BY NextCutExists
  <1> HIDE DEF c
  <1>3. /\ c \in (s + 1)..(n + 1) /\ (c = n + 1 \/ p[c] = Slash)
        /\ e \in (s + 1)..(n + 1) /\ (e = n + 1 \/ p[e] = Slash)
        /\ \A k \in (s + 1)..(c - 1) : p[k] # Slash
        /\ \A k \in (s + 1)..(e - 1) : p[k] # Slash
    BY <1>1, <1>2 DEF IsNextCut
  <1>4. ~(c < e)
    BY <1>1, <1>3
  <1>5. ~(e < c)
    BY <1>1, <1>3
  <1>6. c \in Int /\ e \in Int
    BY <1>1, <1>3
  <1> QED BY <1>4, <1>5, <1>6 DEF c

LEMMA CutsAreNat ==
  ASSUME NEW p \in Seq(Nat), NEW s \in Cuts(p)
  PROVE  s \in Nat /\ s <= Len(p) /\ (s # 0 => s \in 1..Len(p) /\ p[s] = Slash)
  <1>1. DOMAIN p = 1..Len(p) /\ Len(p) \in Nat
    BY LenProperties
  <1> QED BY <1>1 DEF Cuts

LEMMA SlashIsCut ==
  ASSUME NEW p \in Seq(Nat), NEW s \in 1..Len(p), p[s] = Slash
  PROVE  s \in Cuts(p)
  <1>1. DOMAIN p = 1..Len(p)
    BY LenProperties
  <1> QED BY <1>1 DEF Cuts

(* The cut after a cut that is not the last is no later than any later one.*)
LEMMA NextCutIsCut ==
  ASSUME NEW p \in Seq(Nat), NEW s \in Cuts(p), NEW t \in Cuts(p), t < s
  PROVE  CutAfter(p, t) \in Cuts(p) /\ t < CutAfter(p, t) /\ CutAfter(p, t) <= s
  <1>1. PICK n \in Nat : n = Len(p)
    BY LenProperties
  <1> DEFINE c == CutAfter(p, t)
  <1>2. s \in Nat /\ t \in Nat /\ s <= n /\ t <= n /\ s \in 1..n /\ p[s] = Slash
    <2>1. s \in Nat /\ t \in Nat /\ s <= n /\ t <= n /\ (s # 0 => s \in 1..n /\ p[s] = Slash)
      BY <1>1, CutsAreNat
    <2> QED BY <2>1
  <1>3. IsNextCut(p, t, c)
    BY <1>1, <1>2, NextCutExists
  <1> HIDE DEF c
  <1>4. /\ c \in (t + 1)..(n + 1) /\ (c = n + 1 \/ p[c] = Slash)
        /\ \A k \in (t + 1)..(c - 1) : p[k] # Slash
    BY <1>1, <1>3 DEF IsNextCut
  <1>5. c <= s /\ t < c
    BY <1>1, <1>2, <1>4
  <1>6. c \in 1..n /\ p[c] = Slash
    BY <1>1, <1>2, <1>4, <1>5
  <1>7. c \in Cuts(p)
    BY <1>1, <1>6, SlashIsCut
  <1> QED BY <1>5, <1>7 DEF c

(* Each cut but the first follows another. *)
LEMMA CutBefore ==
  ASSUME NEW p \in Seq(Nat), NEW s \in Cuts(p), s # 0
  PROVE  \E t \in Cuts(p) : t < s /\ CutAfter(p, t) = s
  <1>1. PICK n \in Nat : n = Len(p)
    BY LenProperties
  <1>2. s \in Nat /\ s > 0 /\ s \in 1..n /\ p[s] = Slash
    BY <1>1, CutsAreNat
  <1> DEFINE T == {x \in 1..s : s - x \in Cuts(p)}
  <1>3. T \in SUBSET Nat /\ s \in T
    BY <1>2 DEF Cuts
  <1>4. PICK x \in T : \A y \in T : x <= y
    BY <1>3, Least
  <1> DEFINE t == s - x
  <1>5. t \in Cuts(p) /\ t < s /\ t \in Nat /\ t + x = s /\ x \in Nat
    BY <1>2, <1>4
  <1>6. IsNextCut(p, t, s)
    <2>1. ASSUME NEW k \in (t + 1)..(s - 1), p[k] = Slash PROVE FALSE
      <3>1. k \in 1..n /\ s - k \in 1..s /\ s - k < x /\ s - (s - k) = k
        BY <1>2, <1>5, <2>1
      <3>2. k \in Cuts(p)
        BY <1>1, <2>1, <3>1, SlashIsCut
      <3>3. s - k \in T
        BY <3>1, <3>2
      <3> QED BY <1>4, <1>5, <3>1, <3>3
    <2>2. s \in (t + 1)..(Len(p) + 1)
      BY <1>1, <1>2, <1>5
    <2> QED BY <1>2, <2>1, <2>2 DEF IsNextCut
  <1>7. CutAfter(p, t) = s
    BY <1>1, <1>2, <1>5, <1>6, NextCutUnique
  <1> QED BY <1>5, <1>7

(* The cut that only the path's end follows. *)
LEMMA LastIs ==
  ASSUME NEW p \in Seq(Nat), NEW s \in Cuts(p)
  PROVE  /\ LastCut(p) \in Cuts(p) /\ s <= LastCut(p)
         /\ LastCut(p) = s <=> CutAfter(p, s) = Len(p) + 1
  <1>1. PICK n \in Nat : n = Len(p)
    BY LenProperties
  <1> DEFINE T == {x \in 0..n : n - x \in Cuts(p)}
  <1>2. T \in SUBSET Nat /\ n \in T
    BY <1>1 DEF Cuts
  <1>3. PICK x \in T : \A y \in T : x <= y
    BY <1>2, Least
  <1>4. n - x \in Cuts(p) /\ x \in 0..n
    BY <1>3
  <1>5. ASSUME NEW u \in Cuts(p) PROVE u <= n - x
    <2>1. u \in Nat /\ u <= n
      BY <1>1, <1>5, CutsAreNat
    <2>2. n - u \in 0..n /\ n - (n - u) = u
      BY <2>1
    <2>3. n - u \in T
      BY <1>5, <2>2
    <2>4. x <= n - u
      BY <1>3, <2>3
    <2> HIDE DEF T
    <2> QED BY <1>4, <2>1, <2>4
  <1> DEFINE l == LastCut(p)
  <1>6. l \in Cuts(p) /\ \A t \in Cuts(p) : t <= l
    BY <1>4, <1>5 DEF LastCut
  <1> HIDE DEF l
  <1>7. /\ l \in Nat /\ l <= n /\ s \in Nat /\ s <= n
        /\ \A u \in Cuts(p) : u \in Nat
    BY <1>1, <1>6, CutsAreNat
  <1> DEFINE c == CutAfter(p, s)
  <1>8. IsNextCut(p, s, c)
    BY <1>1, <1>7, NextCutExists
  <1> HIDE DEF c
  <1>9. /\ c \in (s + 1)..(n + 1) /\ (c = n + 1 \/ p[c] = Slash)
        /\ \A k \in (s + 1)..(c - 1) : p[k] # Slash
    BY <1>1, <1>8 DEF IsNextCut
  <1>10. ASSUME c # n + 1 PROVE l # s
    <2>1. c \in 1..n /\ p[c] = Slash /\ c > s
      BY <1>7, <1>9, <1>10
    <2>2. c \in Cuts(p)
      BY <1>1, <2>1, SlashIsCut
    <2> QED BY <1>6, <1>7, <2>1, <2>2
  <1>11. ASSUME c = n + 1 PROVE l = s
    <2>1. s <= l
      BY <1>6
    <2>2. CASE s < l
      <3>1. p[l] = Slash /\ l \in (s + 1)..(c - 1)
        BY <1>1, <1>6, <1>7, <1>11, <2>2, CutsAreNat
      <3> QED BY <1>9, <3>1
    <2> QED BY <1>7, <2>1, <2>2
  <1> QED BY <1>1, <1>6, <1>10, <1>11 DEF l, c

-----------------------------------------------------------------------------
(* Chains of directories.  There is at most one. *)
LEMMA OneName ==
  ASSUME NEW d, IsDisc(d), NEW lba \in DOMAIN d, NEW name,
         NEW r \in InDir(d, lba, name), NEW q \in InDir(d, lba, name), ~IsFile(r)
  PROVE  q = r
  <1>1. PICK j \in DOMAIN d[lba] : r = d[lba][j] /\ d[lba][j].name = name
    BY DEF InDir
  <1>2. PICK k \in DOMAIN d[lba] : q = d[lba][k] /\ d[lba][k].name = name
    BY DEF InDir
  <1>3. IsRecord(d, lba, j)
    BY DEF IsDisc
  <1>4. \A m \in DOMAIN d[lba] : d[lba][m].name = r.name => m = j
    BY <1>1, <1>3 DEF IsRecord
  <1> QED BY <1>1, <1>2, <1>4

LEMMA OneChain ==
  ASSUME NEW d, IsDisc(d), NEW p \in Seq(Nat), NEW s \in Cuts(p),
         NEW f \in Chains(d, p, s), NEW g \in Chains(d, p, s)
  PROVE  f = g
  <1> DEFINE C == Cuts(p) \cap (0..s)
             T == {t \in C : f[t] # g[t]}
  <1>1. /\ f \in [C -> DOMAIN d] /\ g \in [C -> DOMAIN d] /\ f[0] = g[0]
        /\ \A t \in C \ {s} :
             \E r \in InDir(d, f[t], Component(p, t)) : ~IsFile(r) /\ f[CutAfter(p, t)] = r.lba
        /\ \A t \in C \ {s} :
             \E r \in InDir(d, g[t], Component(p, t)) : ~IsFile(r) /\ g[CutAfter(p, t)] = r.lba
    BY DEF Chains
  <1>2. T = {}
    <2> SUFFICES ASSUME T # {} PROVE FALSE
      OBVIOUS
    <2>1. T \in SUBSET Nat
      OBVIOUS
    <2>2. PICK u \in T : \A y \in T : u <= y
      BY <2>1, Least
    <2>3. u \in Cuts(p) /\ u # 0 /\ u \in 0..s /\ f[u] # g[u]
      BY <1>1, <2>2
    <2>4. PICK t \in Cuts(p) : t < u /\ CutAfter(p, t) = u
      BY <2>3, CutBefore
    <2>5. t \in Nat /\ s \in Nat
      BY CutsAreNat
    <2>6. t \in C \ {s} /\ t \notin T
      BY <2>2, <2>3, <2>4, <2>5
    <2>7. f[t] = g[t] /\ f[t] \in DOMAIN d
      BY <1>1, <2>6
    <2>8. PICK r \in InDir(d, f[t], Component(p, t)) : ~IsFile(r) /\ f[u] = r.lba
      BY <1>1, <2>4, <2>6
    <2>9. PICK q \in InDir(d, g[t], Component(p, t)) : ~IsFile(q) /\ g[u] = q.lba
      BY <1>1, <2>4, <2>6
    <2>10. q = r
      BY <2>7, <2>8, <2>9, OneName
    <2> QED BY <2>3, <2>8, <2>9, <2>10
  <1> QED BY <1>1, <1>2

LEMMA OneDir ==
  ASSUME NEW d, IsDisc(d), NEW p \in Seq(Nat), NEW s \in Cuts(p),
         NEW l \in DirsAt(d, p, s), NEW m \in DirsAt(d, p, s)
  PROVE  l = m
  <1>1. PICK f \in Chains(d, p, s) : l = f[s]
    BY DEF DirsAt
  <1>2. PICK g \in Chains(d, p, s) : m = g[s]
    BY DEF DirsAt
  <1> QED BY <1>1, <1>2, OneChain

(* A chain goes one directory further. *)
LEMMA ChainExtends ==
  ASSUME NEW d, NEW p \in Seq(Nat), NEW s \in Cuts(p), NEW lba \in DirsAt(d, p, s),
         NEW r \in InDir(d, lba, Component(p, s)), ~IsFile(r), r.lba \in DOMAIN d,
         NEW e \in Cuts(p), s < e, CutAfter(p, s) = e
  PROVE  r.lba \in DirsAt(d, p, e)
  <1> DEFINE C(n) == Cuts(p) \cap (0..n)
  <1>1. PICK f \in Chains(d, p, s) : lba = f[s]
    BY DEF DirsAt
  <1>2. /\ f \in [C(s) -> DOMAIN d] /\ f[0] = RootLba
        /\ \A t \in C(s) \ {s} :
             \E q \in InDir(d, f[t], Component(p, t)) : ~IsFile(q) /\ f[CutAfter(p, t)] = q.lba
    BY DEF Chains
  <1> DEFINE g == [t \in C(e) |-> IF t = e THEN r.lba ELSE f[t]]
  <1>3. s \in Nat /\ e \in Nat /\ \A t \in Cuts(p) : t \in Nat
    BY CutsAreNat
  <1>4. ASSUME NEW t \in C(e), t # e PROVE t \in C(s)
    <2>1. t \in Nat /\ t < e /\ t \in Cuts(p)
      BY <1>3, <1>4
    <2>2. CASE s < t
      <3>1. CutAfter(p, s) <= t
        BY <1>3, <2>1, <2>2, NextCutIsCut
      <3> QED BY <1>3, <2>1, <3>1
    <2> QED BY <1>3, <2>1, <2>2
  <1>5. s \in C(s) /\ 0 \in C(e) /\ e \in C(e) /\ s \in C(e) /\ 0 # e
    BY <1>3 DEF Cuts
  <1>6. g \in [C(e) -> DOMAIN d] /\ g[0] = RootLba /\ g[e] = r.lba /\ g[s] = f[s]
    BY <1>2, <1>3, <1>4, <1>5
  <1>7. ASSUME NEW t \in C(e) \ {e}
        PROVE  \E q \in InDir(d, g[t], Component(p, t)) : ~IsFile(q) /\ g[CutAfter(p, t)] = q.lba
    <2>1. CASE t = s
      BY <1>1, <1>6, <2>1
    <2>2. CASE t # s
      <3>1. t \in C(s) \ {s} /\ t < s /\ t \in Cuts(p)
        BY <1>3, <1>4, <2>2
      <3>2. CutAfter(p, t) \in C(e) /\ CutAfter(p, t) # e
        <4>1. CutAfter(p, t) \in Cuts(p) /\ CutAfter(p, t) <= s
          BY <3>1, NextCutIsCut
        <4>2. CutAfter(p, t) \in Nat
          BY <1>3, <4>1
        <4> QED BY <1>3, <4>1, <4>2
      <3>3. g[t] = f[t] /\ g[CutAfter(p, t)] = f[CutAfter(p, t)]
        BY <3>2
      <3> QED BY <1>2, <3>1, <3>3
    <2> QED BY <2>1, <2>2
  <1>8. DOMAIN g = C(e)
    OBVIOUS
  <1> HIDE DEF g
  <1>9. g \in Chains(d, p, e)
    BY <1>6, <1>7, <1>8 DEF Chains
  <1> QED BY <1>6, <1>9 DEF DirsAt

(* Its beginning is a chain, and its next directory is in the one before.  *)
LEMMA ChainThrough ==
  ASSUME NEW d, NEW p \in Seq(Nat), NEW s \in Cuts(p), NEW e \in Cuts(p), s < e,
         NEW f \in Chains(d, p, e)
  PROVE  f[s] \in DirsAt(d, p, s) /\ InDir(d, f[s], Component(p, s)) # {}
  <1> DEFINE C(n) == Cuts(p) \cap (0..n)
             g == [t \in C(s) |-> f[t]]
  <1>1. /\ f \in [C(e) -> DOMAIN d] /\ f[0] = RootLba
        /\ \A t \in C(e) \ {e} :
             \E q \in InDir(d, f[t], Component(p, t)) : ~IsFile(q) /\ f[CutAfter(p, t)] = q.lba
    BY DEF Chains
  <1>2. s \in Nat /\ e \in Nat /\ \A t \in Cuts(p) : t \in Nat
    BY CutsAreNat
  <1>3. C(s) \subseteq C(e) \ {e} /\ 0 \in C(s) /\ s \in C(s)
    BY <1>2 DEF Cuts
  <1>4. g \in [C(s) -> DOMAIN d] /\ g[0] = RootLba /\ g[s] = f[s] /\ DOMAIN g = C(s)
    BY <1>1, <1>3
  <1>5. ASSUME NEW t \in C(s) \ {s}
        PROVE  \E q \in InDir(d, g[t], Component(p, t)) : ~IsFile(q) /\ g[CutAfter(p, t)] = q.lba
    <2>1. t < s /\ t \in Cuts(p)
      BY <1>2
    <2>2. CutAfter(p, t) \in Cuts(p) /\ CutAfter(p, t) <= s
      BY <2>1, NextCutIsCut
    <2>3. CutAfter(p, t) \in C(s)
      <3>1. CutAfter(p, t) \in Nat
        BY <1>2, <2>2
      <3> QED BY <1>2, <2>2, <3>1
    <2>4. g[t] = f[t] /\ g[CutAfter(p, t)] = f[CutAfter(p, t)]
      BY <2>3
    <2> QED BY <1>1, <1>3, <2>4
  <1>6. InDir(d, f[s], Component(p, s)) # {}
    BY <1>1, <1>3
  <1> HIDE DEF g
  <1>7. g \in Chains(d, p, s)
    BY <1>4, <1>5 DEF Chains
  <1> QED BY <1>4, <1>6, <1>7 DEF DirsAt

(* What comes after a cut has no say in the directory there. *)
LEMMA SameChains ==
  ASSUME NEW d, NEW p \in Seq(Nat), NEW q \in Seq(Nat), NEW s \in Cuts(p), s \in Cuts(q),
         \A k \in 1..s : p[k] = q[k]
  PROVE  DirsAt(d, p, s) \subseteq DirsAt(d, q, s)
  <1>1. PICK m \in Nat : m = Len(p)
    BY LenProperties
  <1>2. PICK n \in Nat : n = Len(q)
    BY LenProperties
  <1>3. s \in Nat /\ s <= m /\ s <= n /\ \A t \in Cuts(p) : t \in Nat
    BY <1>1, <1>2, CutsAreNat
  <1>4. Cuts(p) \cap (0..s) = Cuts(q) \cap (0..s)
    <2>1. ASSUME NEW t \in 0..s PROVE t \in Cuts(p) <=> t \in Cuts(q)
      <3>1. CASE t = 0
        BY <3>1 DEF Cuts
      <3>2. CASE t # 0
        <4>1. t \in 1..s /\ t \in 1..m /\ t \in 1..n /\ p[t] = q[t]
          BY <1>3, <2>1, <3>2
        <4> QED BY <1>1, <1>2, <3>2, <4>1, CutsAreNat, SlashIsCut
      <3> QED BY <3>1, <3>2
    <2> QED BY <2>1
  <1>5. ASSUME NEW t \in Cuts(p), t < s
        PROVE  CutAfter(p, t) = CutAfter(q, t) /\ Component(p, t) = Component(q, t)
    <2> DEFINE c == CutAfter(p, t)
    <2>1. t \in Nat /\ t <= m /\ t <= n
      BY <1>3, <1>5
    <2>2. c \in Cuts(p) /\ t < c /\ c <= s
      BY <1>5, NextCutIsCut
    <2>3. IsNextCut(p, t, c)
      BY <1>1, <2>1, NextCutExists
    <2> HIDE DEF c
    <2>4. /\ c \in Nat /\ c \in 1..s /\ c \in (t + 1)..(n + 1) /\ (t + 1)..(c - 1) \subseteq 1..s
          /\ c # m + 1 /\ \A k \in (t + 1)..(c - 1) : p[k] # Slash
      BY <1>1, <1>3, <2>1, <2>2, <2>3 DEF IsNextCut
    <2>5. p[c] = Slash /\ q[c] = Slash
      BY <1>1, <2>3, <2>4 DEF IsNextCut
    <2>6. IsNextCut(q, t, c)
      BY <1>2, <2>4, <2>5 DEF IsNextCut
    <2>7. CutAfter(q, t) = c
      BY <1>2, <2>1, <2>6, NextCutUnique
    <2>8. SubSeq(p, t + 1, c - 1) = SubSeq(q, t + 1, c - 1)
      <3>1. \A k \in (t + 1)..(c - 1) : p[k] = q[k]
        BY <2>4
      <3>2. t + 1 \in 1..(m + 1) /\ t + 1 \in 1..(n + 1) /\ c - 1 \in t..m /\ c - 1 \in t..n
        BY <1>3, <2>1, <2>4
      <3> QED BY <1>1, <1>2, <2>1, <2>4, <3>1, <3>2
    <2> QED BY <2>7, <2>8 DEF Component, c
  <1> DEFINE C == Cuts(q) \cap (0..s)
  <1> SUFFICES ASSUME NEW f \in Chains(d, p, s) PROVE f \in Chains(d, q, s)
    BY DEF DirsAt
  <1>6. /\ f \in [C -> DOMAIN d] /\ f[0] = RootLba /\ DOMAIN f = C
        /\ \A t \in C \ {s} :
             \E r \in InDir(d, f[t], Component(p, t)) : ~IsFile(r) /\ f[CutAfter(p, t)] = r.lba
    BY <1>4 DEF Chains
  <1>7. \A t \in C \ {s} : t \in Cuts(p) /\ t < s
    BY <1>3, <1>4
  <1>8. \A t \in C \ {s} :
          \E r \in InDir(d, f[t], Component(q, t)) : ~IsFile(r) /\ f[CutAfter(q, t)] = r.lba
    BY <1>5, <1>6, <1>7
  <1> QED BY <1>6, <1>8 DEF Chains
-----------------------------------------------------------------------------
(* Names. *)
LEMMA Slice ==
  ASSUME NEW q \in Seq(Nat), NEW m \in Nat, NEW n \in Nat, m <= n + 1, m > 0, n <= Len(q)
  PROVE  /\ SubSeq(q, m, n) \in Seq(Nat) /\ Len(SubSeq(q, m, n)) = n - m + 1
         /\ \A k \in 1..(n - m + 1) : SubSeq(q, m, n)[k] = q[m + k - 1]
  <1>1. PICK l \in Nat : l = Len(q)
    BY LenProperties
  <1>2. \A k \in m..n : q[k] \in Nat
    <2> SUFFICES ASSUME NEW k \in m..n PROVE q[k] \in Nat
      OBVIOUS
    <2>1. k \in 1..Len(q)
      BY <1>1
    <2> QED BY <2>1, ElementOfSeq
  <1>3. /\ SubSeq(q, m, n) \in Seq(Nat)
        /\ Len(SubSeq(q, m, n)) = IF m <= n THEN n - m + 1 ELSE 0
        /\ \A k \in 1..(n - m + 1) : SubSeq(q, m, n)[k] = q[m + k - 1]
    BY <1>2, SubSeqProperties
  <1>4. ~(m <= n) => n - m + 1 = 0
    OBVIOUS
  <1> QED BY <1>3, <1>4

LEMMA OfFileName ==
  ASSUME NEW c \in Seq(Nat)
  PROVE  /\ FileName(c) \in Seq(Nat) /\ Len(FileName(c)) = Len(c) + 2
         /\ \A k \in 1..Len(c) : FileName(c)[k] = c[k]
         /\ FileName(c)[Len(c) + 1] = Semicolon
  <1> DEFINE e == <<Semicolon, 49>>
  <1>1. e \in Seq(Nat) /\ Len(e) = 2 /\ e[1] = Semicolon
    BY DEF Semicolon
  <1> HIDE DEF e
  <1>2. PICK n \in Nat : n = Len(c)
    BY LenProperties
  <1>3. /\ c \o e \in Seq(Nat) /\ Len(c \o e) = n + 2
        /\ \A k \in 1..(n + 2) : (c \o e)[k] = IF k <= n THEN c[k] ELSE e[k - n]
    <2>1. /\ c \o e \in Seq(Nat) /\ Len(c \o e) = Len(c) + Len(e)
          /\ \A k \in 1..Len(c) + Len(e) :
               (c \o e)[k] = IF k <= Len(c) THEN c[k] ELSE e[k - Len(c)]
      BY <1>1, ConcatProperties
    <2> QED BY <1>1, <1>2, <2>1
  <1>4. (c \o e)[n + 1] = e[(n + 1) - n] /\ (n + 1) - n = 1
    BY <1>2, <1>3
  <1>5. \A k \in 1..n : (c \o e)[k] = c[k]
    BY <1>2, <1>3
  <1> QED BY <1>1, <1>2, <1>3, <1>4, <1>5 DEF FileName, e

(* What the scan compares: a name with the beginning of what is left of    *)
(* the path, whose component is its first n characters.                    *)
IsComponent(q, n) ==
  /\ n \in 0..Len(q)
  /\ n = Len(q) \/ q[n + 1] = Slash
  /\ \A k \in 1..n : q[k] # Slash

Fits(name, q, n) ==
  /\ n \in {Len(name), Len(name) - 2}
  /\ \A k \in DOMAIN name :
       (\A j \in 1..k : name[j] # Semicolon) => k <= Len(q) /\ name[k] = q[k]

LEMMA NameFits ==
  ASSUME NEW name \in Seq(Nat), NEW q \in Seq(Nat), NEW n \in 0..Len(q),
         name \in {SubSeq(q, 1, n), FileName(SubSeq(q, 1, n))}
  PROVE  Fits(name, q, n)
  <1> DEFINE c == SubSeq(q, 1, n)
  <1>1. PICK l \in Nat : l = Len(q)
    BY LenProperties
  <1>2. n \in Nat /\ n <= l
    BY <1>1
  <1>3. c \in Seq(Nat) /\ Len(c) = n /\ \A k \in 1..n : c[k] = q[k]
    <2>1. /\ c \in Seq(Nat) /\ Len(c) = n - 1 + 1
          /\ \A k \in 1..(n - 1 + 1) : c[k] = q[1 + k - 1]
      BY <1>1, <1>2, Slice
    <2> QED BY <1>2, <2>1
  <1> HIDE DEF c
  <1>4. PICK m \in Nat : m = Len(name) /\ DOMAIN name = 1..m
    BY LenProperties
  <1>5. CASE name = c
    BY <1>1, <1>2, <1>3, <1>4, <1>5 DEF Fits
  <1>6. CASE name = FileName(c)
    <2>1. m = n + 2 /\ name[n + 1] = Semicolon /\ \A k \in 1..n : name[k] = q[k]
      BY <1>3, <1>4, <1>6, OfFileName
    <2>2. ASSUME NEW k \in 1..m, \A j \in 1..k : name[j] # Semicolon
          PROVE  k <= l /\ name[k] = q[k]
      <3>1. ~(n + 1 \in 1..k)
        BY <2>1, <2>2
      <3>2. k \in 1..n
        BY <1>2, <2>1, <3>1
      <3> QED BY <1>2, <2>1, <3>2
    <2>3. n \in {m, m - 2}
      BY <1>2, <2>1
    <2> QED BY <1>1, <1>4, <2>2, <2>3 DEF Fits
  <1> QED BY <1>5, <1>6 DEF c

(* The file's name without its ending is the component, or all of it but   *)
(* the last two characters.                                                *)
BaseOf(b, c) == b = c \/ (Len(c) >= 2 /\ b = SubSeq(c, 1, Len(c) - 2))

LEMMA FileFits ==
  ASSUME NEW b \in Seq(Nat), \A j \in 1..Len(b) : b[j] # Semicolon, NEW q \in Seq(Nat),
         NEW n \in 0..Len(q), Fits(FileName(b), q, n),
         NEW c \in Seq(Nat), Len(c) = n, \A k \in 1..n : c[k] = q[k]
  PROVE  BaseOf(b, c)
  <1>1. PICK l \in Nat : l = Len(q)
    BY LenProperties
  <1>2. PICK m \in Nat : m = Len(b)
    BY LenProperties
  <1> DEFINE name == FileName(b)
  <1>3. name \in Seq(Nat) /\ Len(name) = m + 2 /\ \A k \in 1..m : name[k] = b[k]
    BY <1>2, OfFileName
  <1>4. DOMAIN name = 1..(m + 2)
    BY <1>3, LenProperties
  <1>5. /\ n \in {m + 2, (m + 2) - 2}
        /\ \A k \in DOMAIN name :
             (\A j \in 1..k : name[j] # Semicolon) => k <= l /\ name[k] = q[k]
    BY <1>1, <1>3 DEF Fits
  <1> HIDE DEF name
  <1>6. ASSUME NEW k \in 1..m PROVE k <= l /\ b[k] = q[k]
    <2>1. k \in DOMAIN name /\ \A j \in 1..k : j \in 1..m
      BY <1>4, <1>6
    <2>2. \A j \in 1..k : name[j] # Semicolon
      BY <1>2, <1>3, <2>1
    <2> QED BY <1>3, <1>5, <2>1, <2>2
  <1>7. n \in Nat /\ n <= l
    BY <1>1
  <1>9. CASE n = m
    <2>1. \A k \in 1..Len(b) : b[k] = c[k]
      BY <1>2, <1>6, <1>9
    <2>2. Len(b) = Len(c)
      BY <1>2, <1>9
    <2>3. b = c
      BY <2>1, <2>2, SeqEqual
    <2> QED BY <2>3 DEF BaseOf
  <1>10. CASE n = m + 2
    <2> DEFINE a == SubSeq(c, 1, n - 2)
    <2>1. n - 2 = m /\ m <= n
      BY <1>7, <1>10
    <2>2. a \in Seq(Nat) /\ Len(a) = m /\ \A k \in 1..m : a[k] = c[k]
      <3>1. /\ a \in Seq(Nat) /\ Len(a) = m - 1 + 1
            /\ \A k \in 1..(m - 1 + 1) : a[k] = c[1 + k - 1]
        BY <2>1, Slice
      <3> QED BY <3>1
    <2> HIDE DEF a
    <2>3. ASSUME NEW k \in 1..Len(b) PROVE b[k] = a[k]
      <3>1. k \in 1..m /\ k \in 1..n
        BY <1>2, <1>7, <2>1, <2>3
      <3> QED BY <1>6, <2>2, <3>1
    <2>4. b = a
      BY <1>2, <2>2, <2>3, SeqEqual
    <2>5. Len(c) >= 2
      BY <1>10
    <2>6. Len(c) = n /\ BaseOf(b, c)
      BY <2>4, <2>5 DEF a, BaseOf
    <2> QED BY <2>6
  <1>11. (m + 2) - 2 = m
    BY <1>2
  <1> QED BY <1>5, <1>9, <1>10, <1>11

LEMMA DirectoryFits ==
  ASSUME NEW name \in Seq(Nat),
         \A j \in 1..Len(name) : name[j] # Slash /\ name[j] # Semicolon,
         NEW q \in Seq(Nat), NEW n, IsComponent(q, n), Fits(name, q, n)
  PROVE  name = SubSeq(q, 1, n)
  <1> DEFINE c == SubSeq(q, 1, n)
  <1>1. PICK l \in Nat : l = Len(q)
    BY LenProperties
  <1>2. PICK m \in Nat : m = Len(name) /\ DOMAIN name = 1..m
    BY LenProperties
  <1>3. n \in Nat /\ n <= l /\ (n = l \/ q[n + 1] = Slash)
    BY <1>1 DEF IsComponent
  <1>4. ASSUME NEW k \in 1..m PROVE k <= l /\ name[k] = q[k]
    <2>1. \A j \in 1..k : name[j] # Semicolon
      BY <1>2, <1>4
    <2> QED BY <1>1, <1>2, <1>4, <2>1 DEF Fits
  <1>5. n = m \/ n = m - 2
    BY <1>2 DEF Fits
  <1>6. n # m - 2
    <2> SUFFICES ASSUME n = m - 2 PROVE FALSE
      OBVIOUS
    <2>1. n + 1 \in 1..m
      BY <1>3
    <2>2. n + 1 <= l /\ name[n + 1] = q[n + 1] /\ name[n + 1] # Slash
      BY <1>2, <1>4, <2>1
    <2> QED BY <1>3, <2>2
  <1>7. c \in Seq(Nat) /\ Len(c) = n /\ \A k \in 1..n : c[k] = q[k]
    <2>1. /\ c \in Seq(Nat) /\ Len(c) = n - 1 + 1
          /\ \A k \in 1..(n - 1 + 1) : c[k] = q[1 + k - 1]
      BY <1>1, <1>3, Slice
    <2> QED BY <1>3, <2>1
  <1> HIDE DEF c
  <1>8. \A k \in 1..Len(name) : name[k] = c[k]
    BY <1>2, <1>4, <1>5, <1>6, <1>7
  <1>9. name = c
    BY <1>2, <1>5, <1>6, <1>7, <1>8, SeqEqual
  <1> QED BY <1>9 DEF c
-----------------------------------------------------------------------------
(* The scan on its path: after the cut Pos, in the directory there, with   *)
(* no record passed that has the name of the component or its file.        *)
Pos == Len(told) - Len(rest)

Scanning ==
  /\ told \in Seq(Nat) /\ rest \in Seq(Nat)
  /\ Pos \in Cuts(told)
  /\ \A k \in 1..Len(rest) : rest[k] = told[Pos + k]
  /\ dir \in DirsAt(disc, told, Pos)
  /\ \A k \in 1..(at - 1) :
       disc[dir][k].name \notin {Component(told, Pos), FileName(Component(told, Pos))}

Answered ==
  ~Misleading(disc, told) =>
    IF FilesAt(disc, told) = {} THEN entry = Bad
    ELSE \E r \in FilesAt(disc, told) : entry = [lba |-> r.lba, size |-> r.size]

ScanInv ==
  /\ pc = "scan" => Scanning
  /\ pc \in {"sectors", "done", "refused", "null"} => Answered

(* The component the scan looks for is the one after its cut. *)
LEMMA AtComponent ==
  ASSUME Scanning
  PROVE  /\ Pos \in Nat /\ Len(told) = Pos + Len(rest) /\ Len(rest) \in Nat
         /\ IsComponent(rest, PathLen)
         /\ CutAfter(told, Pos) = Pos + PathLen + 1
         /\ Component(told, Pos) = SubSeq(rest, 1, PathLen)
         /\ LastCut(told) = Pos <=> PathLen = Len(rest)
  <1>1. /\ told \in Seq(Nat) /\ rest \in Seq(Nat) /\ Pos \in Cuts(told)
        /\ \A k \in 1..Len(rest) : rest[k] = told[Pos + k]
    BY DEF Scanning
  <1>2. PICK m \in Nat : m = Len(told)
    BY <1>1, LenProperties
  <1>3. PICK l \in Nat : l = Len(rest)
    BY <1>1, LenProperties
  <1>4. PICK s \in Nat : s = Pos /\ s <= m
    BY <1>1, <1>2, CutsAreNat
  <1>5. m = s + l
    BY <1>2, <1>3, <1>4 DEF Pos
  <1> DEFINE e == CutAfter(told, s)
  <1>6. IsNextCut(told, s, e)
    BY <1>1, <1>2, <1>4, NextCutExists
  <1> HIDE DEF e
  <1>7. /\ e \in (s + 1)..(m + 1) /\ (e = m + 1 \/ told[e] = Slash)
        /\ \A k \in (s + 1)..(e - 1) : told[k] # Slash
    BY <1>2, <1>6 DEF IsNextCut
  <1>8. IsComponent(rest, e - s - 1)
    <2>1. e - s - 1 \in 0..l /\ (e - s - 1) + 1 = e - s /\ s + (e - s) = e
      BY <1>5, <1>7
    <2>2. e # m + 1 => e - s \in 1..l
      BY <1>5, <1>7
    <2>3. e = m + 1 => e - s - 1 = l
      BY <1>5, <1>7
    <2>4. e - s - 1 = l \/ rest[(e - s - 1) + 1] = Slash
      BY <1>1, <1>3, <1>4, <1>7, <2>1, <2>2, <2>3
    <2>5. ASSUME NEW k \in 1..(e - s - 1) PROVE rest[k] # Slash
      <3>1. k \in 1..l /\ s + k \in (s + 1)..(e - 1)
        BY <1>5, <1>7
      <3> QED BY <1>1, <1>3, <1>4, <1>7, <3>1
    <2> QED BY <1>3, <2>1, <2>4, <2>5 DEF IsComponent
  <1> DEFINE n == PathLen
  <1>9. IsComponent(rest, n)
    BY <1>8 DEF IsComponent, PathLen
  <1> HIDE DEF n
  <1>10. /\ n \in Nat /\ n <= l /\ (n = l \/ rest[n + 1] = Slash)
         /\ \A k \in 1..n : rest[k] # Slash
    BY <1>3, <1>9 DEF IsComponent
  <1>11. IsNextCut(told, s, s + n + 1)
    <2>1. s + n + 1 \in (s + 1)..(m + 1) /\ (n = l => s + n + 1 = m + 1)
      BY <1>5, <1>10
    <2>2. n # l => told[s + n + 1] = Slash
      <3> SUFFICES ASSUME n # l PROVE told[s + n + 1] = Slash
        OBVIOUS
      <3>1. n + 1 \in 1..l /\ s + (n + 1) = s + n + 1
        BY <1>10
      <3> QED BY <1>1, <1>3, <1>4, <1>10, <3>1
    <2>3. ASSUME NEW k \in (s + 1)..((s + n + 1) - 1) PROVE told[k] # Slash
      <3>1. k - s \in 1..n /\ k - s \in 1..l /\ s + (k - s) = k
        BY <1>10
      <3> QED BY <1>1, <1>3, <1>4, <1>10, <3>1
    <2> QED BY <1>2, <2>1, <2>2, <2>3 DEF IsNextCut
  <1>12. CutAfter(told, s) = s + n + 1
    BY <1>1, <1>2, <1>4, <1>11, NextCutUnique
  <1>13. Component(told, s) = SubSeq(rest, 1, n)
    <2> DEFINE a == SubSeq(told, s + 1, s + n)
               b == SubSeq(rest, 1, n)
    <2>1. a \in Seq(Nat) /\ Len(a) = n /\ \A k \in 1..n : a[k] = told[s + k]
      <3>1. /\ a \in Seq(Nat) /\ Len(a) = (s + n) - (s + 1) + 1
            /\ \A k \in 1..((s + n) - (s + 1) + 1) : a[k] = told[s + 1 + k - 1]
        <4>1. s + 1 \in Nat /\ s + n \in Nat /\ s + 1 <= (s + n) + 1 /\ s + 1 > 0 /\ s + n <= Len(told)
          BY <1>2, <1>5, <1>10
        <4> HIDE DEF a
        <4> QED BY <1>1, <4>1, Slice DEF a
      <3>2. (s + n) - (s + 1) + 1 = n
        BY <1>10
      <3>3. \A k \in 1..n : s + 1 + k - 1 = s + k
        OBVIOUS
      <3> HIDE DEF a
      <3> QED BY <3>1, <3>2, <3>3
    <2>2. b \in Seq(Nat) /\ Len(b) = n /\ \A k \in 1..n : b[k] = rest[k]
      <3>1. /\ b \in Seq(Nat) /\ Len(b) = n - 1 + 1
            /\ \A k \in 1..(n - 1 + 1) : b[k] = rest[1 + k - 1]
        BY <1>1, <1>3, <1>10, Slice
      <3> HIDE DEF b
      <3> QED BY <1>10, <3>1
    <2>3. Component(told, s) = a
      <3>1. CutAfter(told, s) - 1 = s + n
        BY <1>10, <1>12
      <3> QED BY <3>1, Zenon DEF Component
    <2> HIDE DEF a, b
    <2>4. ASSUME NEW k \in 1..n PROVE a[k] = b[k]
      <3>1. k \in 1..l
        BY <1>10
      <3> QED BY <1>1, <1>3, <1>4, <2>1, <2>2, <3>1
    <2>5. a = b
      BY <2>1, <2>2, <2>4, SeqEqual
    <2> QED BY <2>3, <2>5 DEF b
  <1>14. LastCut(told) = s <=> n = l
    <2>1. LastCut(told) = s <=> s + n + 1 = m + 1
      BY <1>1, <1>2, <1>4, <1>12, LastIs
    <2> QED BY <1>5, <1>10, <2>1
  <1> QED BY <1>2, <1>3, <1>4, <1>5, <1>9, <1>12, <1>13, <1>14 DEF n

(* The record the scan is at, and what it means that it matches. *)
LEMMA AtRecord ==
  ASSUME IsoInv, Scanning, pc = "scan", at <= Len(disc[dir]),
         NEW c, c = Component(told, Pos)
  PROVE  /\ Record \in InDir(disc, dir, Record.name)
         /\ Record.name \in {c, FileName(c)} => Matches
         /\ Matches /\ IsFile(Record) =>
              \/ Record.name = FileName(c)
              \/ Len(c) >= 2 /\ Record.name = FileName(SubSeq(c, 1, Len(c) - 2))
         /\ Matches /\ ~IsFile(Record) => Record.name = c
  <1>1. /\ IsDisc(disc) /\ dir \in DOMAIN disc /\ at \in 1..(Len(disc[dir]) + 1)
    BY Iso9660Assumption DEF IsoInv, OnDisc, Iso9660Assumption
  <1>2. disc[dir] \in Seq(Records)
    BY <1>1 DEF IsDisc, Records
  <1>3. at \in DOMAIN disc[dir]
    <2>1. Len(disc[dir]) \in Nat /\ DOMAIN disc[dir] = 1..Len(disc[dir])
      BY <1>2, LenProperties
    <2> QED BY <1>1, <2>1
  <1> DEFINE name == Record.name
  <1>4. Record = disc[dir][at] /\ IsRecord(disc, dir, at) /\ Record \in Records
    BY <1>1, <1>3, RecordOf DEF IsDisc, Record
  <1>5. /\ name \in Seq(Nat) /\ \A j \in DOMAIN name : name[j] # Slash
        /\ IsFile(Record) =>
             /\ name = FileName(SubSeq(name, 1, Len(name) - 2))
             /\ \A j \in DOMAIN SubSeq(name, 1, Len(name) - 2) :
                  SubSeq(name, 1, Len(name) - 2)[j] # Semicolon
        /\ ~IsFile(Record) => \A j \in DOMAIN name : name[j] # Semicolon
    BY <1>4 DEF IsRecord, Records, IsFile
  <1>6. DOMAIN name = 1..Len(name)
    BY <1>5, LenProperties
  <1>7. rest \in Seq(Nat) /\ IsComponent(rest, PathLen) /\ c = SubSeq(rest, 1, PathLen)
    BY AtComponent DEF Scanning
  <1>8. PathLen \in 0..Len(rest)
    BY <1>7 DEF IsComponent
  <1>9. Matches <=> Fits(name, rest, PathLen)
    BY DEF Matches, LengthFits, SamePath, Fits
  <1>10. Record \in InDir(disc, dir, name)
    BY <1>3, <1>4 DEF InDir
  <1> HIDE DEF name
  <1>11. name \in {c, FileName(c)} => Matches
    BY <1>5, <1>7, <1>8, <1>9, NameFits
  <1>12. ASSUME Matches, ~IsFile(Record) PROVE name = c
    BY <1>5, <1>6, <1>7, <1>9, <1>12, DirectoryFits
  <1>13. ASSUME Matches, IsFile(Record)
         PROVE  \/ name = FileName(c)
                \/ Len(c) >= 2 /\ name = FileName(SubSeq(c, 1, Len(c) - 2))
    <2> DEFINE b == SubSeq(name, 1, Len(name) - 2)
    <2>1. name = FileName(b) /\ \A j \in DOMAIN b : b[j] # Semicolon
      BY <1>5, <1>13
    <2>2. PICK n \in Nat : n = Len(name)
      BY <1>5, LenProperties
    <2>3. b \in Seq(Nat)
      <3>1. \A j \in 1..(n - 2) : name[j] \in Nat
        BY <1>5, <2>2, ElementOfSeq
      <3> QED BY <2>2, <3>1, SubSeqProperties
    <2> HIDE DEF b
    <2>4. \A j \in 1..Len(b) : b[j] # Semicolon
      BY <2>1, <2>3, LenProperties
    <2>5. Fits(FileName(b), rest, PathLen)
      BY <1>9, <1>13, <2>1
    <2>6. BaseOf(b, c)
      <3>1. PICK q \in Seq(Nat) : q = rest
        BY <1>7
      <3>2. PICK m \in 0..Len(q) : m = PathLen
        BY <1>8, <3>1
      <3>3. Fits(FileName(b), q, m) /\ c = SubSeq(q, 1, m)
        BY <1>7, <2>5, <3>1, <3>2
      <3>4. PICK l \in Nat : l = Len(q) /\ m \in Nat /\ m <= l
        BY LenProperties
      <3>5. c \in Seq(Nat) /\ Len(c) = m /\ \A k \in 1..m : c[k] = q[k]
        <4>1. /\ SubSeq(q, 1, m) \in Seq(Nat) /\ Len(SubSeq(q, 1, m)) = m - 1 + 1
              /\ \A k \in 1..(m - 1 + 1) : SubSeq(q, 1, m)[k] = q[1 + k - 1]
          BY <3>4, Slice
        <4> QED BY <3>3, <3>4, <4>1
      <3> QED BY <2>3, <2>4, <3>3, <3>5, FileFits
    <2> QED BY <2>1, <2>6 DEF BaseOf
  <1> QED BY <1>10, <1>11, <1>12, <1>13 DEF name

-----------------------------------------------------------------------------
LEMMA ReadFileScans ==
  ASSUME IsoInv, NEW p \in Paths, ReadFile(p)
  PROVE  ScanInv'
  <1>1. CASE pc' \in {"wild", "halted"}
    BY <1>1 DEF ScanInv
  <1>2. CASE pc' \notin {"wild", "halted"}
    <2>1. pc' = "scan" /\ told' = p /\ rest' = p /\ dir' = RootLba /\ at' = 1 /\ disc' = disc
      BY <1>2 DEF Halt, ReadFile, Enter, fs, IsoInv, OnDisc
    <2>2. p \in Seq(Nat) /\ IsDisc(disc)
      BY Iso9660Assumption DEF Iso9660Assumption, IsPath, IsoInv, OnDisc
    <2>3. Len(p) \in Nat /\ Len(p) - Len(p) = 0
      BY <2>2, LenProperties
    <2>4. Pos' = 0
      BY <2>1, <2>3 DEF Pos
    <2>5. \A k \in 1..Len(p) : p[k] = p[0 + k]
      BY <2>3
    <2>6. RootLba \in DirsAt(disc, p, 0)
      <3> DEFINE f == [t \in Cuts(p) \cap (0..0) |-> RootLba]
      <3>1. Cuts(p) \cap (0..0) = {0}
        BY DEF Cuts
      <3>2. f \in [Cuts(p) \cap (0..0) -> DOMAIN disc] /\ f[0] = RootLba /\ DOMAIN f = {0}
        BY <2>2, <3>1 DEF IsDisc
      <3> HIDE DEF f
      <3>3. f \in Chains(disc, p, 0)
        BY <3>2 DEF Chains
      <3> QED BY <3>2, <3>3 DEF DirsAt
    <2>7. 0 \in Cuts(p)
      BY DEF Cuts
    <2>8. Scanning'
      BY <2>1, <2>2, <2>4, <2>5, <2>6, <2>7 DEF Scanning
    <2> QED BY <2>1, <2>8 DEF ScanInv
  <1> QED BY <1>1, <1>2

LEMMA SkipScans ==
  ASSUME IsoInv, Scanning, Skip
  PROVE  ScanInv'
  <1>1. /\ pc = "scan" /\ at <= Len(disc[dir]) /\ ~Matches /\ at' = at + 1 /\ pc' = pc
        /\ UNCHANGED <<disc, told, rest, dir>>
    BY DEF Skip, NextRecord, fs, past
  <1>2. Pos' = Pos
    BY <1>1 DEF Pos
  <1> DEFINE c == Component(told, Pos)
  <1>3. Record.name \notin {c, FileName(c)}
    BY <1>1, AtRecord
  <1>4. at \in Int
    BY <1>1 DEF IsoInv, OnDisc
  <1>5. ASSUME NEW k \in 1..(at' - 1) PROVE disc[dir][k].name \notin {c, FileName(c)}
    <2>1. k \in 1..(at - 1) \/ k = at
      BY <1>1, <1>4
    <2> QED BY <1>3, <2>1 DEF Scanning, Record
  <1> HIDE DEF c
  <1>6. /\ told' \in Seq(Nat) /\ rest' \in Seq(Nat) /\ Pos' \in Cuts(told')
        /\ \A k \in 1..Len(rest') : rest'[k] = told'[Pos' + k]
        /\ dir' \in DirsAt(disc', told', Pos')
    BY <1>1, <1>2 DEF Scanning
  <1>7. \A k \in 1..(at' - 1) :
          disc'[dir'][k].name \notin {Component(told', Pos'), FileName(Component(told', Pos'))}
    BY <1>1, <1>2, <1>5 DEF c
  <1> QED BY <1>1, <1>6, <1>7 DEF ScanInv, Scanning

LEMMA HitAnswers ==
  ASSUME IsoInv, Scanning, Hit \/ HitRefused
  PROVE  ScanInv'
  <1>1. /\ pc = "scan" /\ at <= Len(disc[dir]) /\ Matches /\ IsFile(Record)
        /\ entry' = [lba |-> Record.lba, size |-> Record.size]
        /\ pc' \in {"sectors", "refused"} /\ UNCHANGED <<disc, told>>
    BY DEF Hit, HitRefused, fs, past
  <1> DEFINE c == Component(told, Pos)
             r == Record
  <1>2. /\ Pos \in Cuts(told) /\ dir \in DirsAt(disc, told, Pos) /\ r \in InDir(disc, dir, r.name)
        /\ \/ r.name = FileName(c)
           \/ Len(c) >= 2 /\ r.name = FileName(SubSeq(c, 1, Len(c) - 2))
    BY <1>1, AtRecord DEF Scanning
  <1> HIDE DEF c, r
  <1> SUFFICES ASSUME ~Misleading(disc, told) PROVE r \in FilesAt(disc, told)
    BY <1>1 DEF ScanInv, Answered, r
  <1>3. ~Misleads(disc, told, Pos)
    BY <1>2 DEF Misleading
  <1>4. r.name = FileName(c)
    BY <1>2, <1>3 DEF Misleads, c
  <1>5. Pos = LastCut(told)
    BY <1>2, <1>3, <1>4 DEF Misleads, c
  <1> QED BY <1>2, <1>4, <1>5 DEF FilesAt, c

LEMMA MissAnswers ==
  ASSUME IsoInv, Scanning, Miss
  PROVE  ScanInv'
  <1>1. /\ pc = "scan" /\ at > Len(disc[dir]) /\ entry' = Bad /\ pc' = "done"
        /\ UNCHANGED <<disc, told>>
    BY DEF Miss, fs, scan, past
  <1>2. IsDisc(disc) /\ dir \in DOMAIN disc /\ at \in 1..(Len(disc[dir]) + 1)
    BY <1>1, Iso9660Assumption DEF IsoInv, OnDisc, Iso9660Assumption
  <1> DEFINE c == Component(told, Pos)
             l == LastCut(told)
  <1>3. /\ told \in Seq(Nat) /\ Pos \in Cuts(told) /\ dir \in DirsAt(disc, told, Pos)
        /\ \A k \in 1..(at - 1) : disc[dir][k].name \notin {c, FileName(c)}
    BY DEF Scanning
  <1> HIDE DEF c
  <1>4. InDir(disc, dir, c) = {} /\ InDir(disc, dir, FileName(c)) = {}
    <2>1. disc[dir] \in Seq(Records)
      BY <1>2 DEF IsDisc, Records
    <2>2. PICK n \in Nat : n = Len(disc[dir]) /\ DOMAIN disc[dir] = 1..n
      BY <2>1, LenProperties
    <2>3. \A k \in DOMAIN disc[dir] : k \in 1..(at - 1)
      BY <1>1, <1>2, <2>2
    <2> QED BY <1>3, <2>3 DEF InDir
  <1>5. FilesAt(disc, told) = {}
    <2>1. CASE l = Pos
      <3>1. \A lba \in DirsAt(disc, told, Pos) : lba = dir
        BY <1>2, <1>3, OneDir
      <3>2. \A lba \in DirsAt(disc, told, l) : InDir(disc, lba, FileName(Component(told, l))) = {}
        BY <1>4, <2>1, <3>1 DEF c
      <3> QED BY <3>2 DEF FilesAt
    <2>2. CASE l # Pos
      <3>1. l \in Cuts(told) /\ Pos <= l /\ Pos \in Nat /\ l \in Nat
        BY <1>3, LastIs, CutsAreNat
      <3>2. Pos < l
        BY <2>2, <3>1
      <3> HIDE DEF l
      <3>3. ASSUME NEW f \in Chains(disc, told, l) PROVE FALSE
        <4>1. f[Pos] \in DirsAt(disc, told, Pos) /\ InDir(disc, f[Pos], c) # {}
          BY <1>3, <3>1, <3>2, ChainThrough DEF c
        <4>2. f[Pos] = dir
          BY <1>2, <1>3, <4>1, OneDir
        <4> QED BY <1>4, <4>1, <4>2
      <3>4. DirsAt(disc, told, l) = {}
        BY <3>3 DEF DirsAt
      <3> QED BY <3>4 DEF FilesAt, l
    <2> QED BY <2>1, <2>2
  <1> QED BY <1>1, <1>5 DEF ScanInv, Answered

(* A directory that is read takes the scan to the next cut; one that is not*)
(* leaves it where it was, on a path without it.                           *)
LEMMA DescendScans ==
  ASSUME IsoInv, Scanning, Descend
  PROVE  ScanInv'
  <1>1. CASE pc' \in {"wild", "halted"}
    BY <1>1 DEF ScanInv
  <1> DEFINE n == PathLen
             s == Pos
             l == Len(rest)
             c == Component(told, Pos)
             below == SubSeq(rest, n + 2, l)
  <1>2. CASE pc' \notin {"wild", "halted"}
    <2>1. /\ pc = "scan" /\ at <= Len(disc[dir]) /\ Matches /\ ~IsFile(Record) /\ n < l
          /\ pc' = "scan" /\ rest' = below /\ at' = 1 /\ disc' = disc
          /\ \/ dir' = Record.lba /\ told' = told
             \/ dir' = dir /\ told' = SubSeq(told, 1, Len(told) - l) \o below
      BY <1>2 DEF Descend, Enter, Halt, fs
    <2>2. /\ told \in Seq(Nat) /\ rest \in Seq(Nat) /\ s \in Cuts(told)
          /\ \A k \in 1..l : rest[k] = told[s + k]
          /\ dir \in DirsAt(disc, told, s)
      BY DEF Scanning
    <2>3. /\ s \in Nat /\ Len(told) = s + l /\ l \in Nat /\ IsComponent(rest, n)
          /\ CutAfter(told, s) = s + n + 1 /\ (LastCut(told) = s <=> n = l)
      BY AtComponent
    <2>4. Record \in InDir(disc, dir, c) /\ Record.lba \in DOMAIN disc
      BY <2>1, AtRecord, RecordOf
    <2>5. n \in Nat /\ rest[n + 1] = Slash
      BY <2>1, <2>3 DEF IsComponent
    <2>6. /\ below \in Seq(Nat) /\ Len(below) = l - n - 1
          /\ \A k \in 1..(l - n - 1) : below[k] = rest[n + 1 + k]
      <3>1. /\ below \in Seq(Nat) /\ Len(below) = l - (n + 2) + 1
            /\ \A k \in 1..(l - (n + 2) + 1) : below[k] = rest[n + 2 + k - 1]
        <4>1. n + 2 \in Nat /\ n + 2 <= l + 1 /\ n + 2 > 0 /\ l \in Nat
          BY <2>1, <2>3, <2>5
        <4>2. rest \in Seq(Nat) /\ l <= Len(rest)
          BY <2>2, <4>1 DEF l
        <4> QED BY ONLY <4>1, <4>2, Slice DEF below
      <3>2. l - (n + 2) + 1 = l - n - 1 /\ \A k \in 1..(l - n - 1) : n + 2 + k - 1 = n + 1 + k
        BY <2>3, <2>5
      <3> HIDE DEF below
      <3> QED BY <3>1, <3>2
    <2> HIDE DEF n, s, l, c, below
    <2>7. CASE dir' = Record.lba /\ told' = told
      <3> DEFINE e == s + n + 1
      <3>1. Pos' = e
        <4>1. Pos' = Len(told) - Len(below)
          BY <2>1, <2>7 DEF Pos
        <4> QED BY <2>3, <2>5, <2>6, <4>1
      <3>2. e \in 1..Len(told) /\ told[e] = Slash /\ s < e /\ n + 1 \in 1..l /\ s + (n + 1) = e
        <4>1. n + 1 \in 1..l /\ s + (n + 1) = e /\ e \in 1..Len(told) /\ s < e
          BY <2>1, <2>3, <2>5
        <4> QED BY <2>2, <2>5, <4>1
      <3>3. e \in Cuts(told)
        BY <2>2, <3>2, SlashIsCut
      <3>4. Record.lba \in DirsAt(disc, told, e)
        BY <2>1, <2>2, <2>3, <2>4, <3>2, <3>3, ChainExtends DEF c, s
      <3>5. ASSUME NEW k \in 1..Len(below) PROVE below[k] = told[e + k]
        <4>1. k \in 1..(l - n - 1) /\ n + 1 + k \in 1..l /\ s + (n + 1 + k) = e + k
          BY <2>3, <2>5, <2>6
        <4> QED BY <2>2, <2>6, <4>1
      <3> HIDE DEF e
      <3>6. Scanning'
        BY <2>1, <2>2, <2>6, <2>7, <3>1, <3>3, <3>4, <3>5 DEF Scanning
      <3> QED BY <2>1, <3>6 DEF ScanInv
    <2>8. CASE dir' = dir /\ told' = SubSeq(told, 1, Len(told) - l) \o below
      <3> DEFINE a == SubSeq(told, 1, s)
                 q == a \o below
      <3>1. Len(told) - l = s
        BY <2>3
      <3>2. told' = q
        BY <2>8, <3>1
      <3>3. a \in Seq(Nat) /\ Len(a) = s /\ \A k \in 1..s : a[k] = told[k]
        <4>1. /\ a \in Seq(Nat) /\ Len(a) = s - 1 + 1
              /\ \A k \in 1..(s - 1 + 1) : a[k] = told[1 + k - 1]
          BY <2>2, <2>3, Slice
        <4> HIDE DEF a
        <4> QED BY <2>3, <4>1
      <3> HIDE DEF a
      <3>4. /\ q \in Seq(Nat) /\ Len(q) = s + (l - n - 1)
            /\ \A k \in 1..(s + (l - n - 1)) : q[k] = IF k <= s THEN a[k] ELSE below[k - s]
        <4>1. /\ q \in Seq(Nat) /\ Len(q) = Len(a) + Len(below)
              /\ \A k \in 1..Len(a) + Len(below) :
                   q[k] = IF k <= Len(a) THEN a[k] ELSE below[k - Len(a)]
          BY <2>6, <3>3, ConcatProperties
        <4> QED BY <2>6, <3>3, <4>1
      <3> HIDE DEF q
      <3>5. l - n - 1 \in Nat
        BY <2>1, <2>3, <2>5
      <3>6. \A k \in 1..s : q[k] = told[k]
        BY <2>3, <3>3, <3>4, <3>5
      <3>7. \A k \in 1..Len(below) : below[k] = q[s + k]
        <4> SUFFICES ASSUME NEW k \in 1..Len(below) PROVE below[k] = q[s + k]
          OBVIOUS
        <4>1. k \in Nat /\ s + k \in 1..(s + (l - n - 1)) /\ ~(s + k <= s) /\ (s + k) - s = k
          BY <2>3, <2>6, <3>5
        <4> QED BY <3>4, <4>1
      <3>8. Pos' = s
        <4>1. Pos' = Len(q) - Len(below)
          BY <2>1, <3>2 DEF Pos
        <4> QED BY <2>3, <2>6, <3>4, <3>5, <4>1
      <3>9. s \in Cuts(q)
        <4>1. CASE s = 0
          BY <4>1 DEF Cuts
        <4>2. CASE s # 0
          <5>1. s \in 1..Len(q) /\ told[s] = Slash /\ s \in 1..s
            BY <2>2, <2>3, <3>4, <3>5, <4>2, CutsAreNat
          <5> QED BY <3>4, <3>6, <5>1, SlashIsCut
        <4> QED BY <4>1, <4>2
      <3>10. dir \in DirsAt(disc, q, s)
        <4>1. DirsAt(disc, told, s) \subseteq DirsAt(disc, q, s)
          BY <2>2, <3>4, <3>6, <3>9, SameChains
        <4> QED BY <2>2, <4>1
      <3>11. /\ told' = q /\ rest' = below /\ at' = 1 /\ disc' = disc /\ dir' = dir
        BY <2>1, <2>8, <3>2
      <3>12. \A k \in 1..(1 - 1) : FALSE
        OBVIOUS
      <3>13. Scanning'
        BY <2>6, <3>4, <3>7, <3>8, <3>9, <3>10, <3>11, <3>12 DEF Scanning
      <3> QED BY <2>1, <3>13 DEF ScanInv
    <2> QED BY <2>1, <2>7, <2>8 DEF l
  <1> QED BY <1>1, <1>2

LEMMA ScanInvNext == IsoInv /\ ScanInv /\ [Next]_vars => ScanInv'
  <1> SUFFICES ASSUME IsoInv, ScanInv, [Next]_vars PROVE ScanInv'
    OBVIOUS
  <1>1. CASE UNCHANGED vars
    BY <1>1 DEF vars, fs, scan, file, past, ScanInv, Scanning, Pos, Answered
  <1>2. CASE InstCreate \/ InstCreateOfNoDisc
    BY <1>2 DEF InstCreate, InstCreateOfNoDisc, ScanInv
  <1>3. CASE \E p \in Paths : ReadFile(p)
    BY <1>3, ReadFileScans
  <1>4. ASSUME pc = "scan" PROVE Scanning
    BY <1>4 DEF ScanInv
  <1>5. CASE Skip
    BY <1>4, <1>5, SkipScans DEF Skip
  <1>6. CASE Miss
    BY <1>4, <1>6, MissAnswers DEF Miss
  <1>7. CASE Hit \/ HitRefused
    BY <1>4, <1>7, HitAnswers DEF Hit, HitRefused
  <1>8. CASE Descend
    BY <1>4, <1>8, DescendScans DEF Descend
  <1>9. CASE DescendPastEnd
    BY <1>9 DEF DescendPastEnd, ScanInv
  <1>10. CASE Sector \/ Return
    <2>1. /\ pc = "sectors" /\ pc' \in {"sectors", "done"} /\ UNCHANGED <<disc, told, entry>>
      BY <1>10 DEF Sector, Return, fs, scan, file, past
    <2>2. Answered'
      BY <2>1 DEF ScanInv, Answered
    <2> QED BY <2>1, <2>2 DEF ScanInv
  <1>11. CASE SectorRefused \/ ReturnNull
    <2>1. /\ pc = "refused" /\ pc' \in {"refused", "null", "halted"} /\ UNCHANGED <<disc, told, entry>>
      BY <1>11 DEF SectorRefused, ReturnNull, fs, scan, file, past
    <2>2. Answered'
      BY <2>1 DEF ScanInv, Answered
    <2> QED BY <2>1, <2>2 DEF ScanInv
  <1> QED BY <1>1, <1>2, <1>3, <1>5, <1>6, <1>7, <1>8, <1>9, <1>10, <1>11 DEF Next

(* Where a scan is on its path, whatever it has found and could not read:  *)
(* in the directory that the components behind it name, past records with  *)
(* other names than it looks for (iso9660.c:30-86).                        *)
THEOREM ScanInvariant == Spec => []ScanInv
  <1>1. Init => ScanInv
    BY DEF Init, ScanInv
  <1> QED BY <1>1, IsoInvariant, ScanInvNext, PTL DEF Spec

(* A path that does not mislead the scan by the lengths of its components  *)
(* is resolved to the file it names, or to none exactly when there is none;*)
(* a directory that could not be read is left out of it (iso9660.c:23-92). *)
THEOREM PathResolved == Spec => []Resolves
  <1>1. ScanInv => Resolves
    BY DEF ScanInv, Answered, Resolves
  <1> QED BY <1>1, ScanInvariant, PTL
=============================================================================
