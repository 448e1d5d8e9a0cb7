------------------------------- MODULE MCIso9660 -------------------------------
(* Instances for TLC: discs of up to three levels over the names a, b.     *)
EXTENDS Iso9660, TLC

a == 97
b0 == 98

Text == UNION {[1..n -> {a, b0, Slash}] : n \in 0..5}

MCPaths == {p \in Text : p # <<>>}

Self(lba) == [name |-> <<0>>, lba |-> lba, size |-> 4]
Up(lba) == [name |-> <<1>>, lba |-> lba, size |-> 4]
Folder(name, lba) == [name |-> name, lba |-> lba, size |-> 4]
File(name, lba, size) == [name |-> FileName(name), lba |-> lba, size |-> size]

Deep ==
  20 :> <<Self(20), Up(20), Folder(<<a>>, 21), File(<<a, b0>>, 30, 0), File(<<b0>>, 30, 3)>>
  @@ 21 :> <<Self(21), Up(20), Folder(<<a>>, 22), File(<<b0, a>>, 31, 4), Folder(<<b0, b0>>, 23)>>
  @@ 22 :> <<Self(22), Up(21), File(<<a>>, 33, 9), File(<<b0>>, 36, 1)>>
  @@ 23 :> <<Self(23), Up(21), File(<<b0, a>>, 37, 5)>>

Flat ==
  20 :> <<Self(20), Up(20), File(<<a>>, 30, 8), File(<<a, b0, b0>>, 32, 2), File(<<b0, b0>>, 33, 7)>>

MCDiscs == {Deep, Flat}
=============================================================================
