---------------------------- MODULE InterruptsProofs ----------------------------
(***************************************************************************)
(* Theorems about interrupts, for any set of lines, any number of requests *)
(* and handlers nested to any depth.                                       *)
(***************************************************************************)
EXTENDS Interrupts, SequenceTheorems, FiniteSetTheorems, TLAPS

Activation == [line : Lines, at : 1..8]

(* Where the handler of a line ends the service of its master bit, and of  *)
(* the line itself if it is one of the slave; iret follows the former.     *)
MasterAt(l) == IF l = 1 THEN 7 ELSE IF l = 15 THEN 4 ELSE IF l >= 8 THEN 2 ELSE 1
SlaveAt(l) == IF l = 15 THEN 3 ELSE 1

(* The activation has not sent the EOI that ends the service of its bit of *)
(* the master, or of the slave.                                            *)
OwesMaster(f) == f.at <= MasterAt(f.line)
OwesSlave(f) == f.line >= 8 /\ f.at <= SlaveAt(f.line)

(* An activation within which interrupts are on: after the sti of one of   *)
(* the three allocations of line 1, or after the sti of line 15.           *)
Interruptible(f) ==
  \/ f.line = 1 /\ f.at \in {3, 5, 7, 8}
  \/ f.line = 15 /\ f.at \in {3, 4, 5}

(* Every activation but the last is where an interrupt was let in, the     *)
(* last one too when the flag is set, and an allocation of the thread is   *)
(* never interrupted.                                                      *)
Stacked ==
  /\ \A i \in DOMAIN frames : frames[i].at <= MasterAt(frames[i].line) + 1
  /\ \A i \in DOMAIN frames : i < Len(frames) => Interruptible(frames[i])
  /\ ifl /\ frames # <<>> => Interruptible(Top)
  /\ thread = "alloc" => frames = <<>> /\ ~ifl

(* An activation that owes the master its EOI is interrupted by lines of a *)
(* higher priority only.                                                   *)
Nested ==
  \A i, j \in DOMAIN frames :
    i < j /\ OwesMaster(frames[i]) =>
      MasterBit(frames[j].line) < MasterBit(frames[i].line)

(* A bit is in service if and only if an activation owes the EOI for it.   *)
Owed ==
  /\ \A b \in 0..7 : b \in isr <=>
       \E i \in DOMAIN frames :
         OwesMaster(frames[i]) /\ MasterBit(frames[i].line) = b
  /\ \A b \in 8..15 : b \in isr <=>
       \E i \in DOMAIN frames : OwesSlave(frames[i]) /\ frames[i].line = b

(* The inductive invariant. *)
InterruptsInv == TypeOK /\ Stacked /\ Nested /\ Owed /\ ThreadInterruptible

-----------------------------------------------------------------------------
(* The operations of the handlers, by line and position. *)
LEMMA HandlerTable ==
  ASSUME NEW f \in Activation
  PROVE  LET l == f.line  n == f.at IN
         /\ l \in (0..15) \ {2} /\ n \in 1..8
         /\ Len(Handler(l)) = MasterAt(l) + 1
         /\ n <= MasterAt(l) + 1 =>
              /\ Before(f, "eoi_master") <=> OwesMaster(f)
              /\ Before(f, "eoi_slave") <=> OwesSlave(f)
              /\ Op(f) = "iret" <=> n = MasterAt(l) + 1
              /\ Op(f) = "eoi_master" <=> n = MasterAt(l)
              /\ Op(f) = "eoi_slave" <=> l >= 8 /\ n = SlaveAt(l)
              /\ Op(f) \in {"enter", "cli"} <=> (l = 1 /\ n \in {1, 3, 5}) \/ (l = 15 /\ n = 1)
              /\ Op(f) \in {"leave", "sti"} <=> (l = 1 /\ n \in {2, 4, 6}) \/ (l = 15 /\ n = 2)
              /\ Op(f) = "leave" <=> l = 1 /\ n \in {2, 4, 6}
  <1>1. f.line \in (0..15) \ {2} /\ f.at \in 1..8
    BY LinesAssumption DEF LinesAssumption, Activation
  <1> USE DEF Before, Op, MasterAt, SlaveAt, OwesMaster, OwesSlave
  <1>2. CASE f.line = 1
    <2>1. Handler(f.line) = KeyboardHandler
      BY <1>2 DEF Handler
    <2>2. \A k \in 1..8 : KeyboardHandler[k] =
            CASE k \in {1, 3, 5} -> "enter" [] k \in {2, 4, 6} -> "leave"
              [] k = 7 -> "eoi_master" [] OTHER -> "iret"
      BY DEF KeyboardHandler
    <2>3. Len(KeyboardHandler) = 8
      BY DEF KeyboardHandler
    <2> QED BY <1>1, <1>2, <2>1, <2>2, <2>3
  <1>3. CASE f.line = 15
    <2>1. Handler(f.line) = AtaSecondary
      BY <1>1, <1>3 DEF Handler
    <2> QED BY <1>1, <1>3, <2>1 DEF AtaSecondary
  <1>4. CASE f.line \in 8..14
    <2>1. Handler(f.line) = SlaveHandler
      BY <1>4 DEF Handler
    <2> QED BY <1>1, <1>4, <2>1 DEF SlaveHandler
  <1>5. CASE f.line \in {0, 3, 4, 5, 6, 7}
    <2>1. Handler(f.line) = MasterHandler
      BY <1>5 DEF Handler
    <2> QED BY <1>1, <1>5, <2>1 DEF MasterHandler
  <1> QED BY <1>1, <1>2, <1>3, <1>4, <1>5

(* The stack of activations is a sequence. *)
LEMMA Stack ==
  ASSUME TypeOK
  PROVE  /\ frames \in Seq(Activation)
         /\ Len(frames) \in Nat /\ DOMAIN frames = 1..Len(frames)
         /\ \A i \in DOMAIN frames : /\ frames[i] \in Activation
                                     /\ frames[i].line \in Lines /\ frames[i].at \in 1..8
         /\ frames # <<>> => Len(frames) \in DOMAIN frames /\ Top = frames[Len(frames)]
         /\ frames = <<>> => Len(frames) = 0
  <1>1. frames \in Seq(Activation)
    BY DEF TypeOK, Activation
  <1>2. Len(frames) \in Nat /\ DOMAIN frames = 1..Len(frames)
    BY <1>1, LenProperties
  <1>3. \A i \in DOMAIN frames : frames[i] \in Activation
    BY <1>1, <1>2, ElementOfSeq
  <1>4. frames # <<>> => Len(frames) # 0
    BY <1>1, EmptySeq
  <1> QED BY <1>1, <1>2, <1>3, <1>4 DEF Top, Activation

(* The bits of a line. *)
LEMMA LineBits ==
  ASSUME NEW l \in Lines
  PROVE  /\ l \in (0..15) \ {2} /\ MasterBit(l) \in 0..7
         /\ Bits(l) \subseteq Lines \cup {Cascade}
         /\ \A b \in 0..7 : b \in Bits(l) <=> b = MasterBit(l)
         /\ \A b \in 8..15 : b \in Bits(l) <=> b = l
  BY LinesAssumption DEF LinesAssumption, MasterBit, Bits, Cascade

(* A handler that goes on changes its own position. *)
LEMMA Advanced ==
  ASSUME TypeOK, frames # <<>>, Top.at < 8, Advance
  PROVE  /\ frames' \in Seq(Activation) /\ frames' # <<>>
         /\ Len(frames') = Len(frames) /\ DOMAIN frames' = DOMAIN frames
         /\ \A i \in DOMAIN frames : i # Len(frames) => frames'[i] = frames[i]
         /\ Top' = frames'[Len(frames)] /\ Top'.line = Top.line /\ Top'.at = Top.at + 1
  <1> DEFINE n == Len(frames)
             f == [line |-> Top.line, at |-> Top.at + 1]
  <1>1. n \in DOMAIN frames /\ Top \in Activation /\ n \in 1..n /\ frames \in Seq(Activation)
    BY Stack
  <1>2. f \in Activation
    BY <1>1 DEF Activation
  <1>3. frames' = [frames EXCEPT ![n] = f]
    <2>1. [Top EXCEPT !.at = Top.at + 1] = f
      BY <1>1 DEF Activation
    <2> QED BY <2>1, <1>1 DEF Advance, Top
  <1>4. /\ frames' \in Seq(Activation) /\ Len(frames') = n
        /\ \A i \in 1..n : frames'[i] = IF i = n THEN f ELSE frames[i]
    BY <1>1, <1>2, <1>3, ExceptSeq
  <1>5. DOMAIN frames' = DOMAIN frames
    BY <1>3
  <1>6. frames' # <<>>
    BY <1>1, <1>5
  <1>7. Top' = f /\ Top' = frames'[n]
    BY <1>1, <1>4 DEF Top
  <1>8. f.line = Top.line /\ f.at = Top.at + 1
    OBVIOUS
  <1>9. \A i \in DOMAIN frames : i # n => frames'[i] = frames[i]
    BY <1>1, <1>4, Stack
  <1> HIDE DEF f
  <1> QED BY <1>4, <1>5, <1>6, <1>7, <1>8, <1>9

(* The activation that returns is removed, the others stay. *)
LEMMA Returned ==
  ASSUME TypeOK, frames # <<>>, frames' = SubSeq(frames, 1, Len(frames) - 1)
  PROVE  /\ frames' \in Seq(Activation) /\ Len(frames') = Len(frames) - 1
         /\ DOMAIN frames' = 1..(Len(frames) - 1)
         /\ \A i \in 1..(Len(frames) - 1) : frames'[i] = frames[i]
         /\ frames' # <<>> => Len(frames) - 1 \in DOMAIN frames'
  <1> DEFINE n == Len(frames)
  <1>1. n \in Nat /\ n \in DOMAIN frames /\ DOMAIN frames = 1..n
        /\ \A i \in DOMAIN frames : frames[i] \in Activation
    BY Stack
  <1>2. /\ frames' \in Seq(Activation)
        /\ Len(frames') = IF 1 <= n - 1 THEN n - 1 - 1 + 1 ELSE 0
        /\ \A i \in 1..(n - 1 - 1 + 1) : frames'[i] = frames[1 + i - 1]
    <2>1. \A i \in 1..(n - 1) : frames[i] \in Activation
      BY <1>1
    <2>2. 1 \in Int /\ n - 1 \in Int
      BY <1>1
    <2> HIDE DEF n
    <2> QED BY <2>1, <2>2, SubSeqProperties DEF n
  <1>3. Len(frames') = n - 1 /\ \A i \in 1..(n - 1) : frames'[i] = frames[i]
    BY <1>1, <1>2
  <1>4. DOMAIN frames' = 1..(n - 1)
    BY <1>2, <1>3, LenProperties
  <1>5. frames' # <<>> => Len(frames') # 0
    BY <1>2, EmptySeq
  <1> QED BY <1>1, <1>2, <1>3, <1>4, <1>5

-----------------------------------------------------------------------------
(* The inductive invariant holds at the start. *)
LEMMA InterruptsInit == Init => InterruptsInv
  <1> SUFFICES ASSUME Init PROVE InterruptsInv
    OBVIOUS
  <1>1. frames = <<>> /\ DOMAIN frames = {} /\ frames \in Seq(Activation)
    BY EmptySeq DEF Init
  <1>2. TypeOK
    BY <1>1, BoundsAssumption DEF Init, TypeOK, Activation, BoundsAssumption
  <1>3. Stacked /\ Nested /\ Owed /\ ThreadInterruptible
    BY <1>1 DEF Init, Stacked, Nested, Owed, ThreadInterruptible
  <1> QED BY <1>2, <1>3 DEF InterruptsInv

(* An interrupt is taken when the flag lets it, and by the controllers'    *)
(* priorities: it ranks above all that is owed.                            *)
LEMMA EnterKeeps ==
  ASSUME InterruptsInv, NEW l \in Lines, Enter(l)
  PROVE  InterruptsInv'
  <1> DEFINE n == Len(frames)
             f == [line |-> l, at |-> 1]
  <1> USE DEF Enter
  <1>1. TypeOK /\ Stacked /\ Nested /\ Owed
    BY DEF InterruptsInv
  <1>2. /\ n \in Nat /\ DOMAIN frames = 1..n /\ frames \in Seq(Activation)
        /\ \A i \in 1..n : frames[i] \in Activation /\ frames[i].line \in Lines /\ frames[i].at \in 1..8
    BY <1>1, Stack
  <1>3. f \in Activation /\ f.line = l /\ f.at = 1
    BY DEF Activation
  <1>4. /\ frames' \in Seq(Activation) /\ Len(frames') = n + 1 /\ DOMAIN frames' = 1..(n + 1)
        /\ \A i \in 1..n : frames'[i] = frames[i]
        /\ frames'[n + 1] = f /\ frames' # <<>>
    <2>1. /\ frames' \in Seq(Activation) /\ Len(frames') = n + 1 
          /\ \A i \in 1..n : frames'[i] = frames[i]
          /\ frames'[n + 1] = f
      BY <1>2, <1>3, AppendProperties
    <2>2. DOMAIN frames' = 1..(n + 1)
      BY <2>1, LenProperties
    <2> QED BY <2>1, <2>2, <1>2
  <1>5. TypeOK'
    BY <1>1, <1>4, LineBits DEF TypeOK, Activation
  <1>6. Stacked'
    <2>1. \A i \in 1..n : Interruptible(frames[i])
      BY <1>1, <1>2 DEF Stacked, Top
    <2>2. thread # "alloc"
      BY <1>1 DEF Stacked
    <2>3. \A i \in 1..(n + 1) : frames'[i].at <= MasterAt(frames'[i].line) + 1
      BY <1>1, <1>2, <1>3, <1>4 DEF Stacked, MasterAt
    <2>4. \A i \in 1..(n + 1) : i < n + 1 => Interruptible(frames'[i])
      BY <1>2, <1>4, <2>1
    <2> QED BY <1>1, <1>4, <2>2, <2>3, <2>4 DEF Stacked, TypeOK
  <1>7. \A i \in 1..n : OwesMaster(frames[i]) =>
          MasterBit(l) < MasterBit(frames[i].line)
    <2> SUFFICES ASSUME NEW i \in 1..n, OwesMaster(frames[i])
                 PROVE  MasterBit(l) < MasterBit(frames[i].line)
      OBVIOUS
    <2>1. MasterBit(frames[i].line) \in 0..7 /\ MasterBit(frames[i].line) \in isr
      BY <1>1, <1>2, LineBits DEF Owed
    <2> QED BY <2>1 DEF Foremost, Unblocked
  <1>8. Nested'
    BY <1>1, <1>2, <1>3, <1>4, <1>7 DEF Nested
  <1>9. Owed'
    <2>1. OwesMaster(f) /\ (l \in 8..15 => OwesSlave(f))
      BY <1>3 DEF OwesMaster, OwesSlave, MasterAt, SlaveAt
    <2>2. ASSUME NEW b \in 0..7
          PROVE  b \in isr' <=> \E i \in DOMAIN frames' : OwesMaster(frames'[i]) /\ MasterBit(frames'[i].line) = b
      <3>1. b \in isr' <=> b \in isr \/ b = MasterBit(l)
        BY LineBits
      <3>2. b \in isr <=> \E i \in 1..n : OwesMaster(frames[i]) /\ MasterBit(frames[i].line) = b
        BY <1>1, <1>2 DEF Owed
      <3>3. (\E i \in 1..n : OwesMaster(frames[i]) /\ MasterBit(frames[i].line) = b) => \E i \in DOMAIN frames' : OwesMaster(frames'[i]) /\ MasterBit(frames'[i].line) = b
        BY <1>2, <1>4
      <3>4. b = MasterBit(l) => \E i \in DOMAIN frames' : OwesMaster(frames'[i]) /\ MasterBit(frames'[i].line) = b
        <4>1. n + 1 \in DOMAIN frames'
          BY <1>2, <1>4
        <4> QED BY <1>3, <1>4, <2>1, <4>1
      <3>5. ASSUME NEW i \in DOMAIN frames', OwesMaster(frames'[i]) /\ MasterBit(frames'[i].line) = b
            PROVE  b = MasterBit(l) \/ \E k \in 1..n : OwesMaster(frames[k]) /\ MasterBit(frames[k].line) = b
        <4>1. CASE i = n + 1
          BY <1>3, <1>4, <3>5, <4>1
        <4>2. CASE i \in 1..n
          BY <1>4, <3>5, <4>2
        <4> QED BY <1>2, <1>4, <4>1, <4>2
      <3> QED BY <3>1, <3>2, <3>3, <3>4, <3>5
    <2>3. ASSUME NEW b \in 8..15
          PROVE  b \in isr' <=> \E i \in DOMAIN frames' : OwesSlave(frames'[i]) /\ frames'[i].line = b
      <3>1. b \in isr' <=> b \in isr \/ b = l
        BY LineBits
      <3>2. b \in isr <=> \E i \in 1..n : OwesSlave(frames[i]) /\ frames[i].line = b
        BY <1>1, <1>2 DEF Owed
      <3>3. (\E i \in 1..n : OwesSlave(frames[i]) /\ frames[i].line = b) => \E i \in DOMAIN frames' : OwesSlave(frames'[i]) /\ frames'[i].line = b
        BY <1>2, <1>4
      <3>4. b = l => \E i \in DOMAIN frames' : OwesSlave(frames'[i]) /\ frames'[i].line = b
        <4>1. n + 1 \in DOMAIN frames'
          BY <1>2, <1>4
        <4> QED BY <1>3, <1>4, <2>1, <4>1
      <3>5. ASSUME NEW i \in DOMAIN frames', OwesSlave(frames'[i]) /\ frames'[i].line = b
            PROVE  b = l \/ \E k \in 1..n : OwesSlave(frames[k]) /\ frames[k].line = b
        <4>1. CASE i = n + 1
          BY <1>3, <1>4, <3>5, <4>1
        <4>2. CASE i \in 1..n
          BY <1>4, <3>5, <4>2
        <4> QED BY <1>2, <1>4, <4>1, <4>2
      <3> QED BY <3>1, <3>2, <3>3, <3>4, <3>5
    <2> QED BY <2>2, <2>3 DEF Owed
  <1>10. ThreadInterruptible'
    BY <1>4 DEF ThreadInterruptible
  <1> QED BY <1>5, <1>6, <1>8, <1>9, <1>10 DEF InterruptsInv

(* A step of a handler that leaves the controllers alone. *)
LEMMA FlagKeeps ==
  ASSUME InterruptsInv, frames # <<>>, HandlerFlag, UNCHANGED <<irr, thread, raised, refused>>
  PROVE  InterruptsInv'
  <1> DEFINE n == Len(frames)
  <1>1. TypeOK /\ Stacked /\ Nested /\ Owed
    BY DEF InterruptsInv
  <1>2. /\ n \in Nat /\ DOMAIN frames = 1..n /\ n \in 1..n /\ Top = frames[n]
        /\ \A i \in 1..n : frames[i] \in Activation
    BY <1>1, Stack
  <1>3. Top \in Activation /\ Top.line \in Lines /\ Top.at \in 1..8
        /\ Top.at <= MasterAt(Top.line) + 1
    BY <1>1, <1>2 DEF Activation, Stacked
  <1>4. \/ /\ (Top.line = 1 /\ Top.at \in {1, 3, 5}) \/ (Top.line = 15 /\ Top.at = 1)
           /\ ifl' = FALSE
        \/ /\ (Top.line = 1 /\ Top.at \in {2, 4, 6}) \/ (Top.line = 15 /\ Top.at = 2)
           /\ ifl' = TRUE
        \/ /\ Top.line = 1 /\ Top.at \in {2, 4, 6}
           /\ ifl' = ifl
    BY <1>3, HandlerTable DEF HandlerFlag
  <1>5. /\ frames' \in Seq(Activation) /\ frames' # <<>> /\ Len(frames') = n /\ DOMAIN frames' = 1..n
        /\ \A i \in 1..n : i # n => frames'[i] = frames[i]
        /\ frames'[n].line = Top.line /\ frames'[n].at = Top.at + 1 /\ Top' = frames'[n]
    <2>1. Top.at < 8 /\ Advance
      BY <1>4 DEF HandlerFlag
    <2> QED BY <1>1, <1>2, <2>1, Advanced
  <1> HIDE DEF n
  <1>6. OwesMaster(Top) /\ OwesMaster(frames'[n])
        /\ (OwesSlave(Top) <=> OwesSlave(frames'[n]))
    <2>1. frames'[n].line = Top.line /\ frames'[n].at = Top.at + 1
      BY <1>5
    <2>2. CASE Top.line = 1
      BY <1>3, <1>4, <2>1, <2>2 DEF OwesMaster, OwesSlave, MasterAt
    <2>3. CASE Top.line = 15
      BY <1>3, <1>4, <2>1, <2>3 DEF OwesMaster, OwesSlave, MasterAt, SlaveAt
    <2> QED BY <1>4, <2>2, <2>3
  <1>7. \A i \in 1..n : /\ frames'[i].line = frames[i].line
                        /\ OwesMaster(frames'[i]) <=> OwesMaster(frames[i])
                        /\ OwesSlave(frames'[i]) <=> OwesSlave(frames[i])
    BY <1>2, <1>5, <1>6
  <1>8. TypeOK'
    BY <1>1, <1>4, <1>5 DEF TypeOK, Activation, HandlerFlag
  <1>9. Stacked'
    <2>1. ~ifl' \/ Interruptible(Top')
      <3>1. ifl => Interruptible(Top)
        BY <1>1 DEF Stacked
      <3>2. Top.line = 1 /\ Top.at \in {2, 4, 6} => ~ifl
        BY <3>1 DEF Interruptible
      <3>3. ifl' => (Top.line = 1 /\ Top.at \in {2, 4, 6}) \/ (Top.line = 15 /\ Top.at = 2)
        BY <1>4, <3>2
      <3> QED BY <1>3, <1>5, <3>3 DEF Interruptible
    <2>2. frames'[n].at <= MasterAt(frames'[n].line) + 1
      <3>1. frames'[n].at \in Nat /\ MasterAt(frames'[n].line) \in Nat
        BY <1>3, <1>5 DEF MasterAt
      <3> QED BY <1>6, <3>1 DEF OwesMaster
    <2>3. thread # "alloc" /\ thread' = thread
      BY <1>1 DEF Stacked
    <2>4. \A i \in 1..n : frames'[i].at <= MasterAt(frames'[i].line) + 1
      BY <1>1, <1>2, <1>5, <2>2 DEF Stacked
    <2>5. \A i \in 1..n : i < n => Interruptible(frames'[i])
      <3>1. \A i \in 1..n : i < n => Interruptible(frames[i])
        BY <1>1, <1>2 DEF Stacked, n
      <3> QED BY <1>2, <1>5, <3>1
    <2> QED BY <1>5, <2>1, <2>3, <2>4, <2>5 DEF Stacked
  <1>10. Nested'
    BY <1>1, <1>2, <1>5, <1>7 DEF Nested
  <1>11. Owed'
    BY <1>1, <1>2, <1>5, <1>7 DEF Owed, HandlerFlag
  <1>12. ThreadInterruptible'
    BY <1>5 DEF ThreadInterruptible
  <1> QED BY <1>8, <1>9, <1>10, <1>11, <1>12 DEF InterruptsInv

(* A non-specific EOI ends the service of the handler that sends it: the   *)
(* others that owe one for the same controller were interrupted by it.     *)
LEMMA EoiKeeps ==
  ASSUME InterruptsInv, frames # <<>>, HandlerEoi, UNCHANGED <<irr, thread, raised, refused>>
  PROVE  InterruptsInv'
  <1> DEFINE n == Len(frames)
             m == MasterBit(Top.line)
  <1>1. TypeOK /\ Stacked /\ Nested /\ Owed
    BY DEF InterruptsInv
  <1>2. /\ n \in Nat /\ DOMAIN frames = 1..n /\ n \in 1..n /\ Top = frames[n]
        /\ \A i \in 1..n : /\ frames[i] \in Activation
                           /\ frames[i].line \in Lines /\ frames[i].at \in 1..8
    BY <1>1, Stack
  <1>3. /\ Top \in Activation /\ Top.line \in Lines /\ Top.at \in 1..8
        /\ Top.at <= MasterAt(Top.line) + 1
        /\ Top.line \in 0..15 /\ m \in 0..7
    BY <1>1, <1>2, LineBits DEF Activation, Stacked
  <1>4. \/ Top.at = MasterAt(Top.line) /\ Eoi(0..7)
        \/ Top.line >= 8 /\ Top.at = SlaveAt(Top.line) /\ Eoi(8..15)
    BY <1>3, HandlerTable DEF HandlerEoi
  <1>5. Top.at <= MasterAt(Top.line) /\ MasterAt(Top.line) \in 1..7
    BY <1>3, <1>4 DEF MasterAt, SlaveAt
  <1>6. /\ frames' \in Seq(Activation) /\ frames' # <<>> /\ Len(frames') = n /\ DOMAIN frames' = 1..n
        /\ \A i \in 1..n : i # n => frames'[i] = frames[i]
        /\ frames'[n].line = Top.line /\ frames'[n].at = Top.at + 1 /\ Top' = frames'[n]
    <2>1. Top.at < 8 /\ Advance
      BY <1>3, <1>5 DEF HandlerEoi
    <2> QED BY <1>1, <1>2, <2>1, Advanced
  <1> HIDE DEF n
  <1>7. \A i \in 1..n : i # n /\ OwesMaster(frames[i]) => m < MasterBit(frames[i].line)
    BY <1>1, <1>2 DEF Nested
  <1>8. OwesMaster(Top) /\ Top.line = frames[n].line
    BY <1>2, <1>5 DEF OwesMaster
  <1>9. ASSUME Top.at = MasterAt(Top.line), Eoi(0..7)
        PROVE  /\ isr' \subseteq isr /\ Owed'
               /\ OwesMaster(frames'[n]) => OwesMaster(frames[n])
    <2>1. ~OwesSlave(Top) /\ ~OwesSlave(frames'[n]) /\ ~OwesMaster(frames'[n])
      BY <1>3, <1>6, <1>9 DEF OwesSlave, OwesMaster, MasterAt, SlaveAt
    <2>2. m \in isr /\ \A b \in isr \cap (0..7) : m <= b
      <3>1. m \in isr
        BY <1>1, <1>2, <1>3, <1>8 DEF Owed
      <3>2. ASSUME NEW b \in isr \cap (0..7) PROVE m <= b
        <4>1. PICK i \in 1..n : OwesMaster(frames[i]) /\ MasterBit(frames[i].line) = b
          BY <1>1, <1>2, <3>2 DEF Owed
        <4>2. CASE i = n
          BY <1>2, <1>3, <4>1, <4>2
        <4>3. CASE i # n
          BY <1>3, <1>7, <4>1, <4>3
        <4> QED BY <4>2, <4>3
      <3> QED BY <3>1, <3>2
    <2>3. isr' = isr \ {m}
      BY <1>3, <1>9, <2>2 DEF Eoi
    <2>4. \A i \in 1..n : /\ OwesMaster(frames'[i]) <=> i # n /\ OwesMaster(frames[i])
                          /\ OwesSlave(frames'[i]) <=> OwesSlave(frames[i])
                          /\ frames'[i].line = frames[i].line
      BY <1>2, <1>6, <1>8, <2>1
    <2>5. ASSUME NEW b \in 0..7
          PROVE  b \in isr' <=>
                   \E i \in 1..n : OwesMaster(frames'[i]) /\ MasterBit(frames'[i].line) = b
      <3>1. b \in isr <=> \E i \in 1..n : OwesMaster(frames[i]) /\ MasterBit(frames[i].line) = b
        BY <1>1, <1>2 DEF Owed
      <3>2. CASE b = m
        <4>1. ~ \E i \in 1..n : OwesMaster(frames'[i]) /\ MasterBit(frames'[i].line) = b
          BY <1>3, <1>7, <2>4, <3>2
        <4> QED BY <2>3, <3>2, <4>1
      <3>3. CASE b # m
        <4>1. \A i \in 1..n : MasterBit(frames[i].line) = b => i # n
          BY <1>2, <3>3
        <4>2. \A i \in 1..n :
                (OwesMaster(frames'[i]) /\ MasterBit(frames'[i].line) = b) <=>
                (OwesMaster(frames[i]) /\ MasterBit(frames[i].line) = b)
          BY <2>4, <4>1
        <4> QED BY <2>3, <3>1, <3>3, <4>2
      <3> QED BY <3>2, <3>3
    <2>6. ASSUME NEW b \in 8..15
          PROVE  b \in isr' <=> \E i \in 1..n : OwesSlave(frames'[i]) /\ frames'[i].line = b
      <3>1. b \in isr <=> \E i \in 1..n : OwesSlave(frames[i]) /\ frames[i].line = b
        BY <1>1, <1>2 DEF Owed
      <3>2. b # m
        BY <1>3
      <3> QED BY <2>3, <2>4, <3>1, <3>2
    <2>7. Owed'
      BY <1>6, <2>5, <2>6 DEF Owed
    <2> QED BY <2>1, <2>3, <2>7
  <1>10. ASSUME Top.line >= 8, Top.at = SlaveAt(Top.line), Eoi(8..15)
         PROVE  /\ isr' \subseteq isr /\ Owed'
                /\ OwesMaster(frames'[n]) => OwesMaster(frames[n])
    <2>1. OwesSlave(Top) /\ ~OwesSlave(frames'[n]) /\ OwesMaster(frames'[n])
      BY <1>3, <1>6, <1>10 DEF OwesSlave, OwesMaster, MasterAt, SlaveAt
    <2>2. \A i \in 1..n : OwesSlave(frames[i]) => i = n
      <3> SUFFICES ASSUME NEW i \in 1..n, OwesSlave(frames[i]), i # n
                   PROVE  FALSE
        OBVIOUS
      <3>1. OwesMaster(frames[i])
        BY <1>2 DEF OwesSlave, OwesMaster, SlaveAt, MasterAt
      <3>2. m < MasterBit(frames[i].line)
        BY <1>7, <3>1
      <3>3. m = 2 /\ MasterBit(frames[i].line) = 2
        BY <1>10 DEF MasterBit, Cascade, OwesSlave
      <3> QED BY <3>2, <3>3
    <2>3. \A b \in 8..15 : b \in isr <=> b = Top.line
      <3>1. \A b \in 8..15 : b \in isr <=>
              \E i \in 1..n : OwesSlave(frames[i]) /\ frames[i].line = b
        BY <1>1, <1>2 DEF Owed
      <3> QED BY <1>2, <2>1, <2>2, <3>1
    <2>4. isr' = isr \ {Top.line} /\ Top.line \in 8..15
      BY <1>3, <1>10, <2>3 DEF Eoi
    <2>5. Owed'
      <3>1. \A i \in 1..n : /\ OwesMaster(frames'[i]) <=> OwesMaster(frames[i])
                            /\ frames'[i].line = frames[i].line
                            /\ ~OwesSlave(frames'[i])
        BY <1>2, <1>6, <1>8, <2>1, <2>2
      <3>2. ASSUME NEW b \in 0..7
            PROVE  b \in isr' <=>
                     \E i \in 1..n : OwesMaster(frames'[i]) /\ MasterBit(frames'[i].line) = b
        <4>1. b \in isr <=> \E i \in 1..n : OwesMaster(frames[i]) /\ MasterBit(frames[i].line) = b
          BY <1>1, <1>2 DEF Owed
        <4>2. b # Top.line
          BY <1>10
        <4> QED BY <2>4, <3>1, <4>1, <4>2
      <3>3. \A b \in 8..15 : b \notin isr'
        BY <2>3, <2>4
      <3> QED BY <1>6, <3>1, <3>2, <3>3 DEF Owed
    <2> QED BY <1>2, <1>8, <2>4, <2>5
  <1>11. isr' \subseteq isr /\ Owed' /\ (OwesMaster(frames'[n]) => OwesMaster(frames[n]))
    BY <1>4, <1>9, <1>10
  <1>12. TypeOK'
    BY <1>1, <1>6, <1>11 DEF TypeOK, Activation, HandlerEoi
  <1>13. Stacked'
    <2>1. ~ifl' \/ Interruptible(Top')
      <3>1. ifl => Interruptible(Top)
        BY <1>1 DEF Stacked
      <3>2. ifl => \/ Top.line = 1 /\ Top.at = 7
                   \/ Top.line = 15 /\ Top.at \in {3, 4}
        BY <1>3, <1>4, <3>1 DEF Interruptible, MasterAt, SlaveAt
      <3> QED BY <1>6, <3>2 DEF Interruptible, HandlerEoi
    <2>2. frames'[n].at <= MasterAt(frames'[n].line) + 1
      BY <1>3, <1>5, <1>6
    <2>3. thread # "alloc" /\ thread' = thread
      BY <1>1 DEF Stacked
    <2>4. \A i \in 1..n : frames'[i].at <= MasterAt(frames'[i].line) + 1
      BY <1>1, <1>2, <1>6, <2>2 DEF Stacked
    <2>5. \A i \in 1..n : i < n => Interruptible(frames'[i])
      <3>1. \A i \in 1..n : i < n => Interruptible(frames[i])
        BY <1>1, <1>2 DEF Stacked, n
      <3> QED BY <1>2, <1>6, <3>1
    <2> QED BY <1>6, <2>1, <2>3, <2>4, <2>5 DEF Stacked
  <1>14. Nested'
    <2>1. \A i \in 1..n : /\ OwesMaster(frames'[i]) => OwesMaster(frames[i])
                          /\ frames'[i].line = frames[i].line
      BY <1>2, <1>6, <1>11
    <2> QED BY <1>1, <1>2, <1>6, <2>1 DEF Nested
  <1>15. ThreadInterruptible'
    BY <1>6 DEF ThreadInterruptible
  <1> QED BY <1>11, <1>12, <1>13, <1>14, <1>15 DEF InterruptsInv

(* A handler that returns owes no EOI; what it interrupted is within an    *)
(* allocation's sti and goes on with the flag set.                         *)
LEMMA IretKeeps ==
  ASSUME InterruptsInv, frames # <<>>, Iret, UNCHANGED <<irr, thread, raised, refused>>
  PROVE  InterruptsInv'
  <1> DEFINE n == Len(frames)
  <1>1. TypeOK /\ Stacked /\ Nested /\ Owed
    BY DEF InterruptsInv
  <1>2. /\ n \in Nat /\ DOMAIN frames = 1..n /\ n \in 1..n /\ Top = frames[n]
        /\ \A i \in 1..n : /\ frames[i] \in Activation
                           /\ frames[i].line \in Lines /\ frames[i].at \in 1..8
    BY <1>1, Stack
  <1>3. Top \in Activation /\ Top.at = MasterAt(Top.line) + 1
    BY <1>1, <1>2, HandlerTable DEF Stacked, Iret
  <1>4. ~OwesMaster(frames[n]) /\ ~OwesSlave(frames[n])
    <2>1. Top.at \in Nat /\ Top.line \in Nat
      BY <1>2, LineBits
    <2> QED BY <1>2, <1>3, <2>1 DEF OwesMaster, OwesSlave, MasterAt, SlaveAt
  <1>5. /\ frames' \in Seq(Activation) /\ Len(frames') = n - 1 /\ DOMAIN frames' = 1..(n - 1)
        /\ \A i \in 1..(n - 1) : frames'[i] = frames[i]
        /\ frames' # <<>> => n - 1 \in 1..(n - 1)
        /\ Top' = frames'[n - 1]
    <2>1. frames' = SubSeq(frames, 1, Len(frames) - 1)
      BY DEF Iret
    <2>2. Len(frames') = n - 1
      BY <1>1, <2>1, Returned
    <2> QED BY <1>1, <2>1, <2>2, Returned DEF Top
  <1> HIDE DEF n
  <1>6. TypeOK'
    BY <1>1, <1>5 DEF TypeOK, Activation, Iret
  <1>7. Stacked'
    <2>1. \A i \in 1..(n - 1) : /\ frames[i].at <= MasterAt(frames[i].line) + 1
                                /\ Interruptible(frames[i])
      BY <1>1, <1>2 DEF Stacked, n
    <2>2. thread' # "alloc"
      BY <1>1 DEF Stacked
    <2>3. \A i \in 1..(n - 1) : /\ frames'[i].at <= MasterAt(frames'[i].line) + 1
                                /\ Interruptible(frames'[i])
      BY <1>5, <2>1
    <2> QED BY <1>5, <2>2, <2>3 DEF Stacked
  <1>8. Nested'
    BY <1>1, <1>2, <1>5 DEF Nested
  <1>9. Owed'
    <2>1. isr' = isr
      BY DEF Iret
    <2>2. \A i \in 1..n : OwesMaster(frames[i]) \/ OwesSlave(frames[i]) => i \in 1..(n - 1)
      BY <1>2, <1>4
    <2>3. \A i \in 1..(n - 1) : i \in 1..n
      BY <1>2
    <2>4. ASSUME NEW b \in 0..7
          PROVE  b \in isr' <=>
                   \E i \in 1..(n - 1) : OwesMaster(frames'[i]) /\ MasterBit(frames'[i].line) = b
      <3>1. b \in isr <=> \E i \in 1..n : OwesMaster(frames[i]) /\ MasterBit(frames[i].line) = b
        BY <1>1, <1>2 DEF Owed
      <3> QED BY <1>5, <2>1, <2>2, <2>3, <3>1
    <2>5. ASSUME NEW b \in 8..15
          PROVE  b \in isr' <=> \E i \in 1..(n - 1) : OwesSlave(frames'[i]) /\ frames'[i].line = b
      <3>1. b \in isr <=> \E i \in 1..n : OwesSlave(frames[i]) /\ frames[i].line = b
        BY <1>1, <1>2 DEF Owed
      <3> QED BY <1>5, <2>1, <2>2, <2>3, <3>1
    <2> QED BY <1>5, <2>4, <2>5 DEF Owed
  <1>10. ThreadInterruptible'
    BY DEF ThreadInterruptible, Iret
  <1> QED BY <1>6, <1>7, <1>8, <1>9, <1>10 DEF InterruptsInv

(* A request, and what the thread does, leave the activations and the      *)
(* controllers' service alone.                                             *)
LEMMA ThreadKeeps ==
  ASSUME InterruptsInv,
         (\E l \in Lines : Raise(l)) \/ ThreadAlloc \/ ThreadGranted \/ ThreadRefused
  PROVE  InterruptsInv'
  <1> USE DEF Raise, ThreadAlloc, ThreadGranted, ThreadRefused
  <1>1. TypeOK /\ Stacked /\ Nested /\ Owed /\ ThreadInterruptible
    BY DEF InterruptsInv
  <1>2. UNCHANGED <<isr, frames>>
    OBVIOUS
  <1>3. TypeOK'
    <2>1. CASE \E l \in Lines : Raise(l)
      BY <1>1, <2>1, BoundsAssumption DEF TypeOK, BoundsAssumption
    <2>2. CASE ThreadAlloc \/ ThreadGranted
      BY <1>1, <2>2 DEF TypeOK
    <2>3. CASE ThreadRefused
      <3>1. refused' \in 0..MaxRefused
        BY <1>1, <2>3, BoundsAssumption DEF TypeOK, BoundsAssumption
      <3> QED BY <1>1, <2>3, <3>1 DEF TypeOK
    <2> QED BY <2>1, <2>2, <2>3
  <1>4. Stacked'
    BY <1>1, <1>2 DEF Stacked, Top
  <1>5. Nested' /\ Owed'
    BY <1>1, <1>2 DEF Nested, Owed
  <1>6. ThreadInterruptible'
    <2>1. refused \in Nat
      BY <1>1 DEF TypeOK
    <2> QED BY <1>1, <2>1 DEF ThreadInterruptible, Stacked
  <1> QED BY <1>3, <1>4, <1>5, <1>6 DEF InterruptsInv

(* Every step keeps the inductive invariant. *)
LEMMA InterruptsNext == InterruptsInv /\ [Next]_vars => InterruptsInv'
  <1> SUFFICES ASSUME InterruptsInv, [Next]_vars PROVE InterruptsInv'
    OBVIOUS
  <1>1. CASE UNCHANGED vars
    BY <1>1 DEF vars, InterruptsInv, TypeOK, Stacked, Top, Nested, Owed, ThreadInterruptible
  <1>2. CASE Interrupt
    BY <1>2, EnterKeeps DEF Interrupt
  <1>3. CASE Handle
    BY <1>3, FlagKeeps, EoiKeeps, IretKeeps DEF Handle
  <1>4. CASE (\E l \in Lines : Raise(l)) \/ ThreadAlloc \/ ThreadGranted \/ ThreadRefused
    BY <1>4, ThreadKeeps
  <1> QED BY <1>1, <1>2, <1>3, <1>4 DEF Next

-----------------------------------------------------------------------------
(* In every reachable state of the interrupts, however deep they nest, the *)
(* inductive invariant holds.                                              *)
THEOREM InterruptsInvariant == Spec => []InterruptsInv
  BY InterruptsInit, InterruptsNext, PTL DEF Spec

(* The controllers, the flag and the activations keep their types: no      *)
(* handler is taken up beyond its iret.                                    *)
THEOREM TypeCorrect == Spec => []TypeOK
  <1>1. InterruptsInv => TypeOK
    BY DEF InterruptsInv
  <1> QED BY <1>1, InterruptsInvariant, PTL

(* No non-specific EOI of the handlers ends the service of another line.   *)
THEOREM EoiIsOwn == Spec => []InServiceIsStacked
  <1>1. InterruptsInv => InServiceIsStacked
    <2> SUFFICES ASSUME InterruptsInv PROVE InServiceIsStacked
      OBVIOUS
    <2>1. TypeOK /\ Stacked /\ Owed
      BY DEF InterruptsInv
    <2>2. \A i \in DOMAIN frames :
            /\ Before(frames[i], "eoi_master") <=> OwesMaster(frames[i])
            /\ Before(frames[i], "eoi_slave") <=> OwesSlave(frames[i])
            /\ MasterBit(frames[i].line) \in 0..7
            /\ OwesSlave(frames[i]) => frames[i].line \in 8..15
      <3> SUFFICES ASSUME NEW i \in DOMAIN frames
                   PROVE  /\ Before(frames[i], "eoi_master") <=> OwesMaster(frames[i])
                          /\ Before(frames[i], "eoi_slave") <=> OwesSlave(frames[i])
                          /\ MasterBit(frames[i].line) \in 0..7
                          /\ OwesSlave(frames[i]) => frames[i].line \in 8..15
        OBVIOUS
      <3>1. /\ frames[i] \in Activation /\ frames[i].line \in Lines
            /\ frames[i].at <= MasterAt(frames[i].line) + 1
        BY <2>1, Stack DEF Stacked
      <3> QED BY <3>1, HandlerTable, LineBits DEF OwesSlave
    <2>3. isr \cap (0..7) = {MasterBit(frames[i].line) :
            i \in {j \in DOMAIN frames : Before(frames[j], "eoi_master")}}
      <3>1. \A b : b \in isr \cap (0..7) <=>
                     \E i \in DOMAIN frames :
                       OwesMaster(frames[i]) /\ MasterBit(frames[i].line) = b
        BY <2>1, <2>2 DEF Owed
      <3> QED BY <2>2, <3>1
    <2>4. isr \cap (8..15) = {frames[i].line :
            i \in {j \in DOMAIN frames : Before(frames[j], "eoi_slave")}}
      <3>1. \A b : b \in isr \cap (8..15) <=>
                     \E i \in DOMAIN frames : OwesSlave(frames[i]) /\ frames[i].line = b
        BY <2>1, <2>2 DEF Owed
      <3> QED BY <2>2, <3>1
    <2> QED BY <2>1, <2>3, <2>4 DEF InServiceIsStacked
  <1> QED BY <1>1, InterruptsInvariant, PTL

(* A handler is interrupted by its own line only when nothing but its iret *)
(* is left: no two key events are ever half dispatched.                    *)
THEOREM OwnLineAtIret == Spec => []NestsOnlyAtIret
  <1>1. InterruptsInv => NestsOnlyAtIret
    <2> SUFFICES ASSUME InterruptsInv,
                        NEW i \in DOMAIN frames, NEW j \in DOMAIN frames,
                        i < j, frames[i].line = frames[j].line
                 PROVE  Op(frames[i]) = "iret" /\ frames[i].line \in {1, 15}
      BY DEF NestsOnlyAtIret
    <2>1. TypeOK /\ Stacked /\ Nested
      BY DEF InterruptsInv
    <2>2. /\ frames[i] \in Activation /\ frames[i].line \in Lines /\ frames[i].at \in 1..8
          /\ j <= Len(frames) /\ i \in Nat /\ j \in Nat /\ Len(frames) \in Nat
      BY <2>1, Stack
    <2>3. Interruptible(frames[i])
      BY <2>1, <2>2 DEF Stacked
    <2>4. ~OwesMaster(frames[i])
      <3>1. MasterBit(frames[i].line) = MasterBit(frames[j].line) /\ MasterBit(frames[i].line) \in 0..7
        BY <2>2, LineBits
      <3> QED BY <2>1, <3>1 DEF Nested
    <2>5. frames[i].at = MasterAt(frames[i].line) + 1
      BY <2>1, <2>2, <2>4, LineBits DEF Stacked, OwesMaster, MasterAt
    <2> QED BY <2>2, <2>3, <2>5, HandlerTable DEF Interruptible
  <1> QED BY <1>1, InterruptsInvariant, PTL

(* s2_MemoryAlloc is atomic: of the thread and the handlers, one at most   *)
(* is inside it, and nothing runs above that one.                          *)
THEOREM AllocatesAlone == Spec => []AllocatorExclusive
  <1>1. InterruptsInv => AllocatorExclusive
    <2> SUFFICES ASSUME InterruptsInv PROVE AllocatorExclusive
      OBVIOUS
    <2>1. TypeOK /\ Stacked
      BY DEF InterruptsInv
    <2>2. \A i \in DOMAIN frames : Op(frames[i]) = "leave" => i = Len(frames)
      <3> SUFFICES ASSUME NEW i \in DOMAIN frames, i # Len(frames)
                   PROVE  Op(frames[i]) # "leave"
        OBVIOUS
      <3>1. /\ frames[i] \in Activation /\ i \in 1..Len(frames) /\ Len(frames) \in Nat
            /\ frames[i].at <= MasterAt(frames[i].line) + 1
        BY <2>1, Stack DEF Stacked
      <3>2. Interruptible(frames[i])
        BY <2>1, <3>1 DEF Stacked
      <3> QED BY <3>1, <3>2, HandlerTable DEF Interruptible
    <2>3. thread = "alloc" => DOMAIN frames = {} /\ Len(frames) = 0
      BY <2>1, Stack DEF Stacked
    <2>4. \A i \in InAllocator : i = Len(frames)
      BY <2>2, <2>3 DEF InAllocator
    <2>5. InAllocator \subseteq {Len(frames)}
      BY <2>4
    <2>6. Cardinality(InAllocator) <= 1
      <3>1. Cardinality({Len(frames)}) = 1 /\ IsFiniteSet({Len(frames)})
        BY FS_Singleton
      <3> QED BY <2>5, <3>1, FS_Subset
    <2> QED BY <2>4, <2>6 DEF AllocatorExclusive
  <1> QED BY <1>1, InterruptsInvariant, PTL

(* Only a refused allocation leaves the running thread without interrupts. *)
THEOREM FlagOutlivesHandlers == Spec => []ThreadInterruptible
  <1>1. InterruptsInv => ThreadInterruptible
    BY DEF InterruptsInv
  <1> QED BY <1>1, InterruptsInvariant, PTL
=============================================================================
