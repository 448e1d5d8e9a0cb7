------------------------------ MODULE ShellProofs ------------------------------
(***************************************************************************)
(* Theorems about the shell, for any keyboard, any size of the screen, of  *)
(* the vector's block and of a short, and any number of key events.        *)
(***************************************************************************)
EXTENDS Shell, SequenceTheorems, TLAPS

Numbers ==
  /\ Width \in Nat /\ Width > 3 /\ Height \in Nat /\ Height > 0 /\ OutHeight \in Nat /\ OutHeight > 0
  /\ Capacity \in Nat /\ ShortMax \in Nat /\ ShortMax > 0 /\ MaxKeys \in Nat
  /\ Cells \in Nat /\ Cells >= Width /\ Bottom \in Nat /\ Bottom >= MaxKeys /\ Bottom >= 0
  /\ Width * OutHeight \in Nat /\ Width * OutHeight > 0
  /\ 2 * ShortMax * Width \in Nat /\ 2 * ShortMax * Width > 0

(* The constants are numbers, and the products that the shell divides by   *)
(* are positive.                                                           *)
LEMMA Constants == Numbers
  <1>1. /\ Width \in Nat /\ Width > 3 /\ Height \in Nat /\ Height > 0 /\ OutHeight \in Nat
        /\ OutHeight > 0 /\ Capacity \in Nat /\ ShortMax \in Nat /\ ShortMax > 0 /\ MaxKeys \in Nat
    BY ShellAssumption DEF ShellAssumption
  <1>2. \A m, n \in Nat : n > 0 => m * n \in Nat /\ m * n >= m
    OBVIOUS
  <1>3. Width * Height \in Nat /\ Width * Height >= Width
    BY <1>1, <1>2
  <1>4. Width * OutHeight \in Nat /\ Width * OutHeight >= Width
    BY <1>1, <1>2
  <1>5. (2 * ShortMax) * Width \in Nat /\ (2 * ShortMax) * Width >= 2 * ShortMax
    BY <1>1, <1>2
  <1> QED BY <1>1, <1>3, <1>4, <1>5 DEF Numbers, Cells, Bottom

-----------------------------------------------------------------------------
(* Division, as far as it is needed here. *)
LEMMA DivMod ==
  ASSUME NEW m \in Int, NEW n \in Nat, n > 0
  PROVE  m \div n \in Int /\ m % n \in 0..(n - 1) /\ m = n * (m \div n) + (m % n)
  OBVIOUS

(* A multiple grows by no less than its factor. *)
LEMMA Steps ==
  ASSUME NEW n \in Nat, NEW a \in Int, NEW b \in Int, n > 0, a > b
  PROVE  n * a >= n * b + n
  OBVIOUS

(* Quotient and remainder are unique. *)
LEMMA Unique ==
  ASSUME NEW m \in Int, NEW n \in Nat, n > 0, NEW q \in Int, NEW r \in 0..(n - 1), m = n * q + r
  PROVE  m \div n = q /\ m % n = r
  <1> DEFINE a == m \div n
             b == m % n
  <1>1. a \in Int /\ b \in 0..(n - 1) /\ m = n * a + b
    BY DivMod
  <1> HIDE DEF a, b
  <1>2. ~(a > q)
    <2> SUFFICES ASSUME a > q PROVE FALSE
      OBVIOUS
    <2>1. n * a >= n * q + n
      BY <1>1, Steps
    <2> QED BY <1>1, <2>1
  <1>3. ~(q > a)
    <2> SUFFICES ASSUME q > a PROVE FALSE
      OBVIOUS
    <2>1. n * q >= n * a + n
      BY <1>1, Steps
    <2> QED BY <1>1, <2>1
  <1>4. a = q
    BY <1>1, <1>2, <1>3
  <1>5. b = r
    BY <1>1, <1>4
  <1> QED BY <1>4, <1>5 DEF a, b

(* What is a multiple leaves no remainder, and the converse. *)
LEMMA Multiple ==
  ASSUME NEW m \in Int, NEW n \in Nat, n > 0
  PROVE  m % n = 0 <=> \E q \in Int : m = n * q
  <1>1. ASSUME m % n = 0 PROVE \E q \in Int : m = n * q
    BY <1>1, DivMod
  <1>2. ASSUME NEW q \in Int, m = n * q PROVE m % n = 0
    <2>1. m = n * q + 0 /\ 0 \in 0..(n - 1)
      BY <1>2
    <2> QED BY <2>1, Unique
  <1> QED BY <1>1, <1>2

-----------------------------------------------------------------------------
(* The characters of the keys. *)
Place(key) == IF key <= 13 THEN key - 1 ELSE IF key <= 28 THEN key - 3
              ELSE IF key <= 41 THEN key - 4 ELSE key - 5

(* The rows do not overlap, so that a key of one has one place in the      *)
(* string.                                                                 *)
LEMMA PlaceOfKey ==
  ASSUME NEW key \in 1..128, InRow(key)
  PROVE  /\ Place(key) \in 1..48
         /\ PS2ConvertCodeToChar(key) = scancode_chr[Place(key)]
  <1> DEFINE R(r) == r \in Rows /\ key \in r.first .. r.last
  <1>1. /\ key \in 2..13 \/ key \in 16..28 \/ key \in 30..41 \/ key \in 43..53
    BY DEF InRow, Rows, Row
  <1>2. \A r : R(r) => key - r.first + r.at + 1 = Place(key)
    BY <1>1 DEF Rows, Row, Place
  <1>3. PICK r : R(r)
    BY DEF InRow
  <1>4. R(CHOOSE s \in Rows : key \in s.first .. s.last)
    BY <1>3
  <1>5. Place(key) \in 1..48
    BY <1>1 DEF Place
  <1> HIDE DEF R
  <1>6. PS2ConvertCodeToChar(key) = scancode_chr[Place(key)]
    BY <1>2, <1>4 DEF PS2ConvertCodeToChar
  <1> QED BY <1>5, <1>6

(* The string names no character twice. *)
LEMMA StringDiffers ==
  /\ \A i \in 1..48 : scancode_chr[i] \in 1..127
  /\ \A i, j \in 1..48 : scancode_chr[i] = scancode_chr[j] => i = j
  BY DEF scancode_chr

(* A key's character is a char, and keys of the rows differ in theirs.     *)
LEMMA CharOfKey ==
  /\ \A key \in 1..128 : PS2ConvertCodeToChar(key) \in Char
  /\ \A j, k \in 1..128 :
       InRow(j) /\ InRow(k) /\ PS2ConvertCodeToChar(j) = PS2ConvertCodeToChar(k) => j = k
  <1>1. ASSUME NEW key \in 1..128 PROVE PS2ConvertCodeToChar(key) \in Char
    <2>1. CASE InRow(key)
      <3>1. scancode_chr[Place(key)] \in 1..127
        BY <2>1, PlaceOfKey, StringDiffers
      <3> QED BY <2>1, <3>1, PlaceOfKey DEF Char
    <2>2. CASE ~InRow(key)
      BY <2>2 DEF PS2ConvertCodeToChar, Char
    <2> QED BY <2>1, <2>2
  <1>2. ASSUME NEW j \in 1..128, NEW k \in 1..128, InRow(j), InRow(k),
               PS2ConvertCodeToChar(j) = PS2ConvertCodeToChar(k)
        PROVE  j = k
    <2>1. Place(j) = Place(k) /\ Place(j) \in 1..48
      BY <1>2, PlaceOfKey, StringDiffers
    <2>2. \A i \in {j, k} : i \in 2..13 \/ i \in 16..28 \/ i \in 30..41 \/ i \in 43..53
      BY <1>2 DEF InRow, Rows, Row
    <2> QED BY <2>1, <2>2 DEF Place
  <1> QED BY <1>1, <1>2

(* The event of a byte. *)
LEMMA EventOfByte ==
  ASSUME NEW code \in Scancodes
  PROVE  EventOf(code) \in [pressed : BOOLEAN, key : 1..128]
  <1>1. code \in 1..255
    BY ShellAssumption DEF ShellAssumption
  <1> QED BY <1>1 DEF EventOf

-----------------------------------------------------------------------------
(* The screen and the cursor. *)
Screens == [0..(Cells - 1) -> Char]

(* Printing changes the cells it prints, and leaves a screen. *)
LEMMA Printing ==
  ASSUME NEW scr \in Screens, NEW offset \in Int, NEW cells \in Seq(Char)
  PROVE  TVMPrint(scr, offset, cells) \in Screens
  <1>1. Len(cells) \in Nat /\ \A i \in 1..Len(cells) : cells[i] \in Char
    BY ElementOfSeq, LenProperties
  <1>2. ASSUME NEW p \in 0..(Cells - 1), p - offset \in 0..(Len(cells) - 1)
        PROVE  cells[p - offset + 1] \in Char
    <2>1. p - offset + 1 \in 1..Len(cells)
      BY <1>1, <1>2
    <2> QED BY <1>1, <2>1
  <1> QED BY <1>2 DEF TVMPrint, Screens

(* The same of one cell. *)
LEMMA PrintingOne ==
  ASSUME NEW scr \in Screens, NEW offset \in Int, NEW c \in Char
  PROVE  /\ TVMPrint(scr, offset, <<c>>) \in Screens
         /\ \A p \in 0..(Cells - 1) :
              TVMPrint(scr, offset, <<c>>)[p] = IF p = offset THEN c ELSE scr[p]
  <1>1. <<c>> \in Seq(Char) /\ Len(<<c>>) = 1 /\ <<c>>[1] = c
    OBVIOUS
  <1>2. Cells \in Nat
    BY Constants DEF Numbers
  <1>3. ASSUME NEW p \in 0..(Cells - 1)
        PROVE  TVMPrint(scr, offset, <<c>>)[p] = IF p = offset THEN c ELSE scr[p]
    <2>1. p - offset \in 0..(1 - 1) <=> p = offset
      BY <1>2
    <2>2. p = offset => p - offset + 1 = 1
      BY <1>2
    <2> QED BY <1>1, <2>1, <2>2 DEF TVMPrint
  <1> QED BY <1>1, <1>3, Printing

(* A short wraps by a multiple of its range. *)
LEMMA Shorts ==
  ASSUME NEW y \in Int
  PROVE  /\ Short(y) \in -ShortMax..(ShortMax - 1)
         /\ \E j \in Int : Short(y) = y + (2 * ShortMax) * j
         /\ y \in -ShortMax..(ShortMax - 1) => Short(y) = y
         /\ y = ShortMax => Short(y) = -ShortMax
         /\ y = -ShortMax - 1 => Short(y) = ShortMax - 1
  <1> DEFINE n == 2 * ShortMax
             q == (y + ShortMax) \div n
             r == (y + ShortMax) % n
  <1>1. ShortMax \in Nat /\ ShortMax > 0 /\ n \in Nat /\ n > 0
    BY Constants DEF Numbers
  <1>2. q \in Int /\ r \in 0..(n - 1) /\ y + ShortMax = n * q + r
    BY <1>1, DivMod
  <1>3. Short(y) = r - ShortMax
    BY DEF Short
  <1>4. y \in -ShortMax..(ShortMax - 1) => r = y + ShortMax
    <2> SUFFICES ASSUME y \in -ShortMax..(ShortMax - 1) PROVE r = y + ShortMax
      OBVIOUS
    <2>1. y + ShortMax \in 0..(n - 1) /\ y + ShortMax = n * 0 + (y + ShortMax)
      BY <1>1
    <2> QED BY <1>1, <2>1, Unique
  <1>5. y = ShortMax => r = 0
    <2> SUFFICES ASSUME y = ShortMax PROVE r = 0
      OBVIOUS
    <2>1. y + ShortMax = n * 1 + 0 /\ 0 \in 0..(n - 1)
      BY <1>1
    <2> QED BY <1>1, <2>1, Unique
  <1>6. y = -ShortMax - 1 => r = n - 1
    <2> SUFFICES ASSUME y = -ShortMax - 1 PROVE r = n - 1
      OBVIOUS
    <2>1. y + ShortMax = n * (-1) + (n - 1) /\ n - 1 \in 0..(n - 1)
      BY <1>1
    <2> QED BY <1>1, <2>1, Unique
  <1>7. \E j \in Int : r - ShortMax = y + n * j
    <2>1. n * (-q) = -(n * q) /\ n * q \in Int /\ -q \in Int
      BY <1>1, <1>2
    <2>2. r - ShortMax = y + n * (-q)
      BY <1>1, <1>2, <2>1
    <2> QED BY <2>1, <2>2
  <1> HIDE DEF q, r
  <1>8. r - ShortMax \in -ShortMax..(ShortMax - 1)
    BY <1>1, <1>2
  <1> QED BY <1>1, <1>3, <1>4, <1>5, <1>6, <1>7, <1>8

(* The whole rows in an offset of less than two. *)
LEMMA Rows1 ==
  ASSUME NEW x \in -Width..Width
  PROVE  Over(x) = IF x = Width THEN 1 ELSE IF x = -Width THEN -1 ELSE 0
  <1>1. Width \in Nat /\ Width > 0
    BY Constants DEF Numbers
  <1>2. \A a \in 0..(Width - 1) : a \div Width = 0
    <2> SUFFICES ASSUME NEW a \in 0..(Width - 1) PROVE a \div Width = 0
      OBVIOUS
    <2>1. a = Width * 0 + a
      BY <1>1
    <2> QED BY <1>1, <2>1, Unique
  <1>3. Width \div Width = 1
    <2>1. Width = Width * 1 + 0 /\ 0 \in 0..(Width - 1)
      BY <1>1
    <2> QED BY <1>1, <2>1, Unique
  <1>4. CASE x < 0
    <2>1. Over(x) = -((-x) \div Width)
      BY <1>4 DEF Over
    <2>2. CASE x = -Width
      <3>1. -x = Width
        BY <1>1, <2>2
      <3> QED BY <1>1, <1>3, <1>4, <2>1, <2>2, <3>1
    <2>3. CASE x # -Width
      <3>1. -x \in 0..(Width - 1)
        BY <1>1, <1>4, <2>3
      <3>2. (-x) \div Width = 0
        BY <1>2, <3>1
      <3> QED BY <1>1, <1>4, <2>1, <2>3, <3>2
    <2> QED BY <2>2, <2>3
  <1>5. CASE x >= 0
    <2>1. Over(x) = x \div Width
      BY <1>5 DEF Over
    <2>2. x = Width \/ x \in 0..(Width - 1)
      BY <1>1, <1>5
    <2> QED BY <1>1, <1>2, <1>3, <1>5, <2>1, <2>2
  <1> QED BY <1>1, <1>4, <1>5

(* Settling moves the cursor to a place in a row, the same one on the      *)
(* screen unless the row's number wraps.                                   *)
LEMMA Settled ==
  ASSUME NEW x \in -Width..Width, NEW y \in -ShortMax..(ShortMax - 1), Settle(x, y)
  PROVE  /\ cursorX' \in -(Width - 1)..(Width - 1)
         /\ cursorY' \in -ShortMax..(ShortMax - 1)
         /\ \E j \in Int : cursorX' + Width * cursorY' = x + Width * y + (2 * ShortMax * Width) * j
         /\ x \in -(Width - 1)..(Width - 1) => cursorX' = x /\ cursorY' = y
         /\ x = Width => cursorX' = 0 /\ cursorY' = IF y = ShortMax - 1 THEN -ShortMax ELSE y + 1
         /\ x = -Width => cursorX' = 0 /\ cursorY' = IF y = -ShortMax THEN ShortMax - 1 ELSE y - 1
  <1>1. Width \in Nat /\ Width > 3 /\ ShortMax \in Nat /\ ShortMax > 0
    BY Constants DEF Numbers
  <1>2. Over(x) = IF x = Width THEN 1 ELSE IF x = -Width THEN -1 ELSE 0
    BY Rows1
  <1>3. Over(x) \in Int /\ cursorX' = x - Over(x) * Width /\ cursorY' = Short(y + Over(x))
    BY <1>2 DEF Settle
  <1>4. \E j \in Int : cursorX' + Width * cursorY' = x + Width * y + (2 * ShortMax * Width) * j
    <2> DEFINE o == Over(x)
    <2>1. o \in Int /\ y + o \in Int
      BY <1>1, <1>3
    <2>2. PICK j \in Int : Short(y + o) = y + o + (2 * ShortMax) * j
      BY <2>1, Shorts
    <2>3. \A W, S, a, b, c \in Int :
            (a - c * W) + W * (b + c + (2 * S) * j) = a + W * b + (2 * S * W) * j
      OBVIOUS
    <2>4. cursorX' = x - o * Width /\ cursorY' = y + o + (2 * ShortMax) * j
      BY <1>3, <2>2
    <2> HIDE DEF o
    <2> QED BY <1>1, <2>1, <2>3, <2>4
  <1>5. cursorY' \in -ShortMax..(ShortMax - 1)
    BY <1>1, <1>3, Shorts
  <1>6. ASSUME x \in -(Width - 1)..(Width - 1) PROVE cursorX' = x /\ cursorY' = y
    <2>1. Over(x) = 0
      BY <1>1, <1>2, <1>6
    <2>2. cursorX' = x /\ cursorY' = Short(y)
      BY <1>1, <1>3, <2>1
    <2> QED BY <1>1, <2>2, Shorts
  <1>7. ASSUME x = Width
        PROVE  cursorX' = 0 /\ cursorY' = IF y = ShortMax - 1 THEN -ShortMax ELSE y + 1
    <2>1. cursorX' = 0 /\ cursorY' = Short(y + 1)
      BY <1>1, <1>2, <1>3, <1>7
    <2>2. Short(y + 1) = IF y = ShortMax - 1 THEN -ShortMax ELSE y + 1
      BY <1>1, Shorts
    <2> QED BY <2>1, <2>2
  <1>8. ASSUME x = -Width
        PROVE  cursorX' = 0 /\ cursorY' = IF y = -ShortMax THEN ShortMax - 1 ELSE y - 1
    <2>1. Over(x) = -1
      BY <1>1, <1>2, <1>8
    <2>2. cursorX' = 0 /\ cursorY' = Short(y - 1)
      BY <1>1, <1>3, <1>8, <2>1
    <2>3. Short(y - 1) = IF y = -ShortMax THEN ShortMax - 1 ELSE y - 1
      BY <1>1, Shorts
    <2> QED BY <2>2, <2>3
  <1>9. cursorX' \in -(Width - 1)..(Width - 1)
    BY <1>1, <1>6, <1>7, <1>8
  <1> QED BY <1>4, <1>5, <1>6, <1>7, <1>8, <1>9

(* The cursor and the prompt are somewhere in memory. *)
LEMMA Offsets ==
  /\ \A m \in Int, n \in Nat : n > 0 => Rem(m, n) \in Int
  /\ \A x, y \in Int : At(x, y) \in Int
  <1>1. ASSUME NEW m \in Int, NEW n \in Nat, n > 0 PROVE Rem(m, n) \in Int
    <2>1. m % n \in Int /\ (-m) % n \in Int /\ -m \in Int
      BY <1>1, DivMod
    <2> QED BY <2>1 DEF Rem
  <1>2. ASSUME NEW x \in Int, NEW y \in Int PROVE At(x, y) \in Int
    <2>1. y * Width \in Int /\ Rem(y * Width, Cells) \in Int
      BY <1>1, Constants DEF Numbers
    <2> QED BY <2>1 DEF At
  <1> QED BY <1>1, <1>2

(* The screens that the shell's lines, its prompt and the two ways to clear*)
(* leave.                                                                  *)
LEMMA ScreensLeft ==
  ASSUME NEW scr \in Screens, NEW y \in Int
  PROVE  /\ RenderPrompt(y, scr) \in Screens
         /\ \A n \in Nat : Printed(scr, y, n) \in Screens
         /\ Cleared(scr) \in Screens
  <1>1. Cells \in Nat /\ Cells > 0 /\ Width \in Nat
    BY Constants DEF Numbers
  <1>2. {Prompt, Output, Blank, Cursor} \subseteq Char
    BY DEF Prompt, Output, Blank, Cursor, Char
  <1>3. RenderPrompt(y, scr) \in Screens
    <2>1. PromptCells \in Seq(Char)
      BY <1>2 DEF PromptCells
    <2>2. Rem(Width * (1 + y), Cells) \in Int
      BY <1>1, Offsets
    <2> QED BY <2>1, <2>2, Printing DEF RenderPrompt
  <1>4. ASSUME NEW n \in Nat PROVE Printed(scr, y, n) \in Screens
    BY <1>2 DEF Printed, Screens
  <1>5. Cleared(scr) \in Screens
    <2>1. [p \in 1..(Cells - 1) |-> Blank] \in Seq(Char)
      BY <1>1, <1>2
    <2> QED BY <2>1, Printing DEF Cleared
  <1> QED BY <1>3, <1>4, <1>5

-----------------------------------------------------------------------------
(* The line in the vector is the line as typed. *)
LineText ==
  /\ size = Len(typed)
  /\ \A k \in 1..size : data[k - 1] = PS2ConvertCodeToChar(typed[k])

(* The inductive invariant, but for what the screen shows. *)
ShellInv == TypeOK /\ LineText /\ CursorFollowsText /\ SilentSpillBounded

(* A round of the loop. *)
Round ==
  /\ ~halted /\ keys < MaxKeys /\ keys' = keys + 1
  /\ event' \in [pressed : BOOLEAN, key : 1..128]

(* What is needed of the types. *)
LEMMA ShellFacts ==
  ASSUME TypeOK
  PROVE  /\ Numbers
         /\ cursorX \in -(Width - 1)..(Width - 1)
         /\ cursorX \in -Width..Width /\ cursorX + 1 \in -Width..Width /\ cursorX - 1 \in -Width..Width
         /\ cursorX \in Int
         /\ cursorY \in -ShortMax..(ShortMax - 1) /\ promptY \in -ShortMax..(ShortMax - 1)
         /\ cursorY \in Int /\ promptY \in Int
         /\ screen \in Screens /\ size \in Nat /\ keys \in Nat /\ size <= keys /\ keys <= MaxKeys
         /\ At(cursorX, cursorY) \in Int
  <1>1. Numbers
    BY Constants
  <1>2. /\ cursorX \in -(Width - 1)..(Width - 1)
        /\ cursorY \in -ShortMax..(ShortMax - 1) /\ promptY \in -ShortMax..(ShortMax - 1)
        /\ screen \in Screens /\ size \in Nat /\ keys \in 0..MaxKeys /\ size <= keys
    BY DEF TypeOK, Screens
  <1>3. Width \in Nat /\ ShortMax \in Nat /\ MaxKeys \in Nat
    BY <1>1 DEF Numbers
  <1> QED BY <1>1, <1>2, <1>3, Offsets

(* The cursor drawn, the screen is a screen. *)
LEMMA Rendered ==
  ASSUME NEW x \in Int, NEW y \in Int, NEW scr \in Screens, RenderCursor(x, y, scr)
  PROVE  /\ screen' \in Screens /\ Settle(x, y)
         /\ \A p \in 0..(Cells - 1) : screen'[p] = IF p = At(x, y) THEN Cursor ELSE scr[p]
  <1>1. Cursor \in Char /\ At(x, y) \in Int
    BY Offsets DEF Cursor, Char
  <1> QED BY <1>1, PrintingOne DEF RenderCursor

(* The cursor keeps its distance from the prompt, over every wrap. *)
LEMMA Follows ==
  ASSUME NEW x \in -Width..Width, NEW y \in -ShortMax..(ShortMax - 1), Settle(x, y),
         promptY' \in Int, size' \in Int,
         NEW q \in Int,
         (x + Width * y) - (Width * promptY' + 3 + size') = (2 * ShortMax * Width) * q
  PROVE  CursorFollowsText'
  <1> DEFINE n == 2 * ShortMax * Width
             t == Width * promptY' + 3 + size'
             a == x + Width * y
             b == cursorX' + Width * cursorY'
  <1>1. /\ Width \in Nat /\ ShortMax \in Nat /\ n \in Nat /\ n > 0
        /\ t \in Int /\ a \in Int /\ b \in Int /\ a - t = n * q
    <2>1. /\ Width \in Nat /\ ShortMax \in Nat /\ n \in Nat /\ n > 0
      BY Constants DEF Numbers
    <2>2. cursorX' \in Int /\ cursorY' \in Int
      BY <2>1, Settled
    <2>3. t \in Int /\ a \in Int /\ b \in Int
      BY <2>1, <2>2
    <2>4. a - t = n * q
      OBVIOUS
    <2> QED BY <2>1, <2>3, <2>4
  <1>2. PICK j \in Int : b = a + n * j
    BY Settled
  <1> HIDE DEF n, t, a, b
  <1>3. b - t = n * (q + j) /\ q + j \in Int /\ b - t \in Int
    BY <1>1, <1>2
  <1>4. (b - t) % n = 0
    BY <1>1, <1>3, Multiple
  <1> QED BY <1>4, Zenon DEF CursorFollowsText, n, t, b

(* As it was before a key that moves the cursor and the line alike. *)
LEMMA FollowsStill ==
  ASSUME TypeOK, CursorFollowsText, NEW d \in -1..1, Settle(cursorX + d, cursorY),
         promptY' = promptY, size' = size + d
  PROVE  CursorFollowsText'
  <1> USE ShellFacts DEF Numbers
  <1> DEFINE n == 2 * ShortMax * Width
             e == (cursorX + Width * cursorY) - (Width * promptY + 3 + size)
  <1>1. n \in Nat /\ n > 0 /\ e \in Int /\ Width * cursorY \in Int /\ Width * promptY \in Int
    OBVIOUS
  <1>2. PICK q \in Int : e = n * q
    BY <1>1, Multiple DEF CursorFollowsText
  <1>3. ((cursorX + d) + Width * cursorY) - (Width * promptY' + 3 + size') = n * q
    BY <1>1, <1>2
  <1>4. cursorX + d \in -Width..Width /\ promptY' \in Int /\ size' \in Int
    OBVIOUS
  <1> QED BY <1>2, <1>3, <1>4, Follows

(* A typed character goes into the vector, onto the screen and under the   *)
(* cursor that moves on.                                                   *)
LEMMA TypeKeeps ==
  ASSUME ShellInv, Round, NEW key \in 1..128, Type(key)
  PROVE  ShellInv'
  <1> DEFINE c == PS2ConvertCodeToChar(key)
             scr == TVMPrint(screen, Echo, <<c>>)
  <1>0. ~halted /\ keys < MaxKeys /\ keys' = keys + 1 /\ event' \in [pressed : BOOLEAN, key : 1..128]
    BY DEF Round
  <1>1. /\ TypeOK /\ LineText /\ CursorFollowsText /\ SilentSpillBounded
        /\ c \in Char
    BY CharOfKey DEF ShellInv
  <1>2. /\ data' = Store(data, size, c) /\ size' = size + 1
        /\ reported' = (reported \/ size > Capacity)
        /\ spill' = Larger(spill, size + 4 - Capacity)
        /\ typed' = Append(typed, key)
        /\ RenderCursor(cursorX + 1, cursorY, scr)
        /\ astray' = (astray \/ At(cursorX + 1, cursorY) < 0 \/ size + 1 >= Cells)
        /\ UNCHANGED <<lolmode, halted, promptY>>
    BY DEF Type, CtVectorPush, Reports, PushedAt, Strays
  <1>3. scr \in Screens
    BY <1>1, ShellFacts, PrintingOne DEF Echo
  <1>4. screen' \in Screens /\ Settle(cursorX + 1, cursorY)
    BY <1>1, <1>2, <1>3, ShellFacts, Rendered
  <1>5. /\ cursorX' \in -(Width - 1)..(Width - 1)
        /\ cursorY' \in -ShortMax..(ShortMax - 1)
    BY <1>1, <1>4, ShellFacts, Settled
  <1> USE DEF Numbers
  <1>6. CursorFollowsText'
    BY <1>1, <1>2, <1>4, FollowsStill
  <1>7. /\ typed \in Seq(1..128) /\ typed' \in Seq(1..128)
        /\ size = Len(typed) /\ Len(typed') = size + 1
        /\ \A k \in 1..size : typed'[k] = typed[k]
        /\ typed'[size + 1] = key
    <2>1. typed \in Seq(1..128) /\ size = Len(typed)
      BY <1>1 DEF TypeOK, LineText
    <2> QED BY <1>2, <2>1, AppendProperties
  <1>8. /\ data \in [0..Bottom -> Char]
        /\ \A b \in 0..Bottom : data'[b] = IF b = size THEN c ELSE IF b \in size+1..size+3
                                           THEN (IF c < 0 THEN -1 ELSE 0) ELSE data[b]
        /\ data' \in [0..Bottom -> Char]
    <2>1. data \in [0..Bottom -> Char]
      BY <1>1 DEF TypeOK
    <2>2. 0 \in Char /\ -1 \in Char
      BY DEF Char
    <2> QED BY <1>1, <1>2, <2>1, <2>2 DEF Store
  <1>9. LineText'
    <2>1. \A k \in 1..size : data[k - 1] = PS2ConvertCodeToChar(typed[k])
      BY <1>1 DEF LineText
    <2>2. size \in Nat /\ size < MaxKeys /\ MaxKeys <= Bottom /\ Bottom \in Nat /\ MaxKeys \in Nat
      BY <1>0, <1>1, ShellFacts
    <2>3. \A k \in 1..size : data'[k - 1] = PS2ConvertCodeToChar(typed'[k])
      BY <1>7, <1>8, <2>1, <2>2
    <2>4. data'[size] = PS2ConvertCodeToChar(typed'[size + 1])
      BY <1>7, <1>8, <2>2
    <2>5. \A k \in 1..(size + 1) : k \in 1..size \/ k = size + 1
      BY <2>2
    <2>6. (size + 1) - 1 = size
      BY <2>2
    <2>7. \A k \in 1..(size + 1) : data'[k - 1] = PS2ConvertCodeToChar(typed'[k])
      BY <2>3, <2>4, <2>5, <2>6
    <2> QED BY <1>2, <1>7, <2>7 DEF LineText
  <1>10. spill' \in 0..(MaxKeys + 4) /\ (~reported' => spill' <= 4)
    <2>1. spill \in 0..(MaxKeys + 4) /\ (~reported => spill <= 4)
      BY <1>1 DEF TypeOK, SilentSpillBounded
    <2>2. size < MaxKeys /\ size \in Nat /\ Capacity \in Nat /\ MaxKeys \in Nat
      BY <1>0, <1>1, ShellFacts
    <2>3. spill' \in 0..(MaxKeys + 4)
      BY <1>2, <2>1, <2>2 DEF Larger
    <2>4. ASSUME ~reported' PROVE spill' <= 4
      <3>1. ~reported /\ ~(size > Capacity)
        BY <1>2, <2>4, Zenon
      <3> QED BY <1>2, <2>1, <2>2, <3>1 DEF Larger
    <2> QED BY <2>3, <2>4
  <1>11. astray' \in BOOLEAN /\ reported' \in BOOLEAN /\ lolmode' \in BOOLEAN /\ halted' \in BOOLEAN
    <2>1. lolmode \in BOOLEAN /\ halted \in BOOLEAN
      BY <1>1 DEF TypeOK
    <2> QED BY <1>2, <2>1, Zenon
  <1>12. TypeOK'
    <2>1. keys' \in 0..MaxKeys /\ size' <= keys' /\ size' \in Nat
      <3>1. keys \in Nat /\ MaxKeys \in Nat /\ size \in Nat /\ size <= keys
        BY <1>1, ShellFacts
      <3>2. keys < MaxKeys /\ keys' = keys + 1 /\ size' = size + 1
        BY <1>0, <1>2
      <3> QED BY <3>1, <3>2
    <2>2. promptY' \in -ShortMax..(ShortMax - 1)
      BY <1>1, <1>2, ShellFacts
    <2> QED BY <1>4, <1>5, <1>7, <1>8, <1>10, <1>11, <2>1, <2>2, <1>0 DEF TypeOK, Screens
  <1> QED BY <1>6, <1>9, <1>10, <1>12 DEF ShellInv, SilentSpillBounded

(* The backspace takes the last character off the line and the screen. *)
LEMMA BackspaceKeeps ==
  ASSUME ShellInv, Round, NEW key \in 1..128, Backspace(key)
  PROVE  ShellInv'
  <1>1. /\ TypeOK /\ LineText /\ CursorFollowsText /\ SilentSpillBounded
        /\ keys < MaxKeys /\ keys' = keys + 1 /\ event' \in [pressed : BOOLEAN, key : 1..128]
    BY DEF ShellInv, Round
  <1>2. /\ lolmode' = lolmode /\ halted' = halted /\ promptY' = promptY
        /\ spill' = spill /\ reported' = reported /\ data' = data
        /\ \/ /\ size < 1 /\ RenderCursor(cursorX, cursorY, screen)
              /\ size' = size /\ typed' = typed /\ astray' = astray
           \/ /\ ~(size < 1) /\ size' = size - 1 /\ typed' = SubSeq(typed, 1, Len(typed) - 1)
              /\ RenderCursor(cursorX - 1, cursorY,
                              TVMPrint(screen, At(cursorX, cursorY), <<Blank>>))
              /\ astray' = (astray \/ At(cursorX - 1, cursorY) < 0 \/ size >= Cells)
    BY DEF Backspace, NothingTyped, line, CtVectorPop, Strays
  <1> USE DEF Numbers
  <1>3. TVMPrint(screen, At(cursorX, cursorY), <<Blank>>) \in Screens
    <2>1. Blank \in Char
      BY DEF Blank, Char
    <2> QED BY <1>1, <2>1, ShellFacts, PrintingOne
  <1>4. PICK d \in {-1, 0} :
          /\ size' = size + d /\ screen' \in Screens /\ Settle(cursorX + d, cursorY)
          /\ d = -1 => size >= 1
    <2>1. CASE size < 1 /\ RenderCursor(cursorX, cursorY, screen) /\ size' = size
      <3>1. cursorX + 0 = cursorX /\ size + 0 = size
        BY <1>1, ShellFacts
      <3>2. screen' \in Screens /\ Settle(cursorX, cursorY)
        BY <1>1, <2>1, ShellFacts, Rendered
      <3> QED BY <2>1, <3>1, <3>2
    <2>2. CASE /\ ~(size < 1) /\ size' = size - 1
               /\ RenderCursor(cursorX - 1, cursorY,
                               TVMPrint(screen, At(cursorX, cursorY), <<Blank>>))
      <3>1. cursorX + (-1) = cursorX - 1 /\ size + (-1) = size - 1 /\ size >= 1
        BY <1>1, <2>2, ShellFacts
      <3>2. screen' \in Screens /\ Settle(cursorX - 1, cursorY)
        BY <1>1, <1>3, <2>2, ShellFacts, Rendered
      <3> QED BY <2>2, <3>1, <3>2
    <2> QED BY <1>2, <2>1, <2>2
  <1>5. /\ cursorX' \in -(Width - 1)..(Width - 1)
        /\ cursorY' \in -ShortMax..(ShortMax - 1)
    <2>1. cursorX + d \in -Width..Width
      BY <1>1, ShellFacts
    <2> QED BY <1>1, <1>4, <2>1, ShellFacts, Settled
  <1>6. CursorFollowsText'
    BY <1>1, <1>2, <1>4, FollowsStill
  <1>7. /\ typed \in Seq(1..128) /\ size = Len(typed) /\ size \in Nat
        /\ \A k \in 1..size : data[k - 1] = PS2ConvertCodeToChar(typed[k])
    BY <1>1 DEF TypeOK, LineText
  <1>8. /\ typed' \in Seq(1..128) /\ size' = Len(typed') /\ size' \in Nat /\ size' <= size
        /\ \A k \in 1..size' : k \in 1..size /\ typed'[k] = typed[k]
    <2>1. CASE typed' = typed /\ size' = size
      BY <1>7, <2>1
    <2>2. CASE typed' = SubSeq(typed, 1, size - 1) /\ size' = size - 1 /\ size >= 1
      <3>1. \A k \in 1..(size - 1) : typed[k] \in 1..128
        BY <1>7, ElementOfSeq, LenProperties
      <3>2. /\ typed' \in Seq(1..128)
            /\ Len(typed') = IF 1 <= size - 1 THEN (size - 1) - 1 + 1 ELSE 0
            /\ \A k \in 1..((size - 1) - 1 + 1) : typed'[k] = typed[1 + k - 1]
        BY <1>7, <2>2, <3>1, SubSeqProperties
      <3>3. Len(typed') = size - 1 /\ \A k \in 1..(size - 1) : typed'[k] = typed[k]
        BY <1>7, <2>2, <3>2
      <3> QED BY <1>7, <2>2, <3>2, <3>3
    <2> QED BY <1>2, <1>4, <1>7, <2>1, <2>2
  <1>9. LineText'
    BY <1>2, <1>7, <1>8 DEF LineText
  <1>10. astray' \in BOOLEAN
    BY <1>1, <1>2 DEF TypeOK
  <1>11. TypeOK'
    <2>1. keys' \in 0..MaxKeys /\ size' <= keys'
      <3>1. keys \in Nat /\ MaxKeys \in Nat /\ size \in Nat /\ size <= keys
        BY <1>1, ShellFacts
      <3> QED BY <1>1, <1>8, <3>1
    <2>2. promptY' \in -ShortMax..(ShortMax - 1) /\ spill' \in 0..(MaxKeys + 4)
          /\ data' \in [0..Bottom -> Char]
          /\ reported' \in BOOLEAN /\ lolmode' \in BOOLEAN /\ halted' \in BOOLEAN
      BY <1>1, <1>2 DEF TypeOK
    <2> QED BY <1>1, <1>4, <1>5, <1>8, <1>10, <2>1, <2>2 DEF TypeOK, Screens
  <1>12. SilentSpillBounded'
    BY <1>1, <1>2 DEF SilentSpillBounded
  <1> QED BY <1>6, <1>9, <1>11, <1>12 DEF ShellInv

(* A key that comes up only draws the cursor. *)
LEMMA IdleKeeps ==
  ASSUME ShellInv, Round, Idle
  PROVE  ShellInv'
  <1>1. /\ TypeOK /\ LineText /\ CursorFollowsText /\ SilentSpillBounded
        /\ keys < MaxKeys /\ keys' = keys + 1 /\ event' \in [pressed : BOOLEAN, key : 1..128]
    BY DEF ShellInv, Round
  <1>2. /\ RenderCursor(cursorX, cursorY, screen)
        /\ data' = data /\ size' = size /\ typed' = typed
        /\ UNCHANGED <<lolmode, halted, promptY, astray, spill, reported>>
    BY DEF Idle, line
  <1> USE DEF Numbers
  <1>3. screen' \in Screens /\ Settle(cursorX, cursorY)
    BY <1>1, <1>2, ShellFacts, Rendered
  <1>4. cursorX' = cursorX /\ cursorY' = cursorY
    BY <1>1, <1>3, ShellFacts, Settled
  <1>5. CursorFollowsText' /\ LineText' /\ SilentSpillBounded'
    BY <1>1, <1>2, <1>4 DEF CursorFollowsText, LineText, SilentSpillBounded
  <1>6. keys' \in 0..MaxKeys /\ size' <= keys'
    BY <1>1, <1>2, ShellFacts
  <1>7. TypeOK'
    BY <1>1, <1>2, <1>3, <1>4, <1>6 DEF TypeOK, Screens
  <1> QED BY <1>5, <1>7 DEF ShellInv

(* A prompt begins an empty line. *)
LEMMA PromptedKeeps ==
  ASSUME ShellInv, Round, NEW y \in Int, NEW scr \in Screens, Prompted(y, scr),
         lolmode' \in BOOLEAN, UNCHANGED <<halted, spill, reported>>
  PROVE  ShellInv'
  <1>1. /\ TypeOK /\ SilentSpillBounded
        /\ keys < MaxKeys /\ keys' = keys + 1 /\ event' \in [pressed : BOOLEAN, key : 1..128]
    BY DEF ShellInv, Round
  <1>2. /\ data' = [b \in DOMAIN data |-> IF b < size + 3 /\ size > 0 THEN 0 ELSE data[b]]
        /\ size' = 0 /\ typed' = <<>> /\ promptY' = Short(y + 1)
        /\ RenderCursor(3, promptY', RenderPrompt(y, scr))
        /\ astray' = (At(3, promptY') < 0)
    BY DEF Prompted, FlushInput
  <1> USE DEF Numbers
  <1>3. promptY' \in -ShortMax..(ShortMax - 1) /\ promptY' \in Int
    <2>1. y + 1 \in Int /\ ShortMax \in Nat
      BY Constants
    <2> QED BY <1>2, <2>1, Shorts
  <1>4. screen' \in Screens /\ Settle(3, promptY')
    <2>1. RenderPrompt(y, scr) \in Screens
      BY ScreensLeft
    <2>2. 3 \in Int
      OBVIOUS
    <2> QED BY <1>2, <1>3, <2>1, <2>2, Rendered
  <1>5. 3 \in -(Width - 1)..(Width - 1) /\ 3 \in -Width..Width
    BY Constants
  <1>6. cursorX' = 3 /\ cursorY' = promptY'
    BY <1>3, <1>4, <1>5, Settled
  <1>7. CursorFollowsText'
    <2> DEFINE n == 2 * ShortMax * Width
    <2>1. (3 + Width * promptY') - (Width * promptY' + 3 + size') = n * 0 /\ size' \in Int
      BY <1>2, <1>3, Constants
    <2> QED BY <1>3, <1>4, <1>5, <2>1, Follows
  <1>8. data' \in [0..Bottom -> Char]
    <2>1. 0 \in Char /\ data \in [0..Bottom -> Char]
      BY <1>1 DEF Char, TypeOK
    <2> QED BY <1>2, <2>1
  <1>9. typed' \in Seq(1..128) /\ Len(typed') = 0
    BY <1>2
  <1>10. LineText' /\ SilentSpillBounded'
    BY <1>1, <1>2, <1>9 DEF LineText, SilentSpillBounded
  <1>11. TypeOK'
    <2>1. keys' \in 0..MaxKeys /\ size' \in Nat /\ size' <= keys'
      <3>1. keys \in Nat /\ MaxKeys \in Nat
        BY <1>1, ShellFacts
      <3> QED BY <1>1, <1>2, <3>1
    <2>2. spill' \in 0..(MaxKeys + 4) /\ reported' \in BOOLEAN /\ halted' \in BOOLEAN
      BY <1>1 DEF TypeOK
    <2>3. astray' \in BOOLEAN
      BY <1>2
    <2> QED BY <1>1, <1>3, <1>4, <1>5, <1>6, <1>8, <1>9, <2>1, <2>2, <2>3 DEF TypeOK, Screens
  <1> QED BY <1>7, <1>10, <1>11 DEF ShellInv

(* A panic leaves the line as it is. *)
LEMMA PanicKeeps ==
  ASSUME ShellInv, Round, Panic, UNCHANGED <<spill, reported>>
  PROVE  ShellInv'
  <1>1. /\ TypeOK /\ LineText /\ CursorFollowsText /\ SilentSpillBounded
        /\ keys < MaxKeys /\ keys' = keys + 1 /\ event' \in [pressed : BOOLEAN, key : 1..128]
    BY DEF ShellInv, Round
  <1>2. /\ data' = data /\ size' = size /\ typed' = typed
        /\ halted' = TRUE /\ UNCHANGED <<cursorX, cursorY, lolmode, promptY, astray>>
    BY DEF Panic, line
  <1>3. screen' \in Screens
    <2>1. Cleared(screen) \in Screens /\ Output \in Char
      BY <1>1, ShellFacts, ScreensLeft DEF Output, Char
    <2> QED BY <2>1 DEF Panic, Screens
  <1>4. CursorFollowsText' /\ LineText' /\ SilentSpillBounded'
    BY <1>1, <1>2 DEF CursorFollowsText, LineText, SilentSpillBounded
  <1>5. keys' \in 0..MaxKeys /\ size' <= keys'
    BY <1>1, <1>2, ShellFacts DEF Numbers
  <1>6. TypeOK'
    BY <1>1, <1>2, <1>3, <1>5 DEF TypeOK, Screens
  <1> QED BY <1>4, <1>6 DEF ShellInv

(* What the enter key comes to: the screen and the row a prompt follows, or*)
(* a panic.                                                                *)
LEMMA Entered ==
  ASSUME TypeOK, NEW key \in 1..128, Enter(key)
  PROVE  /\ spill' = spill /\ reported' = reported
         /\ \/ Panic
            \/ /\ \E y \in Int, scr \in Screens : Prompted(y, scr)
               /\ lolmode' \in BOOLEAN /\ halted' = halted
  <1> DEFINE scr0 == TVMPrint(screen, At(cursorX, cursorY), <<Blank>>)
  <1>1. scr0 \in Screens
    <2>1. Blank \in Char
      BY DEF Blank, Char
    <2> QED BY <2>1, ShellFacts, PrintingOne
  <1>2. spill' = spill /\ reported' = reported
    BY DEF Enter
  <1>3. \/ Prompted(cursorY, scr0) /\ lolmode' = lolmode /\ halted' = halted
        \/ InterpretCommand(scr0)
        \/ Panic
    BY DEF Enter
  <1> HIDE DEF scr0
  <1>4. cursorY \in Int /\ lolmode \in BOOLEAN
    BY ShellFacts DEF TypeOK
  <1>5. ASSUME InterpretCommand(scr0)
        PROVE  /\ \E y \in Int, scr \in Screens : Prompted(y, scr)
               /\ lolmode' \in BOOLEAN /\ halted' = halted
    <2>1. PICK answer \in Answers :
            /\ lolmode' = IF answer = "lol" THEN ~lolmode ELSE lolmode
            /\ IF answer = "clear"
               THEN Prompted(-1, Cleared(scr0))
               ELSE Prompted(Short(cursorY + LinesOf(answer)),
                             Printed(scr0, cursorY, LinesOf(answer)))
            /\ halted' = halted
      BY <1>5 DEF InterpretCommand
    <2>2. LinesOf(answer) \in Nat
      BY DEF LinesOf, Answers
    <2>3. Short(cursorY + LinesOf(answer)) \in Int
      <3>1. cursorY + LinesOf(answer) \in Int
        BY <1>4, <2>2
      <3> QED BY <3>1, Shorts, Constants DEF Numbers
    <2>4. Cleared(scr0) \in Screens /\ Printed(scr0, cursorY, LinesOf(answer)) \in Screens
      BY <1>1, <1>4, <2>2, ScreensLeft
    <2>5. -1 \in Int
      OBVIOUS
    <2>6. lolmode' \in BOOLEAN
      BY <1>4, <2>1
    <2>7. \E y \in Int, scr \in Screens : Prompted(y, scr)
      BY <2>1, <2>3, <2>4, <2>5, Zenon
    <2> QED BY <2>1, <2>6, <2>7
  <1> QED BY <1>1, <1>2, <1>3, <1>4, <1>5, Zenon

(* Every round of the loop is one of these. *)
LEMMA Rounds ==
  ASSUME Next
  PROVE  /\ Round
         /\ \/ \E key \in 1..128 : Type(key) \/ Backspace(key) \/ Enter(key)
            \/ Idle
  <1>1. PICK code \in Scancodes : event' = EventOf(code) /\ Handle(event')
    BY DEF Next
  <1>2. event' \in [pressed : BOOLEAN, key : 1..128]
    BY <1>1, EventOfByte
  <1>3. Round
    BY <1>2 DEF Next, Round
  <1> QED BY <1>1, <1>2, <1>3 DEF Handle, ReadCommand

(* Every step keeps the invariant. *)
LEMMA ShellNext == ShellInv /\ [Next]_vars => ShellInv'
  <1> SUFFICES ASSUME ShellInv, [Next]_vars PROVE ShellInv'
    OBVIOUS
  <1>1. CASE UNCHANGED vars
    BY <1>1 DEF vars, line, ShellInv, TypeOK, LineText, CursorFollowsText, SilentSpillBounded
  <1>2. CASE Next
    <2>1. /\ Round
          /\ \/ \E key \in 1..128 : Type(key) \/ Backspace(key) \/ Enter(key)
             \/ Idle
      BY <1>2, Rounds
    <2>2. ASSUME NEW key \in 1..128, Enter(key) PROVE ShellInv'
      BY <2>1, <2>2, Entered, PromptedKeeps, PanicKeeps DEF ShellInv
    <2> QED BY <2>1, <2>2, TypeKeeps, BackspaceKeeps, IdleKeeps
  <1> QED BY <1>1, <1>2

(* The shell starts with a prompt. *)
LEMMA ShellInit == Init => ShellInv
  <1> SUFFICES ASSUME Init PROVE ShellInv
    OBVIOUS
  <1> USE Constants DEF Numbers
  <1>1. /\ cursorX = 3 /\ cursorY = 0 /\ promptY = 0
        /\ data = [b \in 0..Bottom |-> 0] /\ size = 0 /\ typed = <<>>
        /\ lolmode = FALSE /\ halted = FALSE /\ keys = 0 /\ event = EventOf(129)
        /\ astray = FALSE /\ spill = 0 /\ reported = FALSE
        /\ screen = TVMPrint([p \in 0..(Cells - 1) |-> Blank], 0, PromptCells)
    BY DEF Init
  <1>2. screen \in Screens
    <2>1. [p \in 0..(Cells - 1) |-> Blank] \in Screens
      BY DEF Screens, Blank, Char
    <2>2. PromptCells \in Seq(Char)
      BY DEF PromptCells, Prompt, Char
    <2> QED BY <1>1, <2>1, <2>2, Printing
  <1>3. data \in [0..Bottom -> Char]
    BY <1>1 DEF Char
  <1>4. typed \in Seq(1..128) /\ Len(typed) = 0
    BY <1>1
  <1>5. event \in [pressed : BOOLEAN, key : 1..128]
    BY <1>1 DEF EventOf
  <1>6. TypeOK
    <2>1. /\ 3 \in -(Width - 1)..(Width - 1) /\ 0 \in -ShortMax..(ShortMax - 1)
          /\ 0 \in 0..MaxKeys /\ 0 \in 0..(MaxKeys + 4)
      OBVIOUS
    <2> QED BY <1>1, <1>2, <1>3, <1>4, <1>5, <2>1 DEF TypeOK, Screens
  <1>7. CursorFollowsText
    <2>1. (3 + Width * 0) - (Width * 0 + 3 + 0) = (2 * ShortMax * Width) * 0
      OBVIOUS
    <2>2. ((cursorX + Width * cursorY) - (Width * promptY + 3 + size)) = 0
      BY <1>1, <2>1
    <2>3. 0 = (2 * ShortMax * Width) * 0 /\ 0 \in Int
      OBVIOUS
    <2> QED BY <2>2, <2>3, Multiple DEF CursorFollowsText
  <1>8. LineText /\ SilentSpillBounded
    BY <1>1, <1>4 DEF LineText, SilentSpillBounded
  <1> QED BY <1>6, <1>7, <1>8 DEF ShellInv

-----------------------------------------------------------------------------
(* What the screen shows of the line. *)
Text == Width * promptY + 2

Shown ==
  \A k \in 1..size : screen[(Text + k) % Cells] = PS2ConvertCodeToChar(typed[k])

(* The cursor is in the cell after the line, or has just been wrapped into *)
(* a row that counts as negative, out of which it only goes astray.        *)
CursorAfter ==
  /\ At(cursorX, cursorY) < 0 => cursorX = 0
  /\ At(cursorX, cursorY) >= 0 =>
       (At(cursorX, cursorY) - (Text + (size + 1))) % Cells = 0

(* The inductive invariant of what the screen shows. *)
Echoed == ~astray /\ ~halted => size < Cells /\ Shown /\ CursorAfter

(* The same with the multiple of the screen's cells named. *)
LEMMA Wraps ==
  ASSUME NEW v \in Int, NEW t \in Int
  PROVE  (v - t) % Cells = 0 <=> \E q \in Int : v = t + Cells * q
  <1>1. Cells \in Nat /\ Cells > 0 /\ v - t \in Int
    BY Constants DEF Numbers
  <1>2. \A q \in Int : v - t = Cells * q <=> v = t + Cells * q
    <2> SUFFICES ASSUME NEW q \in Int PROVE v - t = Cells * q <=> v = t + Cells * q
      OBVIOUS
    <2>1. Cells * q \in Int
      BY <1>1
    <2> QED BY <2>1
  <1> QED BY <1>1, <1>2, Multiple

(* The offset of a row, whose sign is that of its number. *)
LEMMA RowOffset ==
  ASSUME NEW y \in Int
  PROVE  \E e, q \in Int :
           /\ Rem(y * Width, Cells) = Width * e /\ e < Height /\ -Height < e
           /\ y = Height * q + e
           /\ (y >= 0 => e >= 0) /\ (y <= 0 => e <= 0)
  <1>1. Width \in Nat /\ Height \in Nat /\ Height > 0 /\ Width > 0 /\ Cells = Width * Height
        /\ Cells \in Nat /\ Cells > 0
    BY Constants DEF Numbers, Cells
  <1>2. ASSUME NEW z \in Nat
        PROVE  \E e, q \in Int : /\ (z * Width) % Cells = Width * e /\ e < Height /\ 0 <= e
                                 /\ z = Height * q + e
    <2> DEFINE q == z \div Height
               e == z % Height
    <2>1. q \in Int /\ e \in 0..(Height - 1) /\ z = Height * q + e
      BY <1>1, DivMod
    <2> HIDE DEF q, e
    <2>2. \A W, H, a, b \in Int : (H * a + b) * W = (W * H) * a + W * b
      OBVIOUS
    <2>3. z * Width = Cells * q + Width * e
      BY <1>1, <2>1, <2>2
    <2>4. Width * e \in Int /\ Width * e >= 0
      BY <1>1, <2>1
    <2>5. Width * Height >= Width * e + Width
      BY <1>1, <2>1, Steps
    <2>6. Width * e \in 0..(Cells - 1)
      BY <1>1, <2>4, <2>5
    <2>7. z * Width \in Int
      BY <1>1
    <2>8. (z * Width) % Cells = Width * e
      BY <1>1, <2>1, <2>3, <2>6, <2>7, Unique
    <2>9. e \in Int /\ e < Height /\ 0 <= e
      BY <1>1, <2>1
    <2> QED BY <2>1, <2>8, <2>9, Zenon
  <1>3. CASE y >= 0
    <2>1. PICK e \in Int, q \in Int : /\ (y * Width) % Cells = Width * e /\ e < Height /\ 0 <= e
                                      /\ y = Height * q + e
      BY <1>2, <1>3
    <2>2. ~(y * Width < 0)
      BY <1>1, <1>3
    <2>3. Rem(y * Width, Cells) = Width * e
      BY <2>1, <2>2 DEF Rem
    <2>4. y <= 0 => e <= 0
      <3>1. q < 0 => Height * 0 >= Height * q + Height
        BY <1>1, Steps
      <3>2. q >= 0 => Height * q >= 0
        BY <1>1
      <3>3. Height * q \in Int /\ Height * 0 = 0
        BY <1>1
      <3> QED BY <1>1, <1>3, <2>1, <3>1, <3>2, <3>3
    <2>5. -Height < e
      BY <1>1, <2>1
    <2> QED BY <1>3, <2>1, <2>3, <2>4, <2>5
  <1>4. CASE y < 0
    <2>1. -y \in Nat
      BY <1>4
    <2>2. PICK e \in Int, q \in Int : /\ ((-y) * Width) % Cells = Width * e /\ e < Height /\ 0 <= e
                                      /\ -y = Height * q + e
      BY <1>2, <2>1
    <2>3. y * Width < 0 /\ -(y * Width) = (-y) * Width
      BY <1>1, <1>4
    <2>4. Rem(y * Width, Cells) = -(((-y) * Width) % Cells)
      BY <2>3 DEF Rem
    <2>5. Rem(y * Width, Cells) = Width * (-e)
      BY <1>1, <2>2, <2>4
    <2>6. y = Height * (-q) + (-e)
      BY <1>1, <2>2
    <2>7. -e \in Int /\ -q \in Int /\ -e <= 0 /\ -Height < -e /\ -e < Height
      BY <1>1, <2>2
    <2> QED BY <1>4, <2>5, <2>6, <2>7
  <1> QED BY <1>3, <1>4

(* Where a cursor is drawn. *)
LEMMA CursorCell ==
  ASSUME NEW y \in Int
  PROVE  /\ \A x, d \in Int : At(x, y) \in Int /\ At(x + d, y) = At(x, y) + d
         /\ \A x \in Int : \E q \in Int : At(x, y) = (x + Width * y) + Cells * q
         /\ \A x \in -(Width - 1)..(Width - 1) : At(x, y) <= Cells - 1
         /\ At(0, y) < 0 => At(1, y) < 0 /\ At(-1, y) < 0
         /\ y <= 0 => At(-Width, y) < 0
         /\ y <= 0 /\ At(0, y) >= 0 => \E q \in Int : Width * y = Cells * q
  <1>1. /\ Width \in Nat /\ Height \in Nat /\ Height > 0 /\ Width > 3 /\ Cells = Width * Height
        /\ Cells \in Nat /\ Cells > 0
    BY Constants DEF Numbers, Cells
  <1> DEFINE r == Rem(y * Width, Cells)
  <1>2. PICK e \in Int, q \in Int :
           /\ r = Width * e /\ e < Height /\ -Height < e
           /\ y = Height * q + e
           /\ (y >= 0 => e >= 0) /\ (y <= 0 => e <= 0)
    BY RowOffset
  <1>3. \A x : At(x, y) = x + r
    BY DEF At
  <1> HIDE DEF r
  <1>4. r \in Int /\ Cells >= r + Width /\ (r < 0 => r <= -Width) /\ (e <= 0 => r <= 0)
        /\ (e <= 0 /\ r >= 0 => e = 0)
    <2>1. r \in Int
      BY <1>1, <1>2
    <2>2. Width * Height >= Width * e + Width
      BY <1>1, <1>2, Steps
    <2>3. e > 0 => Width * e >= Width * 0 + Width
      BY <1>1, Steps
    <2>4. e < 0 => Width * 0 >= Width * e + Width
      BY <1>1, Steps
    <2>5. Width * 0 = 0
      BY <1>1
    <2>6. e = 0 => r = 0
      BY <1>1, <1>2
    <2> QED BY <1>1, <1>2, <2>1, <2>2, <2>3, <2>4, <2>5, <2>6
  <1>5. Width * y = Cells * q + r
    <2>1. \A W, H, a, b \in Int : W * (H * a + b) = (W * H) * a + W * b
      OBVIOUS
    <2> QED BY <1>1, <1>2, <2>1
  <1>6. \A x, d \in Int : At(x, y) \in Int /\ At(x + d, y) = At(x, y) + d
    BY <1>3, <1>4
  <1>7. \A x \in Int : \E p \in Int : At(x, y) = (x + Width * y) + Cells * p
    <2> SUFFICES ASSUME NEW x \in Int
                 PROVE  \E p \in Int : At(x, y) = (x + Width * y) + Cells * p
      OBVIOUS
    <2>1. Cells * (-q) = -(Cells * q) /\ Cells * q \in Int /\ -q \in Int
      BY <1>1, <1>2
    <2>2. At(x, y) = (x + Width * y) + Cells * (-q)
      BY <1>3, <1>4, <1>5, <2>1
    <2> QED BY <2>1, <2>2
  <1>8. \A x \in -(Width - 1)..(Width - 1) : At(x, y) <= Cells - 1
    BY <1>1, <1>3, <1>4
  <1>9. At(0, y) < 0 => At(1, y) < 0 /\ At(-1, y) < 0
    BY <1>1, <1>3, <1>4
  <1>10. y <= 0 => At(-Width, y) < 0
    BY <1>1, <1>2, <1>3, <1>4
  <1>11. y <= 0 /\ At(0, y) >= 0 => \E p \in Int : Width * y = Cells * p
    <2>1. y <= 0 /\ At(0, y) >= 0 => r = 0
      BY <1>2, <1>3, <1>4
    <2>2. r = 0 => Width * y = Cells * q
      <3>1. Cells * q \in Int
        BY <1>1, <1>2
      <3> QED BY <1>5, <3>1
    <2> QED BY <2>1, <2>2
  <1> QED BY <1>6, <1>7, <1>8, <1>9, <1>10, <1>11

(* A cell after the line is none of the line's, as long as the line does   *)
(* not come round the screen.                                              *)
LEMMA Away ==
  ASSUME NEW t \in Int, NEW n \in Nat, n < Cells, NEW v \in Int,
         v >= 0 => \E q \in Int : v = t + (n + 1) + Cells * q
  PROVE  \A k \in 1..n : (t + k) % Cells # v
  <1>1. Cells \in Nat /\ Cells > 0
    BY Constants DEF Numbers
  <1> SUFFICES ASSUME NEW k \in 1..n, (t + k) % Cells = v PROVE FALSE
    OBVIOUS
  <1>2. t + k \in Int /\ k \in Int
    OBVIOUS
  <1>3. PICK a \in Int : t + k = Cells * a + v /\ v >= 0
    <2>1. (t + k) \div Cells \in Int /\ t + k = Cells * ((t + k) \div Cells) + v /\ v \in 0..(Cells - 1)
      BY <1>1, <1>2, DivMod
    <2> QED BY <2>1
  <1>4. PICK q \in Int : v = t + (n + 1) + Cells * q
    BY <1>3
  <1>5. (n + 1) - k = Cells * (-(a + q)) /\ -(a + q) \in Int
    BY <1>1, <1>2, <1>3, <1>4
  <1> DEFINE b == -(a + q)
  <1> HIDE DEF b
  <1>6. (n + 1) - k \in 1..(Cells - 1) /\ (n + 1) - k = Cells * b /\ b \in Int
    BY <1>1, <1>2, <1>5 DEF b
  <1>7. b > 0 => Cells * b >= Cells * 0 + Cells
    BY <1>1, <1>6, Steps
  <1>8. b < 0 => Cells * 0 >= Cells * b + Cells
    BY <1>1, <1>6, Steps
  <1>9. b = 0 => Cells * b = 0
    BY <1>1
  <1>10. Cells * 0 = 0 /\ Cells * b \in Int
    BY <1>1, <1>6
  <1> QED BY <1>1, <1>6, <1>7, <1>8, <1>9, <1>10

(* The cursor that moves with the line, off no cell of the screen to above *)
(* it, stays after the line.                                               *)
LEMMA Moved ==
  ASSUME TypeOK, CursorAfter, NEW d \in -1..1, Settle(cursorX + d, cursorY),
         d # 0 => At(cursorX + d, cursorY) >= 0, promptY' = promptY, size' = size + d
  PROVE  /\ d # 0 => At(cursorX, cursorY) >= 0
         /\ CursorAfter'
  <1> USE ShellFacts DEF Numbers
  <1>1. /\ Cells \in Nat /\ Cells > 0 /\ Text \in Int /\ Text' = Text
        /\ cursorX + d \in -Width..Width /\ d \in {-1, 0, 1}
        /\ At(cursorX + d, cursorY) = At(cursorX, cursorY) + d
        /\ At(cursorX, cursorY) \in Int /\ Width * cursorY \in Int
    <2>1. d \in Int /\ cursorX \in Int /\ cursorY \in Int /\ promptY \in Int
      OBVIOUS
    <2>2. At(cursorX + d, cursorY) = At(cursorX, cursorY) + d /\ At(cursorX, cursorY) \in Int
      <3>1. \A x, e \in Int : At(x, cursorY) \in Int /\ At(x + e, cursorY) = At(x, cursorY) + e
        BY <2>1, CursorCell
      <3> QED BY <2>1, <3>1
    <2>3. Cells > 0 /\ cursorX + d \in -Width..Width /\ d \in {-1, 0, 1}
      OBVIOUS
    <2>4. Text \in Int /\ Width * cursorY \in Int
      BY <2>1 DEF Text
    <2>5. Text' = Text
      BY DEF Text
    <2> QED BY <2>2, <2>3, <2>4, <2>5
  <1>2. d # 0 => At(cursorX, cursorY) >= 0
    <2> SUFFICES ASSUME d # 0, ~(At(cursorX, cursorY) >= 0) PROVE FALSE
      OBVIOUS
    <2>1. cursorX = 0
      BY <1>1 DEF CursorAfter
    <2>2. At(0, cursorY) < 0
      BY <1>1, <2>1
    <2>3. At(1, cursorY) < 0 /\ At(-1, cursorY) < 0
      BY <2>2, CursorCell
    <2>4. cursorX + d = d /\ (d = 1 \/ d = -1)
      BY <1>1, <2>1
    <2>5. At(d, cursorY) < 0 /\ At(d, cursorY) >= 0
      BY <2>3, <2>4
    <2>6. At(d, cursorY) \in Int
      BY CursorCell, <2>4, <1>1
    <2> QED BY <2>5, <2>6
  <1>3. At(cursorX, cursorY) >= 0 =>
          \E q \in Int : At(cursorX, cursorY) = Text + (size + 1) + Cells * q
    <2>1. Text + (size + 1) \in Int
      BY <1>1
    <2>2. At(cursorX, cursorY) >= 0 => (At(cursorX, cursorY) - (Text + (size + 1))) % Cells = 0
      BY DEF CursorAfter
    <2> QED BY <1>1, <2>1, <2>2, Wraps
  <1>4. CASE cursorX + d \in -(Width - 1)..(Width - 1)
    <2>1. cursorX' = cursorX + d /\ cursorY' = cursorY
      BY <1>1, <1>4, Settled
    <2>2. At(cursorX', cursorY') = At(cursorX, cursorY) + d
      BY <1>1, <2>1
    <2>3. At(cursorX', cursorY') < 0 => cursorX' = 0
      <3>1. CASE d = 0
        BY <1>1, <2>1, <2>2, <3>1 DEF CursorAfter
      <3>2. CASE d # 0
        BY <1>1, <2>1, <2>2, <3>2
      <3> QED BY <3>1, <3>2
    <2>4. ASSUME At(cursorX', cursorY') >= 0
          PROVE  (At(cursorX', cursorY') - (Text + (size' + 1))) % Cells = 0
      <3>1. At(cursorX, cursorY) >= 0
        BY <1>1, <1>2, <2>2, <2>4
      <3>2. (At(cursorX, cursorY) - (Text + (size + 1))) % Cells = 0
        BY <3>1 DEF CursorAfter
      <3>3. At(cursorX', cursorY') - (Text + (size' + 1)) = At(cursorX, cursorY) - (Text + (size + 1))
        BY <1>1, <2>2
      <3> QED BY <3>2, <3>3
    <2>5. At(cursorX', cursorY') >= 0 =>
            (At(cursorX', cursorY') - (Text' + (size' + 1))) % Cells = 0
      BY <1>1, <2>4
    <2> QED BY <1>2, <2>3, <2>5 DEF CursorAfter
  <1>5. CASE cursorX + d \notin -(Width - 1)..(Width - 1)
    <2>1. /\ d # 0 /\ At(cursorX, cursorY) >= 0 /\ At(cursorX + d, cursorY) >= 0
          /\ cursorX + d = Width \/ cursorX + d = -Width
      <3>1. cursorX + d = Width \/ cursorX + d = -Width
        BY <1>1, <1>5
      <3>2. d # 0
        BY <1>1, <1>5
      <3> QED BY <1>2, <3>1, <3>2
    <2>2. PICK p \in Int : At(cursorX, cursorY) = Text + (size + 1) + Cells * p
      BY <1>3, <2>1
    <2>3. PICK q \in Int : At(cursorX, cursorY) = (cursorX + Width * cursorY) + Cells * q
      BY CursorCell
    <2>4. (cursorX + d) + Width * cursorY = Text + (size' + 1) + (Cells * p - Cells * q)
      <3>1. Cells * p \in Int /\ Cells * q \in Int
        BY <1>1
      <3>2. cursorX \in Int /\ size \in Int /\ size' = size + d /\ d \in Int
        OBVIOUS
      <3> QED BY <1>1, <2>2, <2>3, <3>1, <3>2
    <2>5. /\ cursorX' = 0 /\ cursorY' \in Int
          /\ At(0, cursorY') >= 0 =>
               \E j \in Int : At(0, cursorY') = (cursorX + d) + Width * cursorY + Cells * j
      <3>1. CASE cursorX + d = Width
        <4>1. cursorX' = 0 /\ cursorY' = IF cursorY = ShortMax - 1 THEN -ShortMax ELSE cursorY + 1
          BY <3>1, <1>1, Settled
        <4>2. CASE cursorY # ShortMax - 1
          <5>1. cursorY' = cursorY + 1 /\ cursorY + 1 \in Int
            BY <4>1, <4>2
          <5>2. PICK j \in Int : At(0, cursorY + 1) = (0 + Width * (cursorY + 1)) + Cells * j
            BY <5>1, CursorCell
          <5>3. 0 + Width * (cursorY + 1) = Width + Width * cursorY
            OBVIOUS
          <5>4. At(0, cursorY') = (cursorX + d) + Width * cursorY + Cells * j
            BY <3>1, <5>1, <5>2, <5>3
          <5> QED BY <4>1, <5>1, <5>4
        <4>3. CASE cursorY = ShortMax - 1
          <5>1. cursorX' = 0 /\ cursorY' = -ShortMax /\ -ShortMax \in Int /\ -ShortMax <= 0
            BY <4>1, <4>3
          <5>2. ASSUME At(0, cursorY') >= 0
                PROVE  \E j \in Int : At(0, cursorY') = (cursorX + d) + Width * cursorY + Cells * j
            <6>1. PICK i \in Int : Width * (-ShortMax) = Cells * i
              BY <5>1, <5>2, CursorCell
            <6>2. PICK j \in Int : At(0, -ShortMax) = (0 + Width * (-ShortMax)) + Cells * j
              BY <5>1, CursorCell
            <6>3. Width + Width * cursorY = -(Width * (-ShortMax))
              BY <4>3
            <6>4. (cursorX + d) + Width * cursorY = -(Cells * i)
              BY <3>1, <6>1, <6>3
            <6>5. /\ Cells * i \in Int /\ Cells * j \in Int /\ j + 2 * i \in Int
                  /\ Cells * (j + 2 * i) = Cells * j + 2 * (Cells * i)
              BY <1>1
            <6>6. At(0, -ShortMax) = (Cells * i) + Cells * j
              BY <6>1, <6>2, <6>5
            <6>7. At(0, cursorY') = (cursorX + d) + Width * cursorY + Cells * (j + 2 * i)
              BY <5>1, <6>4, <6>5, <6>6
            <6> QED BY <6>5, <6>7
          <5> QED BY <5>1, <5>2
        <4> QED BY <4>2, <4>3
      <3>2. CASE cursorX + d = -Width
        <4>1. cursorX' = 0 /\ cursorY' = IF cursorY = -ShortMax THEN ShortMax - 1 ELSE cursorY - 1
          BY <3>2, <1>1, Settled
        <4>2. At(-Width, cursorY) >= 0
          BY <2>1, <3>2
        <4>3. cursorY > 0
          <5>1. cursorY \in Int /\ -Width \in Int
            OBVIOUS
          <5>2. At(-Width, cursorY) \in Int
            BY <5>1, CursorCell
          <5>3. cursorY <= 0 => At(-Width, cursorY) < 0
            BY <5>1, CursorCell
          <5> QED BY <4>2, <5>1, <5>2, <5>3
        <4>4. cursorY' = cursorY - 1 /\ cursorY - 1 \in Int
          BY <4>1, <4>3
        <4>5. PICK j \in Int : At(0, cursorY - 1) = (0 + Width * (cursorY - 1)) + Cells * j
          BY <4>4, CursorCell
        <4>6. 0 + Width * (cursorY - 1) = (-Width) + Width * cursorY
          OBVIOUS
        <4>7. At(0, cursorY') = (cursorX + d) + Width * cursorY + Cells * j
          BY <3>2, <4>4, <4>5, <4>6
        <4> QED BY <4>1, <4>4, <4>7
      <3> QED BY <2>1, <3>1, <3>2
    <2>6. ASSUME At(cursorX', cursorY') >= 0
          PROVE  (At(cursorX', cursorY') - (Text + (size' + 1))) % Cells = 0
      <3>1. PICK j \in Int : At(0, cursorY') = (cursorX + d) + Width * cursorY + Cells * j
        BY <2>5, <2>6
      <3>2. /\ Cells * p \in Int /\ Cells * q \in Int /\ Cells * j \in Int /\ p - q + j \in Int
            /\ Cells * (p - q + j) = Cells * p - Cells * q + Cells * j
        BY <1>1
      <3>3. At(0, cursorY') = (Text + (size' + 1)) + Cells * (p - q + j)
        BY <1>1, <2>4, <3>1, <3>2
      <3>4. At(0, cursorY') \in Int /\ Text + (size' + 1) \in Int
        <4>1. size' \in Int
          OBVIOUS
        <4>2. At(0, cursorY') \in Int
          BY <2>5, Offsets
        <4> QED BY <1>1, <4>1, <4>2
      <3>5. (At(0, cursorY') - (Text + (size' + 1))) % Cells = 0
        BY <3>2, <3>3, <3>4, Wraps
      <3> QED BY <2>5, <3>5
    <2>7. At(cursorX', cursorY') >= 0 =>
            (At(cursorX', cursorY') - (Text' + (size' + 1))) % Cells = 0
      BY <1>1, <2>6
    <2> QED BY <1>2, <2>5, <2>7 DEF CursorAfter
  <1> QED BY <1>2, <1>4, <1>5

(* The line on the screen has one cell for every character, and the cells  *)
(* written by a key beyond the line leave it alone.                        *)
LEMMA ShownStays ==
  ASSUME NEW n \in Nat, n <= size, n < Cells, Shown, TypeOK, promptY' = promptY, size' = n,
         \A k \in 1..n : typed'[k] = typed[k],
         \A k \in 1..n : screen'[(Text + k) % Cells] = screen[(Text + k) % Cells]
  PROVE  Shown'
  <1>1. size \in Nat /\ \A k \in 1..n : k \in 1..size
    BY ShellFacts
  <1>2. Text' = Text
    BY DEF Text
  <1>3. \A k \in 1..n : screen'[(Text + k) % Cells] = PS2ConvertCodeToChar(typed'[k])
    BY <1>1 DEF Shown
  <1> QED BY <1>2, <1>3 DEF Shown

(* Every cell of the line is one of the screen. *)
LEMMA LineCells ==
  ASSUME TypeOK
  PROVE  /\ Text \in Int /\ Cells \in Nat /\ Cells > 0
         /\ \A k \in Int : (Text + k) % Cells \in 0..(Cells - 1)
  <1>1. Width \in Nat /\ promptY \in Int /\ Cells \in Nat /\ Cells > 0
    BY ShellFacts DEF Numbers
  <1>2. Text \in Int
    BY <1>1 DEF Text
  <1>3. ASSUME NEW k \in Int PROVE (Text + k) % Cells \in 0..(Cells - 1)
    <2>1. Text + k \in Int
      BY <1>2
    <2> QED BY <1>1, <2>1, DivMod
  <1> QED BY <1>1, <1>2, <1>3

(* Where the cursor is on the screen, as a cell after the line. *)
LEMMA CursorAt ==
  ASSUME TypeOK, CursorAfter
  PROVE  /\ At(cursorX, cursorY) \in Int /\ At(cursorX, cursorY) <= Cells - 1
         /\ \A d \in Int : At(cursorX + d, cursorY) = At(cursorX, cursorY) + d
         /\ At(cursorX, cursorY) >= 0 =>
              /\ At(cursorX, cursorY) = (Text + (size + 1)) % Cells
              /\ \E q \in Int : At(cursorX, cursorY) = Text + (size + 1) + Cells * q
  <1>1. /\ cursorX \in -(Width - 1)..(Width - 1) /\ cursorX \in Int /\ cursorY \in Int /\ size \in Int
    BY ShellFacts
  <1>2. Text \in Int /\ Cells \in Nat /\ Cells > 0 /\ Text + (size + 1) \in Int
    BY <1>1, LineCells
  <1> DEFINE v == At(cursorX, cursorY)
  <1>3. /\ \A x, d \in Int : At(x, cursorY) \in Int /\ At(x + d, cursorY) = At(x, cursorY) + d
        /\ \A x \in -(Width - 1)..(Width - 1) : At(x, cursorY) <= Cells - 1
    BY <1>1, CursorCell
  <1>4. v \in Int /\ v <= Cells - 1
        /\ \A d \in Int : At(cursorX + d, cursorY) = At(cursorX, cursorY) + d
    BY <1>1, <1>3
  <1>5. v >= 0 => (v - (Text + (size + 1))) % Cells = 0
    BY DEF CursorAfter
  <1> HIDE DEF v
  <1>6. v >= 0 => \E q \in Int : v = Text + (size + 1) + Cells * q
    BY <1>2, <1>4, <1>5, Wraps
  <1>7. ASSUME v >= 0 PROVE v = (Text + (size + 1)) % Cells
    <2>1. PICK q \in Int : v = Text + (size + 1) + Cells * q
      BY <1>6, <1>7
    <2>2. Cells * (-q) = -(Cells * q) /\ Cells * q \in Int /\ -q \in Int
      BY <1>2
    <2>3. Text + (size + 1) = Cells * (-q) + v /\ v \in 0..(Cells - 1)
      BY <1>2, <1>4, <1>7, <2>1, <2>2
    <2> QED BY <1>2, <2>2, <2>3, Unique
  <1> QED BY <1>4, <1>6, <1>7 DEF v

(* A typed character is shown after the line. *)
LEMMA TypeEchoes ==
  ASSUME TypeOK, LineText, Echoed, NEW key \in 1..128, Type(key)
  PROVE  Echoed'
  <1> DEFINE c == PS2ConvertCodeToChar(key)
             scr == TVMPrint(screen, Echo, <<c>>)
             v == At(cursorX, cursorY)
  <1> SUFFICES ASSUME ~astray', ~halted' PROVE size' < Cells /\ Shown' /\ CursorAfter'
    BY DEF Echoed
  <1>1. /\ size' = size + 1 /\ typed' = Append(typed, key)
        /\ RenderCursor(cursorX + 1, cursorY, scr)
        /\ astray' = (astray \/ At(cursorX + 1, cursorY) < 0 \/ size + 1 >= Cells)
        /\ promptY' = promptY /\ halted' = halted
    BY DEF Type, CtVectorPush, Strays
  <1>2. ~astray /\ ~(At(cursorX + 1, cursorY) < 0) /\ ~(size + 1 >= Cells) /\ ~halted
    BY <1>1, Zenon
  <1>3. Shown /\ CursorAfter
    BY <1>2 DEF Echoed
  <1>4. /\ size \in Nat /\ cursorX \in Int /\ cursorY \in Int /\ screen \in Screens /\ c \in Char
        /\ Text \in Int /\ Cells \in Nat /\ Cells > 0
        /\ \A k \in Int : (Text + k) % Cells \in 0..(Cells - 1)
    BY ShellFacts, LineCells, CharOfKey
  <1>5. /\ v \in Int /\ At(cursorX + 1, cursorY) = v + 1
    BY <1>3, CursorAt
  <1>6. v >= 0 /\ CursorAfter'
    <2>1. Settle(cursorX + 1, cursorY) /\ At(cursorX + 1, cursorY) >= 0
      BY <1>1, <1>2, <1>5 DEF RenderCursor
    <2> QED BY <1>1, <1>3, <2>1, Moved
  <1>7. /\ v = (Text + (size + 1)) % Cells
        /\ \E q \in Int : v = Text + (size + 1) + Cells * q
    BY <1>3, <1>6, CursorAt
  <1>8. \A p \in 0..(Cells - 1) :
          screen'[p] = IF p = v + 1 THEN Cursor ELSE IF p = v THEN c ELSE screen[p]
    <2>1. scr \in Screens /\ \A p \in 0..(Cells - 1) : scr[p] = IF p = v THEN c ELSE screen[p]
      BY <1>4, <1>5, PrintingOne DEF Echo
    <2>2. \A p \in 0..(Cells - 1) : screen'[p] = IF p = At(cursorX + 1, cursorY) THEN Cursor ELSE scr[p]
      BY <1>1, <1>4, <2>1, Rendered
    <2> QED BY <1>5, <2>1, <2>2
  <1> HIDE DEF v, c, scr
  <1>9. \A k \in 1..(size + 1) : (Text + k) % Cells # v + 1
    <2>1. PICK q \in Int : v = Text + (size + 1) + Cells * q
      BY <1>7
    <2>2. v + 1 = Text + ((size + 1) + 1) + Cells * q
      <3>1. Cells * q \in Int
        BY <1>4
      <3> QED BY <1>4, <1>5, <2>1, <3>1
    <2>3. size + 1 \in Nat /\ size + 1 < Cells /\ v + 1 \in Int
      BY <1>2, <1>4, <1>5
    <2> QED BY <1>4, <2>2, <2>3, Away
  <1>10. \A k \in 1..size : (Text + k) % Cells # v
    <2>1. size < Cells
      BY <1>2, <1>4
    <2> QED BY <1>4, <1>5, <1>7, <2>1, Away
  <1>11. /\ \A k \in 1..size : typed'[k] = typed[k]
         /\ typed'[size + 1] = key
    <2>1. typed \in Seq(1..128) /\ size = Len(typed)
      BY DEF TypeOK, LineText
    <2> QED BY <1>1, <2>1, AppendProperties
  <1>12. \A k \in 1..size : screen'[(Text + k) % Cells] = PS2ConvertCodeToChar(typed'[k])
    <2> SUFFICES ASSUME NEW k \in 1..size
                 PROVE  screen'[(Text + k) % Cells] = PS2ConvertCodeToChar(typed'[k])
      OBVIOUS
    <2>1. k \in 1..(size + 1) /\ k \in Int
      BY <1>4
    <2>2. screen'[(Text + k) % Cells] = screen[(Text + k) % Cells]
      BY <1>4, <1>8, <1>9, <1>10, <2>1
    <2> QED BY <1>3, <1>11, <2>2 DEF Shown
  <1>13. screen'[(Text + (size + 1)) % Cells] = PS2ConvertCodeToChar(typed'[size + 1])
    <2>1. v \in 0..(Cells - 1) /\ v # v + 1
      BY <1>4, <1>5, <1>7
    <2>2. screen'[v] = c
      BY <1>8, <2>1
    <2> QED BY <1>7, <1>11, <2>2 DEF c
  <1>14. Shown'
    <2>1. \A k \in 1..(size + 1) : k \in 1..size \/ k = size + 1
      BY <1>4
    <2>2. \A k \in 1..(size + 1) : screen'[(Text + k) % Cells] = PS2ConvertCodeToChar(typed'[k])
      BY <1>12, <1>13, <2>1
    <2>3. Text' = Text
      BY <1>1 DEF Text
    <2> QED BY <1>1, <2>2, <2>3 DEF Shown
  <1> QED BY <1>1, <1>2, <1>4, <1>6, <1>14

(* Drawing the cursor again covers nothing of the line. *)
LEMMA RedrawEchoes ==
  ASSUME TypeOK, Echoed, RenderCursor(cursorX, cursorY, screen),
         UNCHANGED <<size, typed, promptY, astray, halted>>
  PROVE  Echoed'
  <1> DEFINE v == At(cursorX, cursorY)
  <1> SUFFICES ASSUME ~astray', ~halted' PROVE size' < Cells /\ Shown' /\ CursorAfter'
    BY DEF Echoed
  <1>1. Shown /\ CursorAfter /\ size < Cells
    BY DEF Echoed
  <1>2. /\ size \in Nat /\ cursorX \in Int /\ cursorY \in Int /\ screen \in Screens
        /\ Text \in Int /\ Cells \in Nat
        /\ \A k \in Int : (Text + k) % Cells \in 0..(Cells - 1)
    BY ShellFacts, LineCells
  <1>3. CursorAfter'
    <2>1. cursorX + 0 = cursorX /\ size + 0 = size
      BY <1>2
    <2>2. Settle(cursorX + 0, cursorY)
      BY <2>1 DEF RenderCursor
    <2> QED BY <1>1, <2>1, <2>2, Moved
  <1>4. v \in Int /\ (v >= 0 => \E q \in Int : v = Text + (size + 1) + Cells * q)
    BY <1>1, CursorAt
  <1>5. \A p \in 0..(Cells - 1) : screen'[p] = IF p = v THEN Cursor ELSE screen[p]
    BY <1>2, Rendered
  <1> HIDE DEF v
  <1>6. \A k \in 1..size : (Text + k) % Cells # v
    BY <1>1, <1>2, <1>4, Away
  <1>7. ASSUME NEW k \in 1..size
        PROVE  screen'[(Text + k) % Cells] = screen[(Text + k) % Cells]
    <2>1. k \in Int
      BY <1>2
    <2>2. (Text + k) % Cells \in 0..(Cells - 1)
      BY <1>2, <2>1
    <2>3. (Text + k) % Cells # v
      BY <1>6
    <2> QED BY <1>5, <2>2, <2>3
  <1>8. Shown'
    BY <1>1, <1>2, <1>7, ShownStays
  <1> QED BY <1>1, <1>3, <1>8

(* An erased character leaves the rest of the line. *)
LEMMA BackspaceEchoes ==
  ASSUME TypeOK, LineText, Echoed, NEW key \in 1..128, Backspace(key)
  PROVE  Echoed'
  <1> DEFINE v == At(cursorX, cursorY)
             scr == TVMPrint(screen, v, <<Blank>>)
  <1>1. /\ promptY' = promptY /\ halted' = halted
        /\ \/ /\ RenderCursor(cursorX, cursorY, screen)
              /\ size' = size /\ typed' = typed /\ astray' = astray
           \/ /\ ~(size < 1) /\ size' = size - 1 /\ typed' = SubSeq(typed, 1, Len(typed) - 1)
              /\ RenderCursor(cursorX - 1, cursorY, scr)
              /\ astray' = (astray \/ At(cursorX - 1, cursorY) < 0 \/ size >= Cells)
    BY DEF Backspace, NothingTyped, line, CtVectorPop, Strays
  <1>2. CASE RenderCursor(cursorX, cursorY, screen) /\ size' = size /\ typed' = typed
             /\ astray' = astray
    BY <1>1, <1>2, RedrawEchoes
  <1>3. CASE /\ ~(size < 1) /\ size' = size - 1 /\ typed' = SubSeq(typed, 1, Len(typed) - 1)
             /\ RenderCursor(cursorX - 1, cursorY, scr)
             /\ astray' = (astray \/ At(cursorX - 1, cursorY) < 0 \/ size >= Cells)
    <2> SUFFICES ASSUME ~astray', ~halted' PROVE size' < Cells /\ Shown' /\ CursorAfter'
      BY DEF Echoed
    <2>1. ~astray /\ ~(At(cursorX - 1, cursorY) < 0) /\ ~(size >= Cells) /\ ~halted
      BY <1>1, <1>3, Zenon
    <2>2. Shown /\ CursorAfter
      BY <2>1 DEF Echoed
    <2>3. /\ size \in Nat /\ cursorX \in Int /\ cursorY \in Int /\ screen \in Screens
          /\ Text \in Int /\ Cells \in Nat /\ Cells > 0 /\ Blank \in Char
          /\ \A k \in Int : (Text + k) % Cells \in 0..(Cells - 1)
      BY ShellFacts, LineCells DEF Blank, Char
    <2>4. v \in Int /\ At(cursorX - 1, cursorY) = v - 1
      <3>1. At(cursorX + (-1), cursorY) = v + (-1) /\ v \in Int
        BY <2>2, CursorAt
      <3>2. cursorX + (-1) = cursorX - 1 /\ v + (-1) = v - 1
        BY <2>3, <3>1
      <3> QED BY <3>1, <3>2
    <2>5. v >= 0 /\ CursorAfter'
      <3>1. cursorX + (-1) = cursorX - 1 /\ size + (-1) = size - 1
        BY <2>3
      <3>2. Settle(cursorX + (-1), cursorY) /\ At(cursorX + (-1), cursorY) >= 0
        BY <1>3, <2>1, <2>4, <3>1 DEF RenderCursor
      <3>3. -1 \in -1..1 /\ -1 # 0 /\ size' = size + (-1)
        BY <1>3, <3>1
      <3> QED BY <1>1, <2>2, <3>2, <3>3, Moved
    <2>6. PICK q \in Int : v = Text + (size + 1) + Cells * q
      BY <2>2, <2>5, CursorAt
    <2>7. \A p \in 0..(Cells - 1) :
            screen'[p] = IF p = v - 1 THEN Cursor ELSE IF p = v THEN Blank ELSE screen[p]
      <3>1. scr \in Screens /\ \A p \in 0..(Cells - 1) : scr[p] = IF p = v THEN Blank ELSE screen[p]
        BY <2>3, <2>4, PrintingOne
      <3>2. \A p \in 0..(Cells - 1) :
              screen'[p] = IF p = At(cursorX - 1, cursorY) THEN Cursor ELSE scr[p]
        BY <1>3, <2>3, <3>1, Rendered
      <3> QED BY <2>4, <3>1, <3>2
    <2> DEFINE n == size - 1
    <2>8. n \in Nat /\ n < Cells /\ n <= size /\ size < Cells /\ n + 1 = size
      BY <1>3, <2>1, <2>3
    <2> HIDE DEF v, scr
    <2>9. \A k \in 1..size : (Text + k) % Cells # v
      BY <2>3, <2>4, <2>6, <2>8, Away
    <2>10. \A k \in 1..n : (Text + k) % Cells # v - 1
      <3>1. v - 1 = Text + (n + 1) + Cells * q
        <4>1. Cells * q \in Int
          BY <2>3
        <4> QED BY <2>3, <2>4, <2>6, <2>8, <4>1
      <3>2. v - 1 \in Int
        BY <2>4
      <3> HIDE DEF n
      <3> QED BY <2>3, <2>8, <3>1, <3>2, Away
    <2>11. \A k \in 1..n : typed'[k] = typed[k]
      <3>1. typed \in Seq(1..128) /\ size = Len(typed)
        BY DEF TypeOK, LineText
      <3>2. \A k \in 1..(size - 1) : typed[k] \in 1..128
        <4>1. \A k \in 1..size : typed[k] \in 1..128
          BY <3>1, ElementOfSeq
        <4> QED BY <2>8, <4>1 DEF n
      <3>3. \A k \in 1..((size - 1) - 1 + 1) : typed'[k] = typed[1 + k - 1]
        BY <1>3, <2>3, <3>1, <3>2, SubSeqProperties
      <3> QED BY <2>3, <3>3
    <2>12. \A k \in 1..n : screen'[(Text + k) % Cells] = screen[(Text + k) % Cells]
      <3> SUFFICES ASSUME NEW k \in 1..n
                   PROVE  screen'[(Text + k) % Cells] = screen[(Text + k) % Cells]
        OBVIOUS
      <3>1. k \in 1..size /\ k \in Int
        BY <2>3
      <3> HIDE DEF n
      <3> QED BY <2>3, <2>7, <2>9, <2>10, <3>1
    <2>13. size' = n
      BY <1>3
    <2> HIDE DEF n
    <2>14. Shown'
      BY <1>1, <2>2, <2>8, <2>11, <2>12, <2>13, ShownStays
    <2> QED BY <2>5, <2>8, <2>13, <2>14
  <1> QED BY <1>1, <1>2, <1>3, Zenon

(* The cursor after a prompt is after the empty line. *)
LEMMA PromptEchoes ==
  ASSUME NEW y \in Int, NEW scr \in Screens, Prompted(y, scr)
  PROVE  Echoed'
  <1> SUFFICES ASSUME ~astray' PROVE size' < Cells /\ Shown' /\ CursorAfter'
    BY DEF Echoed
  <1>1. /\ size' = 0 /\ promptY' = Short(y + 1) /\ Settle(3, promptY') /\ ~(At(3, promptY') < 0)
    BY DEF Prompted, FlushInput, RenderCursor
  <1>2. /\ Width \in Nat /\ Width > 3 /\ Cells \in Nat /\ Cells > 0
        /\ 3 \in -(Width - 1)..(Width - 1) /\ 3 \in -Width..Width
    BY Constants DEF Numbers
  <1>3. promptY' \in -ShortMax..(ShortMax - 1) /\ promptY' \in Int
    <2>1. y + 1 \in Int /\ ShortMax \in Nat
      BY Constants DEF Numbers
    <2> QED BY <1>1, <2>1, Shorts
  <1>4. cursorX' = 3 /\ cursorY' = promptY'
    BY <1>1, <1>2, <1>3, Settled
  <1>5. PICK q \in Int : At(3, promptY') = (3 + Width * promptY') + Cells * q
    BY <1>3, CursorCell
  <1>6. Text' = Width * promptY' + 2 /\ Width * promptY' \in Int
    BY <1>2, <1>3 DEF Text
  <1>7. At(3, promptY') = (Text' + (0 + 1)) + Cells * q /\ At(3, promptY') \in Int
    <2>1. Cells * q \in Int
      BY <1>2
    <2>2. (3 + Width * promptY') = Text' + (0 + 1)
      BY <1>6
    <2> QED BY <1>3, <1>5, <2>1, <2>2, Offsets
  <1>8. (At(3, promptY') - (Text' + (0 + 1))) % Cells = 0
    <2>1. Text' + (0 + 1) \in Int
      BY <1>6
    <2> QED BY <1>7, <2>1, Wraps
  <1>9. CursorAfter'
    BY <1>1, <1>4, <1>8 DEF CursorAfter
  <1>10. Shown'
    BY <1>1 DEF Shown
  <1> QED BY <1>1, <1>2, <1>9, <1>10

(* Every step keeps the line shown. *)
LEMMA EchoNext == ShellInv /\ Echoed /\ [Next]_vars => Echoed'
  <1> SUFFICES ASSUME ShellInv, Echoed, [Next]_vars PROVE Echoed'
    OBVIOUS
  <1>1. TypeOK /\ LineText
    BY DEF ShellInv
  <1>2. CASE UNCHANGED vars
    BY <1>2 DEF vars, line, Echoed, Shown, CursorAfter, Text
  <1>3. CASE Next
    <2>1. CASE Idle
      BY <1>1, <2>1, RedrawEchoes DEF Idle, line
    <2>2. ASSUME NEW key \in 1..128, Enter(key) PROVE Echoed'
      <3>1. Panic => Echoed'
        BY DEF Panic, Echoed
      <3> QED BY <1>1, <2>2, <3>1, Entered, PromptEchoes
    <2> QED BY <1>1, <1>3, <2>1, <2>2, Rounds, TypeEchoes, BackspaceEchoes
  <1> QED BY <1>2, <1>3

(* The first line is empty, and the cursor after its prompt. *)
LEMMA EchoInit == Init => Echoed
  <1> SUFFICES ASSUME Init PROVE Echoed
    OBVIOUS
  <1>1. cursorX = 3 /\ cursorY = 0 /\ promptY = 0 /\ size = 0
    BY DEF Init
  <1>2. Width \in Nat /\ Width * 0 = 0 /\ 0 * Width = 0 /\ Cells \in Nat /\ Cells > 0
    BY Constants DEF Numbers
  <1>3. At(3, 0) = 3
    <2>1. 0 = Cells * 0 + 0 /\ 0 \in 0..(Cells - 1)
      BY <1>2
    <2>2. 0 % Cells = 0
      BY <1>2, <2>1, Unique
    <2> QED BY <1>2, <2>2 DEF At, Rem
  <1>4. 0 % Cells = 0
    <2>1. 0 = Cells * 0 + 0 /\ 0 \in 0..(Cells - 1)
      BY <1>2
    <2> QED BY <1>2, <2>1, Unique
  <1>5. At(3, 0) - (Text + (0 + 1)) = 0
    BY <1>1, <1>2, <1>3 DEF Text
  <1> QED BY <1>1, <1>2, <1>3, <1>4, <1>5 DEF Echoed, Shown, CursorAfter

-----------------------------------------------------------------------------
(* In every state the shell reaches, its types hold, the vector holds the  *)
(* line as typed, the cursor counts what is in it (shell.c:11-12, 72, 81), *)
(* the bytes past the block are bounded before the first report            *)
(* (vector.c:21-30), and the screen shows the line.                        *)
THEOREM ShellInvariant == Spec => [](ShellInv /\ Echoed)
  <1>1. Init => ShellInv /\ Echoed
    BY ShellInit, EchoInit
  <1>2. ShellInv /\ Echoed /\ [Next]_vars => (ShellInv /\ Echoed)'
    BY ShellNext, EchoNext
  <1> QED BY <1>1, <1>2, PTL DEF Spec

(* Every variable keeps its type: the cursor of shell.c:11-12 stays less   *)
(* than a row from the row it is counted in, whatever is typed.            *)
THEOREM TypeCorrect == Spec => []TypeOK
  <1>1. ShellInv => TypeOK
    BY DEF ShellInv
  <1> QED BY <1>1, ShellInvariant, PTL

(* The cursor is as many cells after the prompt as the vector has          *)
(* characters, over every wrap and every backspace (shell.c:66-95).        *)
THEOREM CursorFollows == Spec => []CursorFollowsText
  <1>1. ShellInv => CursorFollowsText
    BY DEF ShellInv
  <1> QED BY <1>1, ShellInvariant, PTL

(* The vector holds the line as it was typed, and two keys of the four rows*)
(* differ in what they leave there (vector.c:19-40, ps2_keyboard.c:31-43). *)
THEOREM LineKept == Spec => []LineHeld
  <1>1. ShellInv => LineHeld
    <2> SUFFICES ASSUME ShellInv PROVE LineHeld
      OBVIOUS
    <2>1. TypeOK /\ size = Len(typed) /\ typed \in Seq(1..128)
          /\ \A k \in 1..size : data[k - 1] = PS2ConvertCodeToChar(typed[k])
      BY DEF ShellInv, LineText, TypeOK
    <2>2. \A k \in 1..size : typed[k] \in 1..128
      BY <2>1, ElementOfSeq
    <2>3. \A j, k \in 1..size :
            InRow(typed[j]) /\ InRow(typed[k]) /\ data[j - 1] = data[k - 1] => typed[j] = typed[k]
      <3> SUFFICES ASSUME NEW j \in 1..size, NEW k \in 1..size,
                          InRow(typed[j]), InRow(typed[k]), data[j - 1] = data[k - 1]
                   PROVE  typed[j] = typed[k]
        OBVIOUS
      <3>1. PS2ConvertCodeToChar(typed[j]) = PS2ConvertCodeToChar(typed[k])
        BY <2>1
      <3>2. typed[j] \in 1..128 /\ typed[k] \in 1..128
        BY <2>2
      <3> QED BY <3>1, <3>2, CharOfKey
    <2> QED BY <2>1, <2>3 DEF LineHeld
  <1> QED BY <1>1, ShellInvariant, PTL

(* The screen shows the line where it was typed, for any size of the       *)
(* screen and over the wrap from its bottom to its top, unless the line was*)
(* written above the screen or came all round it (shell.c:11-16, 66-95).   *)
THEOREM EchoCorrect == Spec => []EchoShown
  <1>1. ShellInv /\ Echoed => EchoShown
    BY DEF Echoed, Shown, Text, EchoShown
  <1> QED BY <1>1, ShellInvariant, PTL

(* What is written past the vector's block before the first "OVERFLOW!!!"  *)
(* is at most one int, for any block (vector.c:19-33).                     *)
THEOREM SpillBounded == Spec => []SilentSpillBounded
  <1>1. ShellInv => SilentSpillBounded
    BY DEF ShellInv
  <1> QED BY <1>1, ShellInvariant, PTL
=============================================================================
