-------------------------------- MODULE Ps2Codes --------------------------------
(***************************************************************************)
(* The two pure parts of src/drivers/ps2_keyboard.c: what event the handler*)
(* of IRQ 1 makes of a byte of the keyboard, and the character the shell   *)
(* shows for a key.  Characters are their ASCII codes.                     *)
(***************************************************************************)
EXTENDS Integers, Sequences

S2_KENTER     == 28
S2_KBACKSPACE == 14

EventOfLateBreak(kout) ==
  IF kout < 130 THEN [pressed |-> TRUE, key |-> kout]
                ELSE [pressed |-> FALSE, key |-> kout - 128]

(* if (kout < 0x81) ... else ... kout-0x80 *)
EventOf(kout) ==
  IF kout < 129 THEN [pressed |-> TRUE, key |-> kout]
                ELSE [pressed |-> FALSE, key |-> kout - 128]

\* "1234567890-=" "qwertyuiop[]\n" "asdfghjkl;'`" "\\zxcvbnm,./"
scancode_chr ==
  << 49, 50, 51, 52, 53, 54, 55, 56, 57, 48, 45, 61,
     113, 119, 101, 114, 116, 121, 117, 105, 111, 112, 91, 93, 10,
     97, 115, 100, 102, 103, 104, 106, 107, 108, 59, 39, 96,
     92, 122, 120, 99, 118, 98, 110, 109, 44, 46, 47 >>

Row(first, last, at) == [first |-> first, last |-> last, at |-> at]

(* The four rows of keys, and where each begins in the string. *)
Rows == {Row(2, 13, 0), Row(16, 28, 12), Row(30, 41, 25), Row(43, 53, 37)}

InRow(key) == \E r \in Rows : key \in r.first .. r.last

(* s2_PS2ConvertCodeToChar: a key of no row, other than the space bar, is  *)
(* its own code, as a signed char.                                         *)
PS2ConvertCodeToChar(key) ==
  IF InRow(key)
  THEN LET r == CHOOSE r \in Rows : key \in r.first .. r.last
       IN  scancode_chr[key - r.first + r.at + 1]
  ELSE IF key = 57 THEN 32 ELSE IF key < 128 THEN key ELSE key - 256
=============================================================================
