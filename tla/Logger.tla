-------------------------------- MODULE Logger --------------------------------
(***************************************************************************)
(* src/log.c and the number texts of src/io.c: s2_Format laying out a text *)
(* in a caller's buffer, s2_ToDec and s2_ToHex writing a number into memory*)
(* used before, and the lines of s2_Log and s2_LogSection.  These share no *)
(* state, so a behaviour is about one of them, its task.  A format is a    *)
(* sequence of tokens: letters, "%s", "%u", "%x", "%%" (which stands for   *)
(* every sign followed by something else, and prints nothing) and, at the  *)
(* end, a lone "%".  Interrupts are off, as kmain leaves them.             *)
(***************************************************************************)
EXTENDS Integers, Sequences, SequencesExt

CONSTANTS
  Letters,    \* what a format may hold besides signs
  Strings,    \* arguments of "%s"
  Numbers,    \* numbers converted
  Lines,      \* lengths of a name and a text given to s2_Log
  Titles,     \* lengths of the names of sections
  MaxTokens,  \* bound: tokens of a format
  MaxText,    \* bound: characters of an argument
  MaxTexts    \* bound: calls of s2_Format or of a conversion, on the same memory

NUL == "NUL"
Stale == "stale"  \* a byte left in memory by something else
Letter == "letter"
Space == "space"
OutMax == (MaxText + 1) * MaxTokens  \* the buffer has room for the text

Signs == {"%s", "%u", "%x", "%%", "%"}

(* A string holds no NUL, and a number has 32 bits. *)
ASSUME LoggerAssumption ==
  /\ {MaxTokens, MaxTexts} \subseteq Nat /\ MaxText \in Nat \ 0..2
  /\ Letters \cap (Signs \cup {NUL, Stale}) = {}
  /\ Strings \subseteq Seq(STRING \ {NUL}) /\ \A s \in Strings : Len(s) <= MaxText
  /\ Numbers \subseteq Nat /\ \A n \in Numbers : n \div 65536 < 65536
  /\ Lines \subseteq Nat \X Nat /\ Titles \subseteq Nat

VARIABLES
  task,    \* "format", "number" or "line"
  format, i, j, out,  \* of s2_Format
  laid,    \* what the part of the format before i means (history)
  intact,  \* both reads of each number's text found it whole (history)
  former,  \* out[0] when s2_Format was called (history)
  res,     \* memory from the first byte of the block of a number text
  number,  \* base and value last written there
  behind,  \* what stood at byte 16 of the block before (history)
  line,    \* lengths of the name and the text s2_Log is writing
  asked,   \* what its caller asked for (history)
  reach,   \* bytes from out on that calls of s2_Log have written, the most
  printed, \* lengths of the name and the text of the line printed last
  section, columns,  \* length of a section's name and its line
  texts    \* calls made

formatVars == <<format, i, j, out, laid, intact, former>>
numberVars == <<res, number, behind>>
lineVars   == <<line, asked, reach, printed, section, columns>>
textVars   == <<task, formatVars, numberVars, lineVars, texts>>

(* The text that begins at a byte of a memory. *)
StrLen(s, k)  == CHOOSE n \in 0..OutMax + 32 : s[k + n] = NUL /\ \A b \in 0..n - 1 : s[k + b] # NUL
TextAt(s, k)  == [n \in 1..StrLen(s, k) |-> s[k + n - 1]]

-----------------------------------------------------------------------------
(* s2_Format *)
Formats ==
  {f \in BoundedSeq(Letters \cup Signs, MaxTokens) : \A k \in 1..Len(f) - 1 : f[k] # "%"}

(* The text of a number, and what each read of it may find once the frame  *)
(* it was written in is gone: the same, a byte more, or nothing at all.    *)
OwnText == <<"1", "2">>
DeadTexts == {OwnText, Append(OwnText, Stale), <<>>}

(* s2_Cat(out, text, out) *)
Cat(s, text) ==
  LET end == StrLen(s, 0)
  IN  [b \in DOMAIN s |-> IF b \in end..end + Len(text) - 1 THEN text[b - end + 1]
                          ELSE IF b = end + Len(text) THEN NUL ELSE s[b]]

(* Variants, each with the mistake its name tells. *)
EndUnset(s, k) == s
AdvanceByOne(k, n) == k + 1
BlankEverySpare(quotient, rem, k) == quotient = 0 /\ rem = 0
MeasuredBare(ns, str) == ns + str > 256

(* out[j+1] = 0, which each round begins with. *)
Ended(s, k) == [s EXCEPT ![k + 1] = NUL]

Call ==
  /\ task = "format" /\ i > Len(format) /\ texts < MaxTexts
  /\ i <= Len(format) + 1  \* not gone past the end of the format
  /\ texts' = texts + 1
  /\ format' \in Formats
  /\ i' = 1 /\ j' = 0 /\ laid' = <<>> /\ intact' = TRUE /\ former' = out[0]
  /\ UNCHANGED <<task, out, numberVars, lineVars>>

Put(c) ==
  /\ c \in Letters
  /\ out' = [Ended(out, j) EXCEPT ![j] = c]
  /\ j' = j + 1 /\ i' = i + 1
  /\ laid' = Append(laid, c)
  /\ UNCHANGED intact

Advance(k, n) == k + n

(* s2_Cat(out, vp, out), and j += s2_StrLen(vp). *)
PutText(text) ==
  /\ out' = Cat(Ended(out, j), text)
  /\ j' = Advance(j, Len(text)) /\ i' = i + 1
  /\ laid' = laid \o text
  /\ UNCHANGED intact

(* The same with convs, which the two calls read one after the other. *)
PutNumber ==
  \E convs \in DeadTexts, measured \in DeadTexts :
    /\ out' = Cat(Ended(out, j), convs)
    /\ j' = Advance(j, Len(measured)) /\ i' = i + 1
    /\ laid' = laid \o OwnText
    /\ intact' = (intact /\ convs = OwnText /\ measured = OwnText)

(* i += 2 leads past the NUL when the sign ends the format. *)
PutNothing(sign) ==
  /\ sign \in {"%%", "%"}
  /\ out' = Ended(out, j)
  /\ i' = i + (IF sign = "%" THEN 2 ELSE 1)
  /\ UNCHANGED <<j, laid, intact>>

Format ==
  /\ task = "format" /\ i <= Len(format)
  /\ \/ Put(format[i])
     \/ format[i] = "%s" /\ \E vp \in Strings : PutText(vp)
     \/ format[i] \in {"%u", "%x"} /\ PutNumber
     \/ PutNothing(format[i])
  /\ UNCHANGED <<task, format, former, numberVars, lineVars, texts>>

-----------------------------------------------------------------------------
(* s2_ToHex and s2_ToDec, and their twins without allocation: the digits   *)
(* from the right, and for base ten blanks before them, which a loop that  *)
(* reads up to fifteen bytes past the block then moves out.                *)
Digits == <<"0", "1", "2", "3", "4", "5", "6", "7", "8", "9", "A", "B", "C", "D", "E", "F">>

(* num after each round of the loop, which takes a digit off it. *)
Quotients(n, base) ==
  LET num[k \in 0..16] == IF k = 0 THEN n ELSE num[k - 1] \div base IN num

Blank(quotient, rem, k) == quotient = 0 /\ rem = 0 /\ k # 0

Digit(num, base, k) == Digits[(num[k] % base) + 1]

ToHex(s, n) ==
  [b \in DOMAIN s |-> IF b < 8 THEN Digit(Quotients(n, 16), 16, 7 - b)
                     ELSE IF b = 8 THEN NUL ELSE s[b]]

IsBlank(num, k) == Blank(num[k + 1], num[k] % 10, k)
Blanks(num) == {k \in 0..15 : IsBlank(num, k)}

FromTheRight(s, num) ==
  [b \in DOMAIN s |-> IF b > 15 THEN s[b]
                     ELSE IF IsBlank(num, 15 - b) THEN Space ELSE Digit(num, 10, 15 - b)]

MoveOut(s, scnt) ==
  LET moved[k \in 0..16] ==
        IF k = 0 THEN s
        ELSE [moved[k - 1] EXCEPT ![k - 1] = moved[k - 1][k - 1 + scnt], ![k] = NUL]
  IN  moved[16]

ToDec(s, n) ==
  LET num == Quotients(n, 10)
  IN  MoveOut(FromTheRight(s, num), Cardinality(Blanks(num)))

Convert(base, n) ==
  /\ task = "number" /\ texts < MaxTexts /\ texts' = texts + 1
  /\ number' = <<base, n>>
  /\ res' = IF base = 16 THEN ToHex(res, n) ELSE ToDec(res, n)
  /\ behind' = TextAt(res, 16)
  /\ UNCHANGED <<task, formatVars, lineVars>>

-----------------------------------------------------------------------------
(* s2_Log and s2_LogSection *)
NoLine == <<>>
LogTooBig == <<6, 11>>      \* "Logger", "Log too big"
TitleTooLong == <<6, 22>>   \* "Logger", "Section title too long"

(* Nine bytes of colour and bracket, the name, three between, the text,    *)
(* four to end the colour, and the NUL.                                    *)
Written(ns, str) == 9 + ns + 3 + str + 4 + 1

TooBig(ns, str) == ns + str + 5 > 256

AskLog(ns, str) ==
  /\ task = "line" /\ asked = NoLine /\ section = -1
  /\ line' = <<ns, str>> /\ asked' = <<ns, str>>
  /\ UNCHANGED <<task, formatVars, numberVars, reach, printed, section, columns, texts>>

(* The line is written first and measured afterwards; what becomes of the  *)
(* frame that a refused one has been written over is not followed.         *)
Log ==
  /\ task = "line" /\ line # NoLine
  /\ LET end == Written(line[1], line[2]) IN reach' = IF end > reach THEN end ELSE reach
  /\ IF TooBig(line[1], line[2]) THEN line' = LogTooBig /\ UNCHANGED printed
                                 ELSE line' = NoLine /\ printed' = line
  /\ UNCHANGED <<task, formatVars, numberVars, asked, section, columns, texts>>

Left(size) == (64 - size) \div 2

Column(size, k) ==
  LET eq == Left(size)
  IN  IF k \in eq..size - 1 + eq THEN Letter
      ELSE IF k \in {eq - 1, size + eq} THEN Space ELSE "="

LogSection(size) ==
  /\ task = "line" /\ asked = NoLine /\ section = -1
  /\ section' = size
  /\ IF size + 2 > 64 THEN line' = TitleTooLong /\ UNCHANGED columns
                      ELSE columns' = [k \in 0..63 |-> Column(size, k)] /\ UNCHANGED line
  /\ UNCHANGED <<task, formatVars, numberVars, asked, reach, printed, texts>>

InitText ==
  /\ task \in {"format", "number", "line"}
  /\ format = <<>> /\ i = 1 /\ j = 0 /\ laid = <<>> /\ intact = TRUE /\ former = NUL
  /\ \E n \in (IF task = "format" THEN 0..2 ELSE {0}) :
       out = [b \in 0..OutMax |-> IF b < n THEN Stale ELSE NUL]
  /\ \E n \in (IF task = "number" THEN 0..16 ELSE {0}) :
       res = [b \in 0..32 |-> IF b < 16 + n THEN Stale ELSE NUL]
  /\ number = <<>> /\ behind = <<>>
  /\ line = NoLine /\ asked = NoLine /\ reach = 0 /\ printed = NoLine /\ section = -1 /\ columns = <<>>
  /\ texts = 0

NextText ==
  \/ Call \/ Format
  \/ \E base \in {10, 16}, n \in Numbers : Convert(base, n)
  \/ \E ask \in Lines : AskLog(ask[1], ask[2])
  \/ Log
  \/ \E size \in Titles : LogSection(size)

SpecText == InitText /\ [][NextText]_textVars

-----------------------------------------------------------------------------
(* The buffer was empty, or the first thing laid out is a letter. *)
Clean ==
  \/ former = NUL
  \/ \E k \in 1..Len(format) : format[k] \in Letters /\ \A b \in 1..k - 1 : format[b] = "%%"

(* In a buffer that was empty, or with a format that begins with a letter, *)
(* the text of the buffer is at every point what the format means so far,  *)
(* and j its length, though letters are put by index and texts at the first*)
(* NUL, which only out[j+1] = 0 of each round keeps together.  It is so of *)
(* every format without numbers; with them (log.c:127) only as long as both*)
(* reads of each number's text, in a frame that is gone, find it whole.    *)
FormatMeans ==
  task = "format" /\ i > 1 /\ Clean /\ intact =>
    TextAt(out, 0) = (IF laid = <<>> /\ former # NUL THEN <<former>> ELSE laid)

(* In a buffer used before, a format that begins with "%s" leaves at most  *)
(* one former character in front, and then loses at most one of its own,   *)
(* again as long as the texts of numbers are found whole.                  *)
OneFormerCharacter ==
  task = "format" /\ i > 1 /\ intact =>
    LET text == TextAt(out, 0)
    IN  \/ text \in {laid, <<former>> \o laid}
        \/ \E k \in 1..Len(laid) : text = <<former>> \o RemoveAt(laid, k)

DigitOf(c) == CHOOSE k \in 0..15 : Digits[k + 1] = c

Value(text, base) ==
  LET value[k \in 0..Len(text)] ==
        IF k = 0 THEN 0 ELSE base * value[k - 1] + DigitOf(text[k])
  IN  value[Len(text)]

(* A number text has the value of its number: eight digits for base 16; for*)
(* base 10 the digits without zeros in front, and behind them only what    *)
(* stood at byte 16 of the block before, which a conversion ends with NUL: *)
(* io.c:99 moves bytes of a block that ends at byte 16.                    *)
NumberRead ==
  number # <<>> =>
    LET text == TextAt(res, 0)
    IN  \/ number[1] = 16 /\ Len(text) = 8 /\ Value(text, 16) = number[2]
        \/ number[1] = 10 /\ \E d \in 1..Len(text) :
             /\ \A k \in 1..d : text[k] \in ToSet(Digits)
             /\ Value(SubSeq(text, 1, d), 10) = number[2]
             /\ d = 1 \/ text[1] # "0"
             /\ IsPrefix(SubSeq(text, d + 1, Len(text)), behind)

(* A line is measured without its colours and brackets (log.c:101), and    *)
(* after it has been written: one that fits in out is printed, one that is *)
(* printed goes at most twelve bytes past it, and one that is refused has  *)
(* by then been written further past it than any that is printed.  A       *)
(* section's line is its name in the middle of 64 columns, between blanks. *)
LinesFit ==
  /\ asked # NoLine /\ line = NoLine =>
       /\ printed \in {asked, LogTooBig} /\ reach = Written(asked[1], asked[2])
       /\ reach <= 256 => printed = asked
       /\ printed = asked => reach <= 256 + 12
       /\ printed # asked => reach > 256 + 12
  /\ columns # <<>> =>
       LET equals == {k \in 0..63 : columns[k] = "="}
           blanks == {k \in 0..63 : columns[k] = Space}
           left   == Cardinality({k \in equals : \E b \in blanks : k < b})
       IN  /\ Cardinality(blanks) = 2 /\ Cardinality(equals) = 62 - section
           /\ \A k \in 0..63 : columns[k] = Letter <=>
                (\E b \in blanks : b < k) /\ (\E b \in blanks : b > k)
           /\ 2 * left \in (62 - section - 1)..(62 - section)
=============================================================================
