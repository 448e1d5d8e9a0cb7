---------------------------------- MODULE Shell ----------------------------------
(***************************************************************************)
(* The shell of src/programs/shell/shell.c with the vector of              *)
(* src/containers/vector/vector.c that holds its command line, and what    *)
(* s2_TVMPrint leaves on the text screen.  One step is one round of the    *)
(* loop of s2_ShellStart: a keyboard event, and all that the loop does     *)
(* until it awaits the next.  Colours are left out, except that the cell of*)
(* the cursor is told apart; the wording of an answer is its name.         *)
(***************************************************************************)
EXTENDS Ps2Codes, FiniteSets

CONSTANTS
  Scancodes,      \* the bytes the keyboard sends
  Width, Height,  \* of the screen, 80 and 25
  OutHeight,      \* rows s2_ShellTVMPrint uses, 20
  Capacity,       \* S2_CTVEC_DEFAULT_CAPACITY
  ShortMax,       \* the first number beyond a short, 32768
  MaxKeys         \* bound: bytes handled

ASSUME ShellAssumption ==
  /\ Scancodes \subseteq 1..255
  /\ {Width, Height, OutHeight, Capacity, ShortMax, MaxKeys} \subseteq Nat
  /\ Width > 3 /\ OutHeight > 0 /\ Height >= OutHeight /\ ShortMax > 0

VARIABLES
  cursorX, cursorY,  \* as the loop leaves them before it awaits an event
  data, size,        \* the vector cmdv: its bytes by index, and its length
  lolmode,
  screen,            \* what each cell of the screen shows
  halted,            \* the panic of command 'p'
  keys,              \* events handled
  event,             \* the last of them
  promptY,           \* history: the row the prompt was rendered at
  typed,             \* history: the keys that typed what is in the line
  astray,            \* history: of this line a cell above the screen was written,
                     \* or the line came round to its own first cells
  spill, reported    \* history: bytes written past the vector's block, at most;
                     \* "OVERFLOW!!!" was printed

line   == <<data, size, typed>>
vars   == <<cursorX, cursorY, line, lolmode, screen, halted, keys, event, promptY, astray,
            spill, reported>>

Cells   == Width * Height
Char    == -128..127
Blank   == 32
Cursor  == -1
Prompt  == -2
Output  == -3

Bottom == Capacity + MaxKeys + 4  \* the vector's bytes the bounds can reach

-----------------------------------------------------------------------------
(* s2_TVMPrint of these cells at this offset of the video memory. *)
TVMPrint(scr, offset, cells) ==
  [p \in 0..(Cells - 1) |->
     IF p - offset \in 0..(Len(cells) - 1) THEN cells[p - offset + 1] ELSE scr[p]]

(* C division truncates, and its remainder takes the sign of the dividend; *)
(* what is stored in a short wraps.                                        *)
Over(x) == IF x < 0 THEN -((-x) \div Width) ELSE x \div Width
Rem(m, n) == IF m < 0 THEN -((-m) % n) ELSE m % n
Short(y) == ((y + ShortMax) % (2 * ShortMax)) - ShortMax

At(x, y) == x + Rem(y * Width, Cells)

(* cursorY += cursorX/80; cursorX -= (cursorX/80)*80 *)
Settle(x, y) ==
  /\ cursorY' = Short(y + Over(x))
  /\ cursorX' = x - Over(x) * Width

(* s2_ShellRenderCursor, and the loop's start up to the next event. *)
RenderCursor(x, y, scr) ==
  /\ screen' = TVMPrint(scr, At(x, y), <<Cursor>>)
  /\ Settle(x, y)

Strays(x, y, n) == astray' = (astray \/ At(x, y) < 0 \/ n >= Cells)

(* s2_ShellRenderPrompt *)
PromptCells == <<Prompt, Prompt, Prompt>>
RenderPrompt(y, scr) == TVMPrint(scr, Rem(Width * (1 + y), Cells), PromptCells)

Larger(m, n) == IF m > n THEN m ELSE n

(* One int stored at an index of a vector of chars: the char extended with *)
(* its sign.                                                               *)
Store(d, k, c) ==
  [b \in DOMAIN d |->
     IF b = k THEN c ELSE IF b \in k+1..k+3 THEN (IF c < 0 THEN -1 ELSE 0) ELSE d[b]]

Init ==
  /\ screen = TVMPrint([p \in 0..(Cells - 1) |-> Blank], 0, PromptCells)
  /\ cursorX = 3 /\ cursorY = 0 /\ promptY = 0
  /\ data = [b \in 0..Bottom |-> 0] /\ size = 0 /\ typed = <<>>
  /\ lolmode = FALSE /\ halted = FALSE /\ keys = 0 /\ event = EventOf(129)
  /\ astray = FALSE /\ spill = 0 /\ reported = FALSE

-----------------------------------------------------------------------------
(* Variants, each with the mistake its name tells. *)
ReportsLate == size > Capacity + 1
PushedBeforeLast == IF size > 1 THEN size - 1 ELSE size
EchoAfter == At(cursorX + 1, cursorY)
NeverNothing == FALSE

Reports == size > Capacity
PushedAt == size

(* s2_CtVectorPush: the int that holds the character is stored whether or  *)
(* not it fits.  The bytes behind the block are the header of the next heap*)
(* entry, its magic first and then prev and next, which every allocation   *)
(* walks: what comes of the heap is not followed.                          *)
CtVectorPush(v) ==
  /\ data' = Store(data, PushedAt, v)
  /\ size' = size + 1
  /\ reported' = (reported \/ Reports)
  /\ spill' = Larger(spill, PushedAt + 4 - Capacity)

(* The vector keeps the byte. *)
CtVectorPop ==
  /\ size' = IF size < 1 THEN size ELSE size - 1
  /\ UNCHANGED data

Echo == At(cursorX, cursorY)

(* s2_ShellReadCommand of a key that types a character. *)
Type(key) ==
  LET c == PS2ConvertCodeToChar(key) IN
  /\ key \notin {S2_KENTER, S2_KBACKSPACE}
  /\ CtVectorPush(c)
  /\ typed' = Append(typed, key)
  /\ RenderCursor(cursorX + 1, cursorY, TVMPrint(screen, Echo, <<c>>))
  /\ Strays(cursorX + 1, cursorY, size + 1)
  /\ UNCHANGED <<lolmode, halted, promptY>>

NothingTyped == size < 1

(* s2_ShellReadCommand of the backspace key. *)
Backspace(key) ==
  /\ key = S2_KBACKSPACE
  /\ IF NothingTyped
     THEN RenderCursor(cursorX, cursorY, screen) /\ UNCHANGED <<line, astray>>
     ELSE /\ RenderCursor(cursorX - 1, cursorY,
                          TVMPrint(screen, At(cursorX, cursorY), <<Blank>>))
          /\ Strays(cursorX - 1, cursorY, size)
          /\ CtVectorPop
          /\ typed' = SubSeq(typed, 1, Len(typed) - 1)
  /\ UNCHANGED <<lolmode, halted, promptY, spill, reported>>

-----------------------------------------------------------------------------
(* s2_ShellTVMPrint of n lines below row y. *)
Printed(scr, y, n) ==
  LET RowAt(k) == Rem((Short(y + k - 1) + 1) * Width, Width * OutHeight)
  IN  [p \in 0..(Cells - 1) |-> IF \E k \in 1..n : RowAt(k) = p THEN Output ELSE scr[p]]

(* s2_TVMClear prints one blank less than the screen has cells. *)
Cleared(scr) == TVMPrint(scr, 0, [p \in 1..(Cells - 1) |-> Blank])

Answers == {"help", "lol", "clear", "version", "unknown"}

LinesOf(answer) ==
  CASE answer = "help" -> 2 [] answer \in {"lol", "clear"} -> 0 [] OTHER -> 1

(* s2_ShellFlushInput: an int zero at every index of the line. *)
FlushInput ==
  /\ data' = [b \in DOMAIN data |-> IF b < size + 3 /\ size > 0 THEN 0 ELSE data[b]]
  /\ size' = 0

(* The rest of the round after s2_ShellInterpretCommand left row y.  The   *)
(* prompt's row becomes the cursor's.                                      *)
Prompted(y, scr) ==
  /\ FlushInput
  /\ typed' = <<>>
  /\ promptY' = Short(y + 1)
  /\ RenderCursor(3, promptY', RenderPrompt(y, scr))
  /\ astray' = (At(3, promptY') < 0)

(* s2_ShellInterpretCommand.  s2_CtVectorIndex returns the int at index 0, *)
(* and the command is the byte at that address, not the character: what is *)
(* there is not known, so any branch may be taken.                         *)
InterpretCommand(scr) ==
  \E answer \in Answers :
    /\ lolmode' = IF answer = "lol" THEN ~lolmode ELSE lolmode
    /\ IF answer = "clear"
       THEN Prompted(-1, Cleared(scr))
       ELSE Prompted(Short(cursorY + LinesOf(answer)), Printed(scr, cursorY, LinesOf(answer)))
    /\ UNCHANGED halted

(* Command 'p': s2_Panic clears the screen, prints its rows and stops the  *)
(* processor within the round.                                             *)
PanicRows == {0, 1, 2, 3, 5, 6}

Panic ==
  /\ halted' = TRUE
  /\ screen' = [p \in 0..(Cells - 1) |->
                  IF \E r \in PanicRows : p = r * Width THEN Output
                  ELSE Cleared(screen)[p]]
  /\ UNCHANGED <<cursorX, cursorY, line, lolmode, promptY, astray>>

(* The enter key. *)
Enter(key) ==
  LET scr == TVMPrint(screen, At(cursorX, cursorY), <<Blank>>) IN
  /\ key = S2_KENTER
  /\ \/ size < 1 /\ Prompted(cursorY, scr) /\ UNCHANGED <<lolmode, halted>>
     \/ size >= 1 /\ InterpretCommand(scr)
     \/ size >= 1 /\ Panic
  /\ UNCHANGED <<spill, reported>>

ReadCommand(key) == Type(key) \/ Backspace(key) \/ Enter(key)

(* The event of a key that comes up only draws the cursor again. *)
Idle ==
  /\ RenderCursor(cursorX, cursorY, screen)
  /\ UNCHANGED <<line, lolmode, halted, promptY, astray, spill, reported>>

Handle(e) == IF e.pressed THEN ReadCommand(e.key) ELSE Idle

Next ==
  /\ ~halted /\ keys < MaxKeys
  /\ keys' = keys + 1
  /\ \E code \in Scancodes : event' = EventOf(code) /\ Handle(event')

Spec == Init /\ [][Next]_vars

-----------------------------------------------------------------------------
(* Every variable keeps its type; the cursor is less than a row away from  *)
(* the row it is counted in (shell.c:11-12).                               *)
TypeOK ==
  /\ cursorX \in -(Width - 1)..(Width - 1)
  /\ cursorY \in -ShortMax..(ShortMax - 1) /\ promptY \in -ShortMax..(ShortMax - 1)
  /\ data \in [0..Bottom -> Char] /\ size \in Nat /\ typed \in Seq(1..128)
  /\ screen \in [0..(Cells - 1) -> Char]
  /\ lolmode \in BOOLEAN /\ halted \in BOOLEAN
  /\ astray \in BOOLEAN /\ reported \in BOOLEAN
  /\ event \in [pressed : BOOLEAN, key : 1..128]
  /\ keys \in 0..MaxKeys /\ size <= keys /\ spill \in 0..(MaxKeys + 4)

(* The cursor is as many cells after the prompt as the line has characters,*)
(* over every wrap to the next row, of the rows in a short, and every      *)
(* backspace over one (cursorX is then negative): shell.c:11-12 and 72,81  *)
(* agree with the vector's size.                                           *)
CursorFollowsText ==
  ((cursorX + Width * cursorY) - (Width * promptY + 3 + size)) % (2 * ShortMax * Width) = 0

(* The vector holds the line as typed: what a push overwrites behind its   *)
(* character, and what a pop or the flush leaves, is never part of it; and *)
(* two keys of the four rows (ps2_keyboard.c:31-43) never leave the same   *)
(* character.                                                              *)
LineHeld ==
  /\ TypeOK
  /\ size = Len(typed)
  /\ \A k \in 1..size : data[k - 1] = PS2ConvertCodeToChar(typed[k])
  /\ \A j, k \in 1..size :
       InRow(typed[j]) /\ InRow(typed[k]) /\ data[j - 1] = data[k - 1] => typed[j] = typed[k]

(* The screen shows the line where the cursor typed it, also when it runs  *)
(* over the bottom of the screen to its top, unless the line was written   *)
(* above the screen instead: when it was erased back over the top edge, and*)
(* on most rows that a cursorY beyond a short counts as negative; or unless*)
(* it came all round the screen, where the cursor covers its beginning.    *)
EchoShown ==
  ~astray /\ ~halted =>
    \A k \in 1..size :
      screen[(Width * promptY + 2 + k) % Cells] = PS2ConvertCodeToChar(typed[k])

(* s2_CtVectorPush never grows the block (vector.c:21-30) and reports a    *)
(* push that does not fit, though late: what pushes write past the block   *)
(* before the first "OVERFLOW!!!" is at most one int, over the magic of the*)
(* next heap entry, and not yet over the prev and next that follow it.     *)
SilentSpillBounded == ~reported => spill <= 4
=============================================================================
