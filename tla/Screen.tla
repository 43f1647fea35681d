------------------------------- MODULE Screen -------------------------------
(***************************************************************************)
(* The console of kernel/kernel.c: print_char and scroll_screen on the VGA *)
(* text buffer and the cursor, which kernel_main and the interrupt         *)
(* handlers share without a lock.  timer_handler prints a dot every 100    *)
(* ticks and the keyboard_handler of interrupt.c a line for each key.      *)
(*                                                                         *)
(* A handler runs with interrupts disabled, so what it prints is one step. *)
(* A print_char of kernel_main is taken load by load and store by store,   *)
(* the way the build (-O0) compiles it, and an interrupt may fall between  *)
(* any two of them.  A cell holds the character; its colour is left out.   *)
(***************************************************************************)
EXTENDS Integers, SequencesExt

CONSTANTS
  VGA_WIDTH, VGA_HEIGHT,
  Chars,             \* the characters kernel_main prints, newline included
  HandlerStrings,    \* what interrupt handlers print, as sequences
  MaxText            \* how long the printed text is remembered

NEWLINE == "newline"
Blank   == "blank"

ASSUME ScreenAssumption ==
  /\ VGA_WIDTH \in Nat \ {0} /\ VGA_HEIGHT \in Nat \ {0}
  /\ MaxText \in Nat
  /\ Blank \notin Chars
  /\ \A str \in HandlerStrings : str \in Seq(Range(str))

VARIABLES
  vga_buffer, cursor_x, cursor_y,
  pc, c,             \* kernel_main: where it is in print_char, and its argument
  reg, cell,         \* the register it has loaded a cursor or a cell into
  k,                 \* the cell that scroll_screen is at
  text,              \* history: everything printed, in the order it was
  tracked            \* history: no interrupt fell into a print_char so far,
                     \* and the text is no longer than MaxText

screen  == <<vga_buffer, cursor_x, cursor_y>>
history == <<text, tracked>>
vars    == <<screen, pc, c, reg, cell, k, history>>

Cells  == 0 .. VGA_WIDTH * VGA_HEIGHT - 1
(* The VGA window goes on after the last line of the screen.               *)
Window == 0 .. VGA_WIDTH * (VGA_HEIGHT + 2) - 1

(* clear_screen(), before interrupts are enabled.                          *)
Init ==
  /\ vga_buffer = [i \in Window |-> Blank]
  /\ cursor_x = 0 /\ cursor_y = 0
  /\ pc = "idle" /\ c = NEWLINE /\ reg = 0 /\ cell = Blank /\ k = 0
  /\ text = <<>> /\ tracked = TRUE

-----------------------------------------------------------------------------
(* The history after str was printed, exactly or not.                      *)
Remember(str, exact) ==
  /\ tracked' = (tracked /\ exact /\ Len(text \o str) <= MaxText)
  /\ text' = IF tracked' THEN text \o str ELSE <<>>

-----------------------------------------------------------------------------
(* print_char() in an interrupt handler: nothing runs in between.  A       *)
(* screen is the record of the three variables.                            *)

scroll_screen(s) ==
  [vga |-> [i \in Window |->
              IF i + VGA_WIDTH \in Cells THEN s.vga[i + VGA_WIDTH]
              ELSE IF i \in Cells THEN Blank ELSE s.vga[i]],
   x |-> 0, y |-> VGA_HEIGHT - 1]

(* Mutant: a handler lets the cursor run below the screen.                 *)
line_down_unchecked(s) == [s EXCEPT !.x = 0, !.y = IF @ < VGA_HEIGHT THEN @ + 1 ELSE @]

LineDown(s) ==
  LET down == [s EXCEPT !.x = 0, !.y = @ + 1]
  IN IF down.y >= VGA_HEIGHT THEN scroll_screen(down) ELSE down

print_char(s, ch) ==
  IF ch = NEWLINE THEN LineDown(s)
  ELSE LET put == [s EXCEPT !.vga[s.y * VGA_WIDTH + s.x] = ch, !.x = @ + 1]
       IN IF put.x >= VGA_WIDTH THEN LineDown(put) ELSE put

print_string(s, str) == FoldLeft(print_char, s, str)

Interrupt(str) ==
  /\ LET s == print_string([vga |-> vga_buffer, x |-> cursor_x, y |-> cursor_y], str)
     IN vga_buffer' = s.vga /\ cursor_x' = s.x /\ cursor_y' = s.y
  /\ Remember(str, pc = "idle")
  /\ UNCHANGED <<pc, c, reg, cell, k>>

-----------------------------------------------------------------------------
(* print_char() in kernel_main.                                            *)

Goto(from, to) == pc = from /\ pc' = to

CallPrintChar(ch) ==
  /\ Goto("idle", IF ch = NEWLINE THEN "carriage_return" ELSE "load_y")
  /\ c' = ch
  /\ Remember(<<ch>>, TRUE)
  /\ UNCHANGED <<screen, reg, cell, k>>

(* The store into the buffer: cursor_y is loaded first, then cursor_x.     *)
store_char ==
  /\ \/ Goto("load_y", "load_x") /\ reg' = cursor_y * VGA_WIDTH /\ UNCHANGED vga_buffer
     \/ Goto("load_x", "put") /\ reg' = reg + cursor_x /\ UNCHANGED vga_buffer
     \/ /\ Goto("put", "inc_x")
        /\ vga_buffer' = [vga_buffer EXCEPT ![reg] = c] /\ UNCHANGED reg
  /\ UNCHANGED <<cursor_x, cursor_y, c, cell, k, history>>

(* Mutant: the column is tested before the new one is stored.             *)
advance_x_tests_register ==
  /\ \/ Goto("inc_x", "store_x") /\ reg' = cursor_x /\ UNCHANGED cursor_x
     \/ Goto("store_x", "test_x") /\ cursor_x' = reg + 1 /\ UNCHANGED reg
     \/ /\ Goto("test_x", IF reg >= VGA_WIDTH THEN "carriage_return" ELSE "idle")
        /\ UNCHANGED <<cursor_x, reg>>
  /\ UNCHANGED <<vga_buffer, cursor_y, c, cell, k, history>>

advance_x ==
  /\ \/ Goto("inc_x", "store_x") /\ reg' = cursor_x /\ UNCHANGED cursor_x
     \/ Goto("store_x", "test_x") /\ cursor_x' = reg + 1 /\ UNCHANGED reg
     \/ /\ Goto("test_x", IF cursor_x >= VGA_WIDTH THEN "carriage_return" ELSE "idle")
        /\ UNCHANGED <<cursor_x, reg>>
  /\ UNCHANGED <<vga_buffer, cursor_y, c, cell, k, history>>

(* Mutant: a cursor just below the screen is let through.                 *)
line_down_off_by_one ==
  /\ \/ /\ Goto("carriage_return", "inc_y")
        /\ cursor_x' = 0 /\ UNCHANGED <<cursor_y, reg>>
     \/ Goto("inc_y", "store_y") /\ reg' = cursor_y /\ UNCHANGED <<cursor_x, cursor_y>>
     \/ Goto("store_y", "test_y") /\ cursor_y' = reg + 1 /\ UNCHANGED <<cursor_x, reg>>
     \/ /\ Goto("test_y", IF cursor_y > VGA_HEIGHT THEN "clamp_y" ELSE "idle")
        /\ UNCHANGED <<cursor_x, cursor_y, reg>>
     \/ Goto("clamp_y", "copy") /\ cursor_y' = VGA_HEIGHT - 1 /\ UNCHANGED <<cursor_x, reg>>
  /\ k' = VGA_WIDTH
  /\ UNCHANGED <<vga_buffer, c, cell, history>>

line_down ==
  /\ \/ /\ Goto("carriage_return", "inc_y")
        /\ cursor_x' = 0 /\ UNCHANGED <<cursor_y, reg>>
     \/ Goto("inc_y", "store_y") /\ reg' = cursor_y /\ UNCHANGED <<cursor_x, cursor_y>>
     \/ Goto("store_y", "test_y") /\ cursor_y' = reg + 1 /\ UNCHANGED <<cursor_x, reg>>
     \/ /\ Goto("test_y", IF cursor_y >= VGA_HEIGHT THEN "clamp_y" ELSE "idle")
        /\ UNCHANGED <<cursor_x, cursor_y, reg>>
     \/ Goto("clamp_y", "copy") /\ cursor_y' = VGA_HEIGHT - 1 /\ UNCHANGED <<cursor_x, reg>>
  /\ k' = VGA_WIDTH
  /\ UNCHANGED <<vga_buffer, c, cell, history>>

LastLine == VGA_WIDTH * (VGA_HEIGHT - 1)

(* Mutant: the last line is never cleared.                                 *)
scroll_clears_nothing ==
  /\ Goto("clear", "home_y") /\ k' = 0 /\ UNCHANGED vga_buffer
  /\ UNCHANGED <<cursor_x, cursor_y, c, reg, cell, history>>

(* Mutant: the loop over the last line does not advance.                   *)
scroll_clears_forever ==
  /\ IF k \in Cells
     THEN /\ Goto("clear", "clear")
          /\ vga_buffer' = [vga_buffer EXCEPT ![k] = Blank] /\ UNCHANGED k
     ELSE Goto("clear", "home_y") /\ k' = 0 /\ UNCHANGED vga_buffer
  /\ UNCHANGED <<cursor_x, cursor_y, c, reg, cell, history>>

(* scroll_screen(): every cell is copied one line up, the last line is     *)
(* cleared, and the cursor is set to its start.                            *)
scroll_copies ==
  /\ IF pc = "copy" /\ k \notin Cells
     THEN Goto("copy", "clear") /\ k' = LastLine /\ UNCHANGED <<cell, vga_buffer>>
     ELSE \/ Goto("copy", "store") /\ cell' = vga_buffer[k] /\ UNCHANGED <<k, vga_buffer>>
          \/ /\ Goto("store", "copy")
             /\ vga_buffer' = [vga_buffer EXCEPT ![k - VGA_WIDTH] = cell]
             /\ k' = k + 1 /\ UNCHANGED cell
  /\ UNCHANGED <<cursor_x, cursor_y, c, reg, history>>

scroll_clears ==
  /\ IF k \in Cells
     THEN /\ Goto("clear", "clear")
          /\ vga_buffer' = [vga_buffer EXCEPT ![k] = Blank] /\ k' = k + 1
     ELSE Goto("clear", "home_y") /\ k' = 0 /\ UNCHANGED vga_buffer
  /\ UNCHANGED <<cursor_x, cursor_y, c, reg, cell, history>>

scroll_homes ==
  /\ \/ Goto("home_y", "home_x") /\ cursor_y' = VGA_HEIGHT - 1 /\ UNCHANGED cursor_x
     \/ Goto("home_x", "idle") /\ cursor_x' = 0 /\ UNCHANGED cursor_y
  /\ UNCHANGED <<vga_buffer, c, reg, cell, k, history>>

PrintChar ==
  store_char \/ advance_x \/ line_down \/ scroll_copies \/ scroll_clears \/ scroll_homes

Next ==
  \/ \E ch \in Chars : CallPrintChar(ch)
  \/ PrintChar
  \/ \E str \in HandlerStrings : Interrupt(str)

Spec == Init /\ [][Next]_vars

(* kernel_main goes on whenever no handler runs.                           *)
FairSpec == Spec /\ WF_vars(PrintChar)

-----------------------------------------------------------------------------
(* Properties.                                                             *)

(* The variables hold values of their types.                               *)
TypeOK ==
  /\ DOMAIN vga_buffer = Window
  /\ cursor_x \in 0 .. VGA_WIDTH /\ cursor_y \in 0 .. VGA_HEIGHT
  /\ pc \in {"idle", "load_y", "load_x", "put", "inc_x", "store_x", "test_x",
             "carriage_return", "inc_y", "store_y", "test_y", "clamp_y",
             "copy", "store", "clear", "home_y", "home_x"}
  /\ c \in Chars \cup {NEWLINE} /\ reg \in Nat /\ k \in 0 .. VGA_WIDTH * VGA_HEIGHT

(* Whatever interrupts do to the cursor in the middle of a print_char, it  *)
(* is on the screen again when print_char returns: the tests after each    *)
(* increment look at memory and not at the register they stored.           *)
CursorRecovers == pc = "idle" => cursor_x < VGA_WIDTH /\ cursor_y < VGA_HEIGHT

(* An interrupt between the increment of cursor_y and its test prints      *)
(* below the screen, but never more than one line below it.                *)
AtMostOneLineBelow ==
  /\ \A i \in Window : i >= VGA_WIDTH * (VGA_HEIGHT + 1) => vga_buffer[i] = Blank
  /\ pc = "put" => reg < VGA_WIDTH * (VGA_HEIGHT + 1)

(* What a terminal shows: the last lines of the text, broken at newlines   *)
(* and after VGA_WIDTH characters.                                         *)
AddChar(lines, ch) ==
  LET last == Last(lines)
  IN IF ch = NEWLINE THEN Append(lines, <<>>)
     ELSE LET longer == Append(Front(lines), Append(last, ch))
          IN IF Len(last) + 1 = VGA_WIDTH THEN Append(longer, <<>>) ELSE longer
Lines == FoldLeft(AddChar, <<<<>>>>, text)

(* As long as no interrupt fell into a print_char, the screen shows the    *)
(* last VGA_HEIGHT lines of the text and the cursor is where the next      *)
(* character goes.                                                         *)
ShowsText ==
  pc = "idle" /\ tracked =>
    LET first == IF Len(Lines) > VGA_HEIGHT THEN Len(Lines) - VGA_HEIGHT ELSE 0
        Shown(row, col) ==
          IF first + row < Len(Lines) /\ col < Len(Lines[first + row + 1])
          THEN Lines[first + row + 1][col + 1] ELSE Blank
    IN /\ \A row \in 0 .. VGA_HEIGHT - 1, col \in 0 .. VGA_WIDTH - 1 :
            vga_buffer[row * VGA_WIDTH + col] = Shown(row, col)
       /\ cursor_y = Len(Lines) - first - 1 /\ cursor_x = Len(Last(Lines))

(* A print_char of kernel_main ends.                                       *)
PrintReturns == pc # "idle" ~> pc = "idle"
=============================================================================
