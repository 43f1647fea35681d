------------------------------ MODULE Keyboard ------------------------------
(***************************************************************************)
(* The keyboard driver of kernel/keyboard.c and the kernel_main loop that  *)
(* reads from it.                                                          *)
(*                                                                         *)
(* Two contexts share the ring buffer.  The IRQ1 handler runs with the     *)
(* interrupt flag clear (interrupt gates, interrupt.c:62-85), so one       *)
(* interrupt is one action.  The reader runs with interrupts enabled       *)
(* (kernel.c:143) and is split wherever an interrupt can fall between two  *)
(* accesses to shared state.  The Makefile passes no -O option, so         *)
(* `count--` is a load, a subtraction and a store (build/keyboard.o,       *)
(* keyboard_buffer_get+0x45): the steps "load" and "store" below.          *)
(*                                                                         *)
(* A key is a scancode; its class says what the two translation tables     *)
(* hold for it.  A character is the pair of a key and a table.             *)
(***************************************************************************)
EXTENDS Integers, Sequences

CONSTANTS
  KEYBOARD_BUFFER_SIZE, \* slots in the ring (256 in keyboard.h)
  Letters,              \* keys with a lower- and an upper-case entry
  Symbols,              \* keys with two different entries, no letter
  Fixed,                \* keys with the same entry in both tables
  Unmapped,             \* keys whose entry is 0 in both tables
  Modifiers,            \* the special keys the modelled keyboard has
  MaxPresses            \* bound on the key presses of a behaviour

KEY_LSHIFT == "KEY_LSHIFT"
KEY_RSHIFT == "KEY_RSHIFT"
KEY_CTRL   == "KEY_CTRL"
KEY_ALT    == "KEY_ALT"
KEY_CAPS   == "KEY_CAPS"

(* is_special_key: the scancodes that change keyboard_state.               *)
SpecialKeys == {KEY_LSHIFT, KEY_RSHIFT, KEY_CTRL, KEY_ALT, KEY_CAPS}

Keys == Letters \cup Symbols \cup Fixed \cup Unmapped \cup Modifiers

ASSUME SizeAssumption == KEYBOARD_BUFFER_SIZE \in Nat \ {0}
ASSUME BoundAssumption == MaxPresses \in Nat
ASSUME KeysAssumption ==
  /\ Modifiers \subseteq SpecialKeys
  /\ (Letters \cup Symbols \cup Fixed \cup Unmapped) \cap SpecialKeys = {}
  /\ Unmapped \cap (Letters \cup Symbols \cup Fixed) = {}
  /\ Fixed \cap (Letters \cup Symbols) = {}
  /\ Letters \cap Symbols = {}

VARIABLES
  buffer, head, tail, count, \* keyboard_buffer
  keyboard_state,            \* the modifier flags
  keyboard_stats,            \* the five counters
  handler,                   \* interrupt_handlers[33]
  pc, c, reg, ret,           \* the reader: program counter, the character
                             \* read, the register holding count, and where
                             \* keyboard_getchar returns to
  halted,                    \* the CPU executed hlt
  held,                      \* environment: the keys held down
  accepted,                  \* history: every character put in the ring
  taken,                     \* history: how many of them left the ring
  lapped                     \* history: an unread character was overwritten

ring    == <<buffer, head, tail, count>>
reader  == <<pc, c, reg, ret>>
history == <<accepted, taken, lapped>>
vars    == <<ring, keyboard_state, keyboard_stats, handler, reader, halted,
             held, history>>

(* The bytes a char can be: 0, or an entry of one of the two tables.       *)
NUL   == <<"NUL", "plain">>
Chars == (Letters \cup Symbols \cup Fixed) \X {"plain", "shifted"}
Slots == 0 .. KEYBOARD_BUFFER_SIZE - 1

(* num_lock and scroll_lock are only ever cleared and are left out.        *)
NoModifiers == [shift_pressed |-> FALSE, ctrl_pressed |-> FALSE,
                alt_pressed |-> FALSE, caps_lock |-> FALSE]

ZeroStats == [total_keypresses |-> 0, total_releases |-> 0,
              special_keys |-> 0, buffer_overflows |-> 0,
              invalid_scancodes |-> 0]

(* Characters that were put in the ring and have not left it.              *)
Unread == Len(accepted) - taken

-----------------------------------------------------------------------------
(* The .bss image after init_interrupts() and enable_interrupts(): IRQ1    *)
(* still goes to interrupt.c's keyboard_handler, and kernel_main is about  *)
(* to call init_keyboard().                                                *)
Init ==
  /\ buffer = [i \in Slots |-> NUL]
  /\ head = 0 /\ tail = 0 /\ count = 0
  /\ keyboard_state = NoModifiers
  /\ keyboard_stats = ZeroStats
  /\ handler = "keyboard_handler"
  /\ pc = "init_state" /\ c = NUL /\ reg = 0 /\ ret = "idle"
  /\ halted = FALSE
  /\ held = {}
  /\ accepted = <<>> /\ taken = 0 /\ lapped = FALSE

-----------------------------------------------------------------------------
(* The IRQ1 handler.                                                       *)

keyboard_buffer_is_empty == count = 0

(* Mutant: the test lets one character too many in.                        *)
full_off_by_one == count > KEYBOARD_BUFFER_SIZE

keyboard_buffer_is_full == count >= KEYBOARD_BUFFER_SIZE

scancode_to_ascii_table(k) == IF k \in Unmapped THEN NUL ELSE <<k, "plain">>

shifted_chars(k) ==
  CASE k \in Unmapped -> NUL
    [] k \in Fixed    -> <<k, "plain">>
    [] OTHER          -> <<k, "shifted">>

scancode_to_ascii(k) ==
  IF /\ \/ keyboard_state.shift_pressed
        \/ keyboard_state.caps_lock /\ k \in Letters
     /\ shifted_chars(k) # NUL
  THEN shifted_chars(k)
  ELSE scancode_to_ascii_table(k)

handle_special_key(k) ==
  keyboard_state' =
    CASE k \in {KEY_LSHIFT, KEY_RSHIFT} ->
           [keyboard_state EXCEPT !.shift_pressed = TRUE]
      [] k = KEY_CTRL -> [keyboard_state EXCEPT !.ctrl_pressed = TRUE]
      [] k = KEY_ALT  -> [keyboard_state EXCEPT !.alt_pressed = TRUE]
      [] k = KEY_CAPS -> [keyboard_state EXCEPT !.caps_lock = ~@]
      [] OTHER        -> keyboard_state

(* Mutant: head is advanced before the character is stored.                *)
put_advances_first(ch) ==
  /\ buffer' = [buffer EXCEPT ![(head + 1) % KEYBOARD_BUFFER_SIZE] = ch]
  /\ head' = (head + 1) % KEYBOARD_BUFFER_SIZE
  /\ count' = count + 1
  /\ accepted' = Append(accepted, ch)
  /\ lapped' = (lapped \/ Unread >= KEYBOARD_BUFFER_SIZE)
  /\ UNCHANGED <<tail, taken>>

(* The history records the character, and whether the slot written still   *)
(* held an unread one.                                                     *)
keyboard_buffer_put(ch) ==
  /\ buffer' = [buffer EXCEPT ![head] = ch]
  /\ head' = (head + 1) % KEYBOARD_BUFFER_SIZE
  /\ count' = count + 1
  /\ accepted' = Append(accepted, ch)
  /\ lapped' = (lapped \/ Unread >= KEYBOARD_BUFFER_SIZE)
  /\ UNCHANGED <<tail, taken>>

(* Mutant: a character the full ring rejects is not counted.               *)
overflow_uncounted ==
  keyboard_stats' = [keyboard_stats EXCEPT !.total_keypresses = @ + 1]

(* What handle_key_press does when keyboard_buffer_put returns false.      *)
count_overflow ==
  keyboard_stats' = [keyboard_stats EXCEPT !.total_keypresses = @ + 1,
                                           !.buffer_overflows = @ + 1]

handle_key_press(k) ==
  \/ /\ k \in SpecialKeys
     /\ handle_special_key(k)
     /\ keyboard_stats' = [keyboard_stats EXCEPT !.total_keypresses = @ + 1,
                                                 !.special_keys = @ + 1]
     /\ UNCHANGED <<ring, history>>
  \/ /\ k \notin SpecialKeys /\ scancode_to_ascii(k) = NUL
     /\ keyboard_stats' = [keyboard_stats EXCEPT !.total_keypresses = @ + 1,
                                                 !.invalid_scancodes = @ + 1]
     /\ UNCHANGED <<ring, history, keyboard_state>>
  \/ /\ k \notin SpecialKeys /\ scancode_to_ascii(k) # NUL
     /\ ~keyboard_buffer_is_full
     /\ keyboard_buffer_put(scancode_to_ascii(k))
     /\ keyboard_stats' = [keyboard_stats EXCEPT !.total_keypresses = @ + 1]
     /\ UNCHANGED keyboard_state
  \/ /\ k \notin SpecialKeys /\ scancode_to_ascii(k) # NUL
     /\ keyboard_buffer_is_full
     /\ count_overflow
     /\ UNCHANGED <<ring, history, keyboard_state>>

(* Mutant: the switch has no case for the right Shift key.                 *)
release_forgets_rshift(k) ==
  /\ keyboard_state' =
       CASE k = KEY_LSHIFT -> [keyboard_state EXCEPT !.shift_pressed = FALSE]
         [] k = KEY_CTRL   -> [keyboard_state EXCEPT !.ctrl_pressed = FALSE]
         [] k = KEY_ALT    -> [keyboard_state EXCEPT !.alt_pressed = FALSE]
         [] OTHER          -> keyboard_state
  /\ keyboard_stats' = [keyboard_stats EXCEPT !.total_releases = @ + 1]

handle_key_release(k) ==
  /\ keyboard_state' =
       CASE k \in {KEY_LSHIFT, KEY_RSHIFT} ->
              [keyboard_state EXCEPT !.shift_pressed = FALSE]
         [] k = KEY_CTRL -> [keyboard_state EXCEPT !.ctrl_pressed = FALSE]
         [] k = KEY_ALT  -> [keyboard_state EXCEPT !.alt_pressed = FALSE]
         [] OTHER        -> keyboard_state
  /\ keyboard_stats' = [keyboard_stats EXCEPT !.total_releases = @ + 1]

(* interrupt.c's keyboard_handler prints the scancode and leaves the       *)
(* driver's state alone.                                                   *)
keyboard_handler ==
  /\ handler = "keyboard_handler"
  /\ UNCHANGED <<ring, history, keyboard_state, keyboard_stats>>

(* A make code arrives, the first one or a typematic repeat.  Any          *)
(* interrupt resumes a halted CPU.                                         *)
KeyPress(k) ==
  /\ keyboard_stats.total_keypresses < MaxPresses
  /\ \/ keyboard_handler
     \/ /\ handler = "keyboard_interrupt_handler"
        /\ handle_key_press(k)
  /\ held' = held \cup {k}
  /\ halted' = FALSE
  /\ UNCHANGED <<handler, reader>>

(* A break code arrives.                                                   *)
KeyRelease(k) ==
  /\ k \in held
  /\ \/ keyboard_handler
     \/ /\ handler = "keyboard_interrupt_handler"
        /\ handle_key_release(k)
        /\ UNCHANGED <<ring, history>>
  /\ held' = held \ {k}
  /\ halted' = FALSE
  /\ UNCHANGED <<handler, reader>>

(* The timer interrupt, as far as this component sees it: it resumes a     *)
(* halted CPU.                                                             *)
TimerInterrupt ==
  /\ halted
  /\ halted' = FALSE
  /\ UNCHANGED <<ring, keyboard_state, keyboard_stats, handler, reader, held,
                 history>>

-----------------------------------------------------------------------------
(* The reader: init_keyboard(), then calls of the driver's interface.      *)

Goto(from, to) == ~halted /\ pc = from /\ pc' = to

init_keyboard ==
  \/ /\ Goto("init_state", "init_buffer")
     /\ keyboard_state' = NoModifiers
     /\ UNCHANGED <<ring, keyboard_stats, handler, history>>
  \/ /\ Goto("init_buffer", "init_stats")
     /\ head' = 0 /\ tail' = 0 /\ count' = 0
     /\ UNCHANGED <<buffer, keyboard_state, keyboard_stats, handler, history>>
  \/ /\ Goto("init_stats", "init_register")
     /\ keyboard_stats' = ZeroStats
     /\ UNCHANGED <<ring, keyboard_state, handler, history>>
  \/ /\ Goto("init_register", "idle")
     /\ handler' = "keyboard_interrupt_handler"
     /\ UNCHANGED <<ring, keyboard_state, keyboard_stats, history>>

(* One turn of kernel_main's loop: read if there is input, then hlt.       *)
Poll ==
  /\ \/ ~keyboard_buffer_is_empty /\ Goto("idle", "getchar")
     \/ keyboard_buffer_is_empty /\ Goto("idle", "hlt")
  /\ ret' = "hlt"
  /\ UNCHANGED <<ring, history, c, reg, halted>>

(* A caller that blocks in keyboard_getchar() without polling first.       *)
CallGetchar ==
  /\ Goto("idle", "getchar")
  /\ ret' = "idle"
  /\ UNCHANGED <<ring, history, c, reg, halted>>

(* A caller of keyboard_buffer_get() that does not wait.                   *)
CallBufferGet ==
  /\ Goto("idle", "get")
  /\ ret' = "idle"
  /\ UNCHANGED <<ring, history, c, reg, halted>>

(* Mutant: the wait loop runs while there IS input.                        *)
getchar_waits_wrongly ==
  /\ \/ ~keyboard_buffer_is_empty /\ Goto("getchar", "getchar_hlt") /\ UNCHANGED halted
     \/ keyboard_buffer_is_empty /\ Goto("getchar", "get") /\ UNCHANGED halted
     \/ Goto("getchar_hlt", "getchar") /\ halted' = TRUE
  /\ UNCHANGED <<ring, history, c, reg, ret>>

(* The wait loop: hlt until an interrupt, then test again.  The test and   *)
(* the hlt are two instructions.                                           *)
keyboard_getchar ==
  /\ \/ keyboard_buffer_is_empty /\ Goto("getchar", "getchar_hlt") /\ UNCHANGED halted
     \/ ~keyboard_buffer_is_empty /\ Goto("getchar", "get") /\ UNCHANGED halted
     \/ Goto("getchar_hlt", "getchar") /\ halted' = TRUE
  /\ UNCHANGED <<ring, history, c, reg, ret>>

keyboard_buffer_get ==
  /\ \/ /\ keyboard_buffer_is_empty /\ Goto("get", ret)
        /\ c' = NUL
        /\ UNCHANGED <<ring, history, reg>>
     \/ /\ ~keyboard_buffer_is_empty /\ Goto("get", "read")
        /\ UNCHANGED <<ring, history, c, reg>>
     \/ /\ Goto("read", "advance")
        /\ c' = buffer[tail]
        /\ UNCHANGED <<ring, history, reg>>
     \/ /\ Goto("advance", "load")
        /\ tail' = (tail + 1) % KEYBOARD_BUFFER_SIZE
        /\ taken' = taken + 1
        /\ UNCHANGED <<buffer, head, count, accepted, lapped, c, reg>>
     \/ /\ Goto("load", "store")
        /\ reg' = count
        /\ UNCHANGED <<ring, history, c>>
     \/ /\ Goto("store", ret)
        /\ count' = reg - 1
        /\ UNCHANGED <<buffer, head, tail, history, c, reg>>
  /\ UNCHANGED <<ret, halted>>

(* kernel_main's own hlt, at the end of every turn of its loop.            *)
Hlt ==
  /\ Goto("hlt", "idle")
  /\ halted' = TRUE
  /\ UNCHANGED <<ring, history, c, reg, ret>>

(* Mutant: the flush leaves tail where it is.                              *)
flush_leaves_tail ==
  /\ \/ /\ Goto("idle", "flush_count")
        /\ head' = 0
        /\ taken' = Len(accepted) /\ lapped' = FALSE
        /\ UNCHANGED <<buffer, tail, count, accepted>>
     \/ /\ Goto("flush_count", "idle")
        /\ count' = 0
        /\ UNCHANGED <<buffer, head, tail, history>>
  /\ UNCHANGED <<c, reg, ret, halted>>

(* Mutant: the flush clears count first and the two pointers last.         *)
flush_clears_count_first ==
  /\ \/ /\ Goto("idle", "flush_count")
        /\ count' = 0
        /\ UNCHANGED <<buffer, head, tail, history>>
     \/ /\ Goto("flush_count", "idle")
        /\ head' = 0 /\ tail' = 0
        /\ taken' = Len(accepted) /\ lapped' = FALSE
        /\ UNCHANGED <<buffer, count, accepted>>
  /\ UNCHANGED <<c, reg, ret, halted>>

keyboard_flush_buffer ==
  /\ \/ /\ Goto("idle", "flush_tail")
        /\ head' = 0
        /\ taken' = Len(accepted) /\ lapped' = FALSE
        /\ UNCHANGED <<buffer, tail, count, accepted>>
     \/ /\ Goto("flush_tail", "flush_count")
        /\ tail' = 0
        /\ UNCHANGED <<buffer, head, count, history>>
     \/ /\ Goto("flush_count", "idle")
        /\ count' = 0
        /\ UNCHANGED <<buffer, head, tail, history>>
  /\ UNCHANGED <<c, reg, ret, halted>>

(* What kernel_main does: it starts the driver and runs its loop.          *)
KernelMain ==
  \/ /\ init_keyboard
     /\ UNCHANGED <<c, reg, ret, halted, held>>
  \/ /\ Poll \/ keyboard_getchar \/ keyboard_buffer_get \/ Hlt
     /\ UNCHANGED <<keyboard_state, keyboard_stats, handler, held>>

(* The rest of the driver's interface, which nothing in the kernel calls.  *)
OtherCalls ==
  /\ CallGetchar \/ CallBufferGet \/ keyboard_flush_buffer
  /\ UNCHANGED <<keyboard_state, keyboard_stats, handler, held>>

Reader == KernelMain \/ OtherCalls

Interrupt ==
  \/ \E k \in Keys : KeyPress(k) \/ KeyRelease(k)
  \/ TimerInterrupt

Next == Interrupt \/ Reader

Spec == Init /\ [][Next]_vars

(* The driver exactly as the kernel uses it.                               *)
KernelSpec == Init /\ [][Interrupt \/ KernelMain]_vars

(* The PIT never stops, and kernel_main never returns.                     *)
FairSpec == Spec /\ WF_vars(TimerInterrupt) /\ WF_vars(Reader)
-----------------------------------------------------------------------------
(* Properties.                                                             *)

Pcs == {"init_state", "init_buffer", "init_stats", "init_register", "idle",
        "getchar", "getchar_hlt", "get", "read", "advance", "load", "store",
        "hlt", "flush_tail", "flush_count"}

(* The reader is not in the middle of changing count, nor about to: what   *)
(* count says now is what the next keyboard_buffer_is_empty() sees.        *)
AtRest == pc \notin {"load", "store", "flush_tail", "flush_count"}

(* Types, and the bound the driver's buffer rests on: count never exceeds  *)
(* the ring and never wraps below zero, whatever interrupts the reader.    *)
TypeOK ==
  /\ buffer \in [Slots -> Chars \cup {NUL}]
  /\ head \in Slots /\ tail \in Slots
  /\ count \in 0 .. KEYBOARD_BUFFER_SIZE
  /\ keyboard_state \in [shift_pressed : BOOLEAN, ctrl_pressed : BOOLEAN,
                         alt_pressed : BOOLEAN, caps_lock : BOOLEAN]
  /\ keyboard_stats \in [total_keypresses : Nat, total_releases : Nat,
                         special_keys : Nat, buffer_overflows : Nat,
                         invalid_scancodes : Nat]
  /\ handler \in {"keyboard_handler", "keyboard_interrupt_handler"}
  /\ pc \in Pcs /\ c \in Chars \cup {NUL}
  /\ reg \in 0 .. KEYBOARD_BUFFER_SIZE
  /\ ret \in {"idle", "hlt"}
  /\ halted \in BOOLEAN
  /\ held \subseteq Keys
  /\ accepted \in Seq(Chars) /\ taken \in 0 .. Len(accepted)
  /\ lapped \in BOOLEAN

(* Where the reader will find the oldest unread character: tail, or slot 0 *)
(* while keyboard_flush_buffer() has reset head and not yet tail.          *)
Oldest == IF pc = "flush_tail" THEN 0 ELSE tail

(* head and tail stay exactly the number of unread characters apart, even  *)
(* when count has lost track of them: the handler moves only head, the     *)
(* reader only tail, so neither update can be lost.                        *)
RingPointers == head = (Oldest + Unread) % KEYBOARD_BUFFER_SIZE

(* Whenever the reader tests count it sees no more characters than the     *)
(* ring holds: a reader let through by keyboard_buffer_is_empty() always   *)
(* has a character to take, and count-- never underflows.  (The full test  *)
(* of IRQ1 also sees count while the reader is changing it; it may then be *)
(* too large, which only rejects a key.)                                   *)
NeverOvercounts == AtRest => count <= Unread

(* Characters are read in the order they were typed, each once, as long as *)
(* no unread slot was overwritten: the character the reader has picked up  *)
(* when it advances tail is the oldest one accepted and not yet taken.     *)
FirstInFirstOut ==
  pc = "advance" /\ ~lapped => c = accepted[taken + 1]

(* Every key press the handler counted is accounted for exactly once: as a *)
(* modifier, an unmapped scancode, a rejected or an accepted character.    *)
PressesAccounted ==
  keyboard_stats.total_keypresses =
    keyboard_stats.special_keys + keyboard_stats.invalid_scancodes
      + keyboard_stats.buffer_overflows + Len(accepted)

(* A modifier flag is never left set with no such key held down, whatever  *)
(* the order of presses, releases and the start of the driver.             *)
NoStuckModifier ==
  /\ keyboard_state.shift_pressed => held \cap {KEY_LSHIFT, KEY_RSHIFT} # {}
  /\ keyboard_state.ctrl_pressed => KEY_CTRL \in held
  /\ keyboard_state.alt_pressed => KEY_ALT \in held

(* A character that count admits to is eventually taken out of the ring:   *)
(* the test and the hlt of keyboard_getchar() are two instructions, but a  *)
(* key that arrives between them is only delayed to the next timer tick.   *)
CountedInputIsRead ==
  \A n \in 0 .. MaxPresses :
    (AtRest /\ ~keyboard_buffer_is_empty /\ taken = n) ~> (taken > n)

(* keyboard.h documents count as the number of characters in the buffer.   *)
(* With the loop of kernel_main as the only reader, a key that arrives     *)
(* between the load and the store of count-- makes it one too small.       *)
CountIsExact == AtRest => count = Unread
=============================================================================
