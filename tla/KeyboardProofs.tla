--------------------------- MODULE KeyboardProofs ---------------------------
(***************************************************************************)
(* Proofs about the keyboard driver for every ring size, every set of keys *)
(* and every bound on the presses.                                         *)
(*                                                                         *)
(* The invariants of Keyboard are not inductive by themselves.  What makes *)
(* them so is where count may differ from the number of unread characters: *)
(* CountInv says how far it may be off at each step of the reader, and     *)
(* StartInv that nothing is in the ring until the handler is registered.   *)
(***************************************************************************)
EXTENDS Keyboard, Lemmas

N == KEYBOARD_BUFFER_SIZE

-----------------------------------------------------------------------------
(* Arithmetic modulo the ring size.                                        *)

(* Two offsets less than m apart from the same base are different slots.   *)
LEMMA ModDistinct ==
  ASSUME NEW m \in Nat \ {0}, NEW x \in 0 .. m - 1,
         NEW i \in Nat, NEW j \in Nat, i < j, j < m
  PROVE  (x + i) % m # (x + j) % m
<1>1. ASSUME NEW y \in 0 .. m - 1 PROVE y % m = y
  OBVIOUS
<1>2. ASSUME NEW y \in m .. 2 * m - 1 PROVE y % m = y - m
  OBVIOUS
<1> QED BY <1>1, <1>2

-----------------------------------------------------------------------------
(* The inductive invariant.                                                *)

Starting == {"init_state", "init_buffer", "init_stats", "init_register"}

(* Until init_keyboard() registers the handler the ring stays empty.       *)
StartInv ==
  pc \in Starting =>
    /\ handler = "keyboard_handler"
    /\ head = 0 /\ tail = 0 /\ count = 0
    /\ accepted = <<>> /\ taken = 0

(* How far count may be from the number of unread characters.  Between     *)
(* advancing tail and storing count it may be one too high.                *)
CountInv ==
  /\ AtRest => count <= Unread
  /\ pc \in {"read", "advance"} => count >= 1
  /\ pc \in {"load", "store"} => count >= 1 /\ count <= Unread + 1
  /\ pc = "store" => reg >= 1 /\ reg <= count

IInv == TypeOK /\ StartInv /\ CountInv /\ RingPointers

(* The .bss image satisfies the inductive invariant.                       *)
LEMMA InitIInv == Init => IInv
<1> SUFFICES ASSUME Init PROVE IInv
  OBVIOUS
<1> USE SizeAssumption
<1>1. TypeOK
  <2>1. accepted \in Seq(Chars) /\ taken \in 0 .. Len(accepted)
    BY DEF Init
  <2>2. buffer \in [Slots -> Chars \cup {NUL}]
    BY DEF Init
  <2>3. keyboard_state \in [shift_pressed : BOOLEAN, ctrl_pressed : BOOLEAN,
                            alt_pressed : BOOLEAN, caps_lock : BOOLEAN]
    BY DEF Init, NoModifiers
  <2>4. halted \in BOOLEAN /\ lapped \in BOOLEAN /\ held \subseteq Keys
        /\ c \in Chars \cup {NUL}
    BY DEF Init
  <2>5. head \in Slots /\ tail \in Slots /\ count \in 0 .. KEYBOARD_BUFFER_SIZE
        /\ reg \in 0 .. KEYBOARD_BUFFER_SIZE
    BY DEF Init, Slots
  <2>6. keyboard_stats \in [total_keypresses : Nat, total_releases : Nat,
                            special_keys : Nat, buffer_overflows : Nat,
                            invalid_scancodes : Nat]
    BY DEF Init, ZeroStats
  <2>7. /\ handler \in {"keyboard_handler", "keyboard_interrupt_handler"}
        /\ pc \in Pcs /\ ret \in {"idle", "hlt"}
    BY DEF Init, Pcs
  <2> QED BY <2>1, <2>2, <2>3, <2>4, <2>5, <2>6, <2>7 DEF TypeOK
<1>2. StartInv /\ CountInv
  BY DEF Init, StartInv, CountInv, Unread, AtRest
<1>3. RingPointers
  <2>1. 0 % N = 0
    BY DEF N
  <2> QED BY <2>1 DEF Init, RingPointers, Unread, Oldest, N
<1> QED BY <1>1, <1>2, <1>3 DEF IInv

(* What a key event does to the ring: nothing, or one keyboard_buffer_put  *)
(* of a character, and that only after registration and with room left.    *)
KeyEvent(k) == KeyPress(k) \/ KeyRelease(k)

PutOne ==
  /\ handler = "keyboard_interrupt_handler"
  /\ count < KEYBOARD_BUFFER_SIZE
  /\ \E ch \in Chars : keyboard_buffer_put(ch)

LEMMA KeyEventEffect ==
  ASSUME TypeOK, NEW k \in Keys, KeyEvent(k)
  PROVE  /\ UNCHANGED <<handler, pc, c, reg, ret>>
         /\ UNCHANGED <<buffer, head, tail, count, accepted, taken, lapped>> \/ PutOne
<1>1. UNCHANGED <<handler, pc, c, reg, ret>>
  BY DEF KeyEvent, KeyPress, KeyRelease, reader
<1>2. CASE KeyRelease(k)
  BY <1>1, <1>2 DEF KeyRelease, keyboard_handler, ring, history
<1>3. CASE KeyPress(k) /\ handler # "keyboard_interrupt_handler"
  BY <1>1, <1>3 DEF KeyPress, keyboard_handler, ring, history
<1>4. CASE KeyPress(k) /\ handler = "keyboard_interrupt_handler"
  <2>1. handle_key_press(k)
    BY <1>4 DEF KeyPress, keyboard_handler
  <2>2. CASE UNCHANGED <<ring, history>>
    BY <1>1, <2>2 DEF ring, history
  <2>3. CASE /\ k \notin SpecialKeys /\ scancode_to_ascii(k) # NUL
             /\ ~keyboard_buffer_is_full
             /\ keyboard_buffer_put(scancode_to_ascii(k))
    <3>1. count < KEYBOARD_BUFFER_SIZE
      BY <2>3, SizeAssumption DEF keyboard_buffer_is_full, TypeOK
    <3>2. scancode_to_ascii(k) \in Chars
      <4>1. k \in Unmapped => scancode_to_ascii(k) = NUL
        <5>1. k \in Unmapped => scancode_to_ascii_table(k) = NUL
          BY DEF scancode_to_ascii_table
        <5>2. scancode_to_ascii(k) = scancode_to_ascii_table(k)
              \/ scancode_to_ascii(k) = shifted_chars(k)
          BY DEF scancode_to_ascii
        <5>3. k \in Unmapped => shifted_chars(k) = NUL
          BY KeysAssumption DEF shifted_chars
        <5> QED BY <5>1, <5>2, <5>3
      <4>2. k \in Letters \cup Symbols \cup Fixed
        BY <4>1, <2>3, KeysAssumption DEF Keys
      <4>3. scancode_to_ascii(k) \in {<<k, "plain">>, <<k, "shifted">>}
        BY <4>1, <2>3 DEF scancode_to_ascii, scancode_to_ascii_table, shifted_chars
      <4> QED BY <4>2, <4>3 DEF Chars
    <3> QED BY <3>1, <3>2, <2>3, <1>4, <1>1 DEF PutOne
  <2> QED BY <2>1, <2>2, <2>3, <1>1 DEF handle_key_press
<1> QED BY <1>1, <1>2, <1>3, <1>4 DEF KeyEvent

(* The flags and counters keep their types.                                *)
LEMMA EventTypes ==
  ASSUME TypeOK, NEW k \in Keys, KeyEvent(k)
  PROVE  /\ keyboard_state' \in [shift_pressed : BOOLEAN, ctrl_pressed : BOOLEAN,
                                 alt_pressed : BOOLEAN, caps_lock : BOOLEAN]
         /\ keyboard_stats' \in [total_keypresses : Nat, total_releases : Nat,
                                 special_keys : Nat, buffer_overflows : Nat,
                                 invalid_scancodes : Nat]
<1>1. CASE keyboard_handler
  BY <1>1 DEF keyboard_handler, TypeOK
<1>2. CASE handle_key_press(k)
  <2>1. keyboard_state' = keyboard_state \/ handle_special_key(k)
    BY <1>2 DEF handle_key_press
  <2>2. keyboard_state' \in [shift_pressed : BOOLEAN, ctrl_pressed : BOOLEAN,
                             alt_pressed : BOOLEAN, caps_lock : BOOLEAN]
    BY <2>1 DEF handle_special_key, TypeOK
  <2>3. \/ keyboard_stats' = [keyboard_stats EXCEPT !.total_keypresses = @ + 1,
                                                    !.special_keys = @ + 1]
        \/ keyboard_stats' = [keyboard_stats EXCEPT !.total_keypresses = @ + 1,
                                                    !.invalid_scancodes = @ + 1]
        \/ keyboard_stats' = [keyboard_stats EXCEPT !.total_keypresses = @ + 1]
        \/ keyboard_stats' = [keyboard_stats EXCEPT !.total_keypresses = @ + 1,
                                                    !.buffer_overflows = @ + 1]
    BY <1>2 DEF handle_key_press, count_overflow
  <2>4. keyboard_stats' \in [total_keypresses : Nat, total_releases : Nat,
                             special_keys : Nat, buffer_overflows : Nat,
                             invalid_scancodes : Nat]
    <3> DEFINE st == keyboard_stats
    <3>1. /\ st \in [total_keypresses : Nat, total_releases : Nat,
                     special_keys : Nat, buffer_overflows : Nat,
                     invalid_scancodes : Nat]
          /\ st.total_keypresses + 1 \in Nat /\ st.special_keys + 1 \in Nat
          /\ st.invalid_scancodes + 1 \in Nat /\ st.buffer_overflows + 1 \in Nat
      BY DEF TypeOK
    <3> HIDE DEF st
    <3>2. \/ keyboard_stats' = [st EXCEPT !.total_keypresses = st.total_keypresses + 1,
                                          !.special_keys = st.special_keys + 1]
          \/ keyboard_stats' = [st EXCEPT !.total_keypresses = st.total_keypresses + 1,
                                          !.invalid_scancodes = st.invalid_scancodes + 1]
          \/ keyboard_stats' = [st EXCEPT !.total_keypresses = st.total_keypresses + 1]
          \/ keyboard_stats' = [st EXCEPT !.total_keypresses = st.total_keypresses + 1,
                                          !.buffer_overflows = st.buffer_overflows + 1]
      BY <2>3 DEF st
    <3> QED BY <3>1, <3>2
  <2> QED BY <2>2, <2>4
<1>3. CASE handle_key_release(k)
  <2>1. keyboard_state' \in [shift_pressed : BOOLEAN, ctrl_pressed : BOOLEAN,
                             alt_pressed : BOOLEAN, caps_lock : BOOLEAN]
    BY <1>3 DEF handle_key_release, TypeOK
  <2>2. keyboard_stats' \in [total_keypresses : Nat, total_releases : Nat,
                             special_keys : Nat, buffer_overflows : Nat,
                             invalid_scancodes : Nat]
    BY <1>3 DEF handle_key_release, TypeOK
  <2> QED BY <2>1, <2>2
<1> QED BY <1>1, <1>2, <1>3 DEF KeyEvent, KeyPress, KeyRelease

(* Every step keeps the types.                                             *)
LEMMA NextType == IInv /\ [Next]_vars => TypeOK'
<1> SUFFICES ASSUME IInv, [Next]_vars PROVE TypeOK'
  OBVIOUS
<1> USE SizeAssumption
<1>0. TypeOK
  BY DEF IInv
<1>1. ASSUME NEW k \in Keys, KeyEvent(k) PROVE TypeOK'
  <2>1. held' \subseteq Keys /\ halted' \in BOOLEAN
    BY <1>0, <1>1 DEF KeyEvent, KeyPress, KeyRelease, TypeOK
  <2>2. CASE PutOne
    <3>1. PICK ch \in Chars : keyboard_buffer_put(ch)
      BY <2>2 DEF PutOne
    <3>2. /\ buffer' \in [Slots -> Chars \cup {NUL}]
          /\ count' \in 0 .. KEYBOARD_BUFFER_SIZE /\ tail' = tail
      BY <1>0, <2>2, <3>1 DEF PutOne, keyboard_buffer_put, TypeOK
    <3>3. head' \in Slots
      BY <1>0, <3>1 DEF keyboard_buffer_put, TypeOK, Slots
    <3>4. /\ accepted' \in Seq(Chars) /\ taken' \in 0 .. Len(accepted')
          /\ lapped' \in BOOLEAN
      BY <1>0, <3>1 DEF keyboard_buffer_put, TypeOK
    <3> QED BY <1>0, <1>1, <2>1, <3>2, <3>3, <3>4, EventTypes, KeyEventEffect DEF TypeOK
  <2>3. CASE UNCHANGED <<buffer, head, tail, count, accepted, taken, lapped>>
    BY <1>0, <1>1, <2>1, <2>3, EventTypes, KeyEventEffect DEF TypeOK
  <2> QED BY <1>0, <1>1, <2>2, <2>3, KeyEventEffect
<1>2. CASE TimerInterrupt
  BY <1>0, <1>2 DEF TimerInterrupt, TypeOK, ring, reader, history
<1>3. CASE init_keyboard /\ UNCHANGED <<c, reg, ret, halted, held>>
  <2>1. /\ NoModifiers \in [shift_pressed : BOOLEAN, ctrl_pressed : BOOLEAN,
                            alt_pressed : BOOLEAN, caps_lock : BOOLEAN]
        /\ ZeroStats \in [total_keypresses : Nat, total_releases : Nat,
                          special_keys : Nat, buffer_overflows : Nat,
                          invalid_scancodes : Nat]
        /\ 0 \in Slots
    BY DEF NoModifiers, ZeroStats, Slots
  <2>2. /\ UNCHANGED <<buffer, accepted, taken, lapped>>
        /\ keyboard_state' \in {keyboard_state, NoModifiers}
        /\ keyboard_stats' \in {keyboard_stats, ZeroStats}
        /\ head' \in {head, 0} /\ tail' \in {tail, 0} /\ count' \in {count, 0}
        /\ handler' \in {handler, "keyboard_interrupt_handler"}
        /\ pc' \in Pcs
    BY <1>3 DEF init_keyboard, Goto, Pcs, ring, history
  <2> QED BY <1>0, <1>3, <2>1, <2>2 DEF TypeOK
<1> USE DEF ring, history, reader
<1>4. CASE /\ Poll \/ CallGetchar \/ CallBufferGet \/ keyboard_getchar \/ Hlt
           /\ UNCHANGED <<keyboard_state, keyboard_stats, handler, held>>
  BY <1>0, <1>4, ZenonT(60) DEF Poll, CallGetchar, CallBufferGet, keyboard_getchar, Hlt, Goto,
                                TypeOK, Pcs
<1>5. CASE /\ keyboard_buffer_get
           /\ UNCHANGED <<keyboard_state, keyboard_stats, handler, held>>
  <2>1. tail' \in Slots
    BY <1>0, <1>5 DEF keyboard_buffer_get, TypeOK, Slots
  <2>2. c' \in Chars \cup {NUL}
    BY <1>0, <1>5 DEF keyboard_buffer_get, TypeOK
  <2>3. count' \in 0 .. KEYBOARD_BUFFER_SIZE /\ reg' \in 0 .. KEYBOARD_BUFFER_SIZE
    BY <1>0, <1>5 DEF keyboard_buffer_get, Goto, TypeOK, IInv, CountInv
  <2>4. taken' \in 0 .. Len(accepted')
    BY <1>0, <1>5, SMTT(30)
    DEF keyboard_buffer_get, Goto, TypeOK, IInv, CountInv, AtRest, Unread
  <2>5. pc' \in Pcs
    BY <1>0, <1>5 DEF keyboard_buffer_get, Goto, TypeOK, Pcs
  <2>6. UNCHANGED <<buffer, head, accepted, lapped, ret, halted>>
    BY <1>5 DEF keyboard_buffer_get
  <2> QED BY <1>0, <1>5, <2>1, <2>2, <2>3, <2>4, <2>5, <2>6 DEF TypeOK
<1>6. CASE /\ keyboard_flush_buffer
           /\ UNCHANGED <<keyboard_state, keyboard_stats, handler, held>>
  <2>1. /\ UNCHANGED <<buffer, accepted, c, reg, ret, halted>>
        /\ head' \in {head, 0} /\ tail' \in {tail, 0} /\ count' \in {count, 0}
        /\ taken' \in {taken, Len(accepted)}
        /\ pc' \in Pcs
    BY <1>6 DEF keyboard_flush_buffer, Goto, Pcs
  <2>2. 0 \in Slots /\ Len(accepted) \in Nat
    BY <1>0 DEF Slots, TypeOK
  <2>3. lapped' \in BOOLEAN
    BY <1>0, <1>6 DEF keyboard_flush_buffer, TypeOK
  <2> QED BY <1>0, <1>6, <2>1, <2>2, <2>3 DEF TypeOK
<1>7. CASE UNCHANGED vars
  BY <1>0, <1>7 DEF vars, TypeOK
<1> QED BY <1>1, <1>2, <1>3, <1>4, <1>5, <1>6, <1>7 DEF Next, Interrupt, Reader,
  KernelMain, OtherCalls, KeyEvent

(* Every step keeps count within its distance of the unread.               *)
LEMMA NextCount == IInv /\ [Next]_vars => StartInv' /\ CountInv'
<1> SUFFICES ASSUME IInv, [Next]_vars PROVE StartInv' /\ CountInv'
  OBVIOUS
<1> USE SizeAssumption DEF IInv, StartInv, CountInv, AtRest, Unread, Starting
<1>0. TypeOK
  OBVIOUS
<1>1. ASSUME NEW k \in Keys, KeyEvent(k) PROVE StartInv' /\ CountInv'
  <2>1. CASE PutOne
    <3>1. PICK ch \in Chars : keyboard_buffer_put(ch)
      BY <2>1 DEF PutOne
    <3>2. /\ Len(accepted') = Len(accepted) + 1 /\ taken' = taken
          /\ count' = count + 1
      BY <1>0, <3>1 DEF keyboard_buffer_put, TypeOK
    <3>3. handler = "keyboard_interrupt_handler" /\ UNCHANGED <<handler, pc, reg>>
      BY <1>0, <1>1, <2>1, KeyEventEffect DEF PutOne
    <3> QED BY <1>0, <3>2, <3>3 DEF TypeOK
  <2>2. CASE UNCHANGED <<buffer, head, tail, count, accepted, taken, lapped>>
    BY <1>0, <1>1, <2>2, KeyEventEffect
  <2> QED BY <1>0, <1>1, <2>1, <2>2, KeyEventEffect
<1>2. CASE TimerInterrupt
  BY <1>2 DEF TimerInterrupt, ring, reader, history
<1>3. CASE init_keyboard /\ UNCHANGED <<c, reg, ret, halted, held>>
  <2>1. accepted = <<>> /\ taken = 0 /\ UNCHANGED <<accepted, taken>> /\ count' = 0
    BY <1>3 DEF init_keyboard, Goto, history, ring
  <2>2. Len(accepted') - taken' = 0
    BY <2>1
  <2> QED BY <1>3, <2>1, <2>2 DEF init_keyboard, Goto, history, ring
<1>4. CASE /\ Poll \/ CallGetchar \/ CallBufferGet \/ keyboard_getchar \/ Hlt
           /\ UNCHANGED <<keyboard_state, keyboard_stats, handler, held>>
  BY <1>4 DEF Poll, CallGetchar, CallBufferGet, keyboard_getchar, Hlt, Goto, ring, history
<1>5. CASE /\ keyboard_buffer_get
           /\ UNCHANGED <<keyboard_state, keyboard_stats, handler, held>>
  <2>1. UNCHANGED accepted /\ Len(accepted) \in Nat
    BY <1>0, <1>5 DEF keyboard_buffer_get, history, TypeOK
  <2>2. StartInv'
    BY <1>0, <1>5 DEF keyboard_buffer_get, Goto, TypeOK
  <2>3. CountInv'
    BY <1>0, <1>5, <2>1, SMTT(30)
    DEF keyboard_buffer_get, keyboard_buffer_is_empty, Goto, TypeOK, ring, history
  <2> QED BY <2>2, <2>3
<1>6. CASE /\ keyboard_flush_buffer
           /\ UNCHANGED <<keyboard_state, keyboard_stats, handler, held>>
  BY <1>0, <1>6 DEF keyboard_flush_buffer, Goto, TypeOK, history
<1>7. CASE UNCHANGED vars
  BY <1>7 DEF vars, ring, reader, history
<1> QED BY <1>1, <1>2, <1>3, <1>4, <1>5, <1>6, <1>7 DEF Next, Interrupt, Reader,
  KernelMain, OtherCalls, KeyEvent

(* Every step keeps head where tail and the unread say it is.              *)
LEMMA NextRing == IInv /\ [Next]_vars => RingPointers'
<1> SUFFICES ASSUME IInv, [Next]_vars PROVE RingPointers'
  OBVIOUS
<1> USE SizeAssumption DEF RingPointers, Oldest, Unread
<1>0. TypeOK /\ RingPointers /\ Unread \in Nat /\ Oldest \in Nat
  <2>1. TypeOK /\ RingPointers
    BY DEF IInv
  <2>2. Len(accepted) \in Nat /\ taken \in 0 .. Len(accepted) /\ tail \in Nat
    BY <2>1 DEF TypeOK, Slots
  <2> QED BY <2>1, <2>2
<1>1. ASSUME NEW k \in Keys, KeyEvent(k) PROVE RingPointers'
  <2>1. CASE PutOne
    <3>1. PICK ch \in Chars : keyboard_buffer_put(ch)
      BY <2>1 DEF PutOne
    <3>2. Unread' = Unread + 1 /\ Oldest' = Oldest
      <4>1. Len(accepted') = Len(accepted) + 1 /\ Len(accepted) \in Nat /\ taken \in Nat
        BY <1>0, <3>1 DEF keyboard_buffer_put, TypeOK
      <4>2. UNCHANGED <<taken, tail, pc>>
        BY <1>0, <1>1, <3>1, KeyEventEffect DEF keyboard_buffer_put
      <4> QED BY <4>1, <4>2
    <3>3. head' = (((Oldest + Unread) % KEYBOARD_BUFFER_SIZE) + 1) % KEYBOARD_BUFFER_SIZE
      BY <1>0, <3>1 DEF keyboard_buffer_put
    <3> HIDE DEF Oldest, Unread
    <3>4. head' = ((Oldest + Unread) + 1) % KEYBOARD_BUFFER_SIZE
      <4>1. Oldest + Unread \in Nat
        BY <1>0
      <4> QED BY <4>1, <3>3, ModSum
    <3>5. (Oldest + Unread) + 1 = Oldest + (Unread + 1)
      BY <1>0
    <3> QED BY <3>2, <3>4, <3>5
  <2>2. CASE UNCHANGED <<buffer, head, tail, count, accepted, taken, lapped>>
    BY <1>0, <1>1, <2>2, KeyEventEffect
  <2> QED BY <1>0, <1>1, <2>1, <2>2, KeyEventEffect
<1>2. CASE TimerInterrupt
  BY <1>0, <1>2 DEF TimerInterrupt, ring, reader, history
<1>3. CASE init_keyboard /\ UNCHANGED <<c, reg, ret, halted, held>>
  <2>1. /\ head' = 0 /\ tail' = 0 /\ accepted' = <<>> /\ taken' = 0
        /\ pc' # "flush_tail"
    BY <1>3 DEF init_keyboard, Goto, history, ring, IInv, StartInv, Starting
  <2>2. Unread' = 0 /\ Oldest' = 0
    BY <2>1
  <2>3. 0 % KEYBOARD_BUFFER_SIZE = 0
    OBVIOUS
  <2> QED BY <2>1, <2>2, <2>3
<1>4. CASE /\ Poll \/ CallGetchar \/ CallBufferGet \/ keyboard_getchar \/ Hlt
           /\ UNCHANGED <<keyboard_state, keyboard_stats, handler, held>>
  BY <1>0, <1>4 DEF Poll, CallGetchar, CallBufferGet, keyboard_getchar, Hlt, Goto,
                    ring, history
<1>5. CASE /\ keyboard_buffer_get
           /\ UNCHANGED <<keyboard_state, keyboard_stats, handler, held>>
  <2>1. CASE pc = "advance"
    <3>1. /\ tail' = (tail + 1) % KEYBOARD_BUFFER_SIZE /\ taken' = taken + 1
          /\ UNCHANGED <<head, accepted>> /\ pc' = "load"
      BY <1>5, <2>1 DEF keyboard_buffer_get, Goto
    <3>2. Unread >= 1 /\ Oldest = tail /\ tail \in Nat
      BY <2>1, <1>0 DEF IInv, CountInv, AtRest, TypeOK, Slots
    <3>3. Unread' = Unread - 1 /\ Oldest' = (Oldest + 1) % KEYBOARD_BUFFER_SIZE
      BY <1>0, <3>1, <3>2 DEF TypeOK
    <3> HIDE DEF Oldest, Unread
    <3>4. (((Oldest + 1) % KEYBOARD_BUFFER_SIZE) + (Unread - 1)) % KEYBOARD_BUFFER_SIZE
            = ((Oldest + 1) + (Unread - 1)) % KEYBOARD_BUFFER_SIZE
      <4>1. Oldest + 1 \in Nat /\ Unread - 1 \in Nat
        BY <1>0, <3>2
      <4> QED BY <4>1, ModSum
    <3>5. (Oldest + 1) + (Unread - 1) = Oldest + Unread
      BY <1>0
    <3> QED BY <1>0, <3>1, <3>3, <3>4, <3>5
  <2>2. CASE pc # "advance"
    <3>1. UNCHANGED <<head, tail, accepted, taken>> /\ pc # "flush_tail" /\ pc' # "flush_tail"
      BY <1>0, <1>5, <2>2 DEF keyboard_buffer_get, Goto, ring, history, TypeOK
    <3> QED BY <1>0, <3>1
  <2> QED BY <2>1, <2>2
<1>6. CASE /\ keyboard_flush_buffer
           /\ UNCHANGED <<keyboard_state, keyboard_stats, handler, held>>
  <2>1. 0 % KEYBOARD_BUFFER_SIZE = 0 /\ Len(accepted) - Len(accepted) = 0
    BY <1>0 DEF TypeOK
  <2> QED BY <1>0, <1>6, <2>1 DEF keyboard_flush_buffer, Goto, history
<1>7. CASE UNCHANGED vars
  BY <1>0, <1>7 DEF vars, ring, reader, history
<1> QED BY <1>1, <1>2, <1>3, <1>4, <1>5, <1>6, <1>7 DEF Next, Interrupt, Reader,
  KernelMain, OtherCalls, KeyEvent

(* IInv holds in every reachable state.                                    *)
THEOREM Inductive == Spec => []IInv
<1>1. Init => IInv
  BY InitIInv
<1>2. IInv /\ [Next]_vars => IInv'
  BY NextType, NextCount, NextRing DEF IInv
<1> QED BY <1>1, <1>2, PTL DEF Spec

(* count stays within the ring and every variable keeps its type: the race *)
(* between keyboard_buffer_get() and the interrupt handler can make count  *)
(* wrong, but never makes it wrap or exceed KEYBOARD_BUFFER_SIZE.          *)
THEOREM TypeCorrect == Spec => []TypeOK
<1>1. IInv => TypeOK
  BY DEF IInv
<1> QED BY <1>1, Inductive, PTL

(* A reader that keyboard_buffer_is_empty() lets through finds a character *)
(* in the ring.                                                            *)
THEOREM CountIsSafe == Spec => []NeverOvercounts
<1>1. IInv => NeverOvercounts
  BY DEF IInv, CountInv, NeverOvercounts
<1> QED BY <1>1, Inductive, PTL

(* head and tail always delimit exactly the unread characters.             *)
THEOREM PointersAreExact == Spec => []RingPointers
<1>1. IInv => RingPointers
  BY DEF IInv
<1> QED BY <1>1, Inductive, PTL

-----------------------------------------------------------------------------
(* First in, first out.  Until an unread slot is overwritten the slots     *)
(* from the oldest one on hold the accepted characters not yet taken.      *)
Holds(b, o, acc, t, n) ==
  \A i \in 0 .. n - 1 : b[(o + i) % KEYBOARD_BUFFER_SIZE] = acc[t + i + 1]

FifoInv ==
  ~lapped => /\ Unread <= KEYBOARD_BUFFER_SIZE
             /\ Holds(buffer, Oldest, accepted, taken, Unread)
             /\ pc = "advance" => c = accepted[taken + 1]

(* keyboard_buffer_put() appends to the contents and disturbs none of it.  *)
LEMMA PutFifo ==
  ASSUME IInv, FifoInv, ~lapped, Unread < KEYBOARD_BUFFER_SIZE,
         NEW ch \in Chars, keyboard_buffer_put(ch)
  PROVE  Holds(buffer', Oldest, accepted', taken, Unread + 1)
<1> USE SizeAssumption
<1>1. /\ Oldest \in Slots /\ Unread \in Nat /\ buffer \in [Slots -> Chars \cup {NUL}]
      /\ accepted \in Seq(Chars) /\ taken \in Nat /\ Len(accepted) = taken + Unread
      /\ head = (Oldest + Unread) % KEYBOARD_BUFFER_SIZE /\ head \in Slots
  <2>1. TypeOK /\ RingPointers
    BY DEF IInv
  <2>2. Oldest \in Slots
    BY <2>1 DEF Oldest, TypeOK, Slots
  <2>3. Unread \in Nat /\ taken \in Nat /\ Len(accepted) = taken + Unread
    BY <2>1 DEF TypeOK, Unread
  <2> QED BY <2>1, <2>2, <2>3 DEF TypeOK, RingPointers
<1>2. buffer' = [buffer EXCEPT ![head] = ch] /\ accepted' = Append(accepted, ch)
  BY DEF keyboard_buffer_put
<1> SUFFICES ASSUME NEW i \in 0 .. Unread
             PROVE  buffer'[(Oldest + i) % KEYBOARD_BUFFER_SIZE] = accepted'[taken + i + 1]
  <2>1. 0 .. (Unread + 1) - 1 = 0 .. Unread
    BY <1>1
  <2> QED BY <2>1 DEF Holds
<1>3. CASE i = Unread
  <2>1. buffer'[head] = ch
    BY <1>1, <1>2
  <2>2. accepted'[taken + i + 1] = ch
    BY <1>1, <1>2, <1>3
  <2> QED BY <1>1, <1>3, <2>1, <2>2
<1>4. CASE i # Unread
  <2>1. i \in Nat /\ i < Unread /\ i \in 0 .. Unread - 1
    BY <1>1, <1>4
  <2>2. (Oldest + i) % KEYBOARD_BUFFER_SIZE # head
    BY <1>1, <2>1, ModDistinct DEF Slots
  <2>3. (Oldest + i) % KEYBOARD_BUFFER_SIZE \in Slots
    <3>1. Oldest + i \in Nat
      BY <1>1, <2>1 DEF Slots
    <3> HIDE DEF Oldest
    <3> QED BY <3>1 DEF Slots
  <2>4. buffer'[(Oldest + i) % KEYBOARD_BUFFER_SIZE]
          = buffer[(Oldest + i) % KEYBOARD_BUFFER_SIZE]
    BY <1>1, <1>2, <2>2, <2>3
  <2>5. accepted'[taken + i + 1] = accepted[taken + i + 1]
    BY <1>1, <1>2, <2>1
  <2>6. buffer[(Oldest + i) % KEYBOARD_BUFFER_SIZE] = accepted[taken + i + 1]
    BY <2>1 DEF FifoInv, Holds
  <2> QED BY <2>4, <2>5, <2>6
<1> QED BY <1>3, <1>4

(* Every step keeps the ring's contents those of the history.              *)
LEMMA NextFifo == IInv /\ FifoInv /\ [Next]_vars => FifoInv'
<1> SUFFICES ASSUME IInv, FifoInv, [Next]_vars, ~lapped' PROVE FifoInv'
  BY DEF FifoInv
<1> USE SizeAssumption
<1>0. /\ TypeOK /\ Unread \in Nat /\ Oldest \in Slots /\ taken \in Nat
      /\ accepted \in Seq(Chars) /\ Len(accepted) = taken + Unread
  BY DEF IInv, TypeOK, Unread, Oldest, Slots
<1>1. ASSUME NEW k \in Keys, KeyEvent(k) PROVE FifoInv'
  <2>1. CASE PutOne
    <3>1. PICK ch \in Chars : keyboard_buffer_put(ch)
      BY <2>1 DEF PutOne
    <3>2. ~lapped /\ Unread < KEYBOARD_BUFFER_SIZE
      <4>1. ~(lapped \/ Unread >= KEYBOARD_BUFFER_SIZE)
        BY <3>1 DEF keyboard_buffer_put
      <4> QED BY <1>0, <4>1
    <3>3. /\ accepted' = Append(accepted, ch) /\ UNCHANGED <<tail, taken, pc, c>>
      BY <1>0, <1>1, <3>1, KeyEventEffect DEF keyboard_buffer_put
    <3>4. Unread' = Unread + 1 /\ Oldest' = Oldest
      BY <1>0, <3>3 DEF Unread, Oldest
    <3>5. Holds(buffer', Oldest', accepted', taken', Unread')
      BY <3>1, <3>2, <3>3, <3>4, PutFifo
    <3>6. pc' = "advance" => c' = accepted'[taken' + 1]
      <4>1. pc = "advance" => Unread >= 1
        BY <1>0 DEF IInv, CountInv, AtRest, TypeOK
      <4> QED BY <1>0, <3>2, <3>3, <4>1 DEF FifoInv
    <3> QED BY <1>0, <3>2, <3>4, <3>5, <3>6 DEF FifoInv
  <2>2. CASE UNCHANGED <<buffer, head, tail, count, accepted, taken, lapped>>
    BY <1>0, <1>1, <2>2, KeyEventEffect DEF FifoInv, Holds, Unread, Oldest
  <2> QED BY <1>0, <1>1, <2>1, <2>2, KeyEventEffect
<1>2. CASE UNCHANGED <<buffer, tail, accepted, taken, lapped, c>>
           /\ pc # "flush_tail" /\ pc' # "flush_tail" /\ pc' # "advance"
  BY <1>2 DEF FifoInv, Holds, Unread, Oldest
<1>3. CASE TimerInterrupt \/ UNCHANGED vars
  BY <1>3 DEF TimerInterrupt, vars, ring, reader, history, FifoInv, Holds, Unread, Oldest
<1>4. CASE init_keyboard /\ UNCHANGED <<c, reg, ret, halted, held>>
  <2>1. /\ tail' = tail /\ UNCHANGED <<buffer, accepted, taken, lapped>>
        /\ pc \in Starting /\ pc' # "flush_tail" /\ pc' # "advance"
    BY <1>4 DEF init_keyboard, Goto, ring, history, IInv, StartInv, Starting
  <2> QED BY <1>2, <1>4, <2>1 DEF Starting
<1>5. CASE /\ Poll \/ CallGetchar \/ CallBufferGet \/ keyboard_getchar \/ Hlt
           /\ UNCHANGED <<keyboard_state, keyboard_stats, handler, held>>
  BY <1>2, <1>5 DEF Poll, CallGetchar, CallBufferGet, keyboard_getchar, Hlt, Goto,
                    ring, history
<1>6. CASE /\ keyboard_buffer_get
           /\ UNCHANGED <<keyboard_state, keyboard_stats, handler, held>>
  <2>1. CASE pc = "read"
    <3>1. c' = buffer[tail] /\ UNCHANGED <<ring, history>> /\ pc' = "advance"
      BY <1>6, <2>1 DEF keyboard_buffer_get, Goto
    <3>2. Unread >= 1 /\ Oldest = tail
      BY <1>0, <2>1 DEF IInv, CountInv, AtRest, TypeOK, Oldest
    <3>3. (tail + 0) % KEYBOARD_BUFFER_SIZE = tail
      BY <1>0, <3>2 DEF Slots
    <3>4. buffer[tail] = accepted[taken + 1]
      <4>1. ~lapped /\ 0 \in 0 .. Unread - 1
        BY <1>0, <3>1, <3>2 DEF history
      <4>2. buffer[(Oldest + 0) % KEYBOARD_BUFFER_SIZE] = accepted[taken + 0 + 1]
        BY <4>1 DEF FifoInv, Holds
      <4> QED BY <1>0, <3>2, <3>3, <4>2
    <3> QED BY <2>1, <3>1, <3>2, <3>4 DEF FifoInv, Holds, Unread, Oldest, ring, history
  <2>2. CASE pc = "advance"
    <3>1. /\ tail' = (tail + 1) % KEYBOARD_BUFFER_SIZE /\ taken' = taken + 1
          /\ UNCHANGED <<buffer, accepted, lapped>> /\ pc' = "load"
      BY <1>6, <2>2 DEF keyboard_buffer_get, Goto
    <3>2. Oldest = tail /\ Oldest' = (tail + 1) % KEYBOARD_BUFFER_SIZE /\ tail \in Slots
      BY <1>0, <2>2, <3>1 DEF Oldest, TypeOK
    <3>3. Unread' = Unread - 1
      BY <1>0, <3>1 DEF Unread
    <3>4. ASSUME NEW i \in 0 .. Unread' - 1
          PROVE  buffer'[(Oldest' + i) % KEYBOARD_BUFFER_SIZE] = accepted'[taken' + i + 1]
      <4>1. i \in Nat /\ i + 1 \in 0 .. Unread - 1 /\ tail \in Nat
        BY <1>0, <3>2, <3>3 DEF Slots
      <4>2. (Oldest' + i) % KEYBOARD_BUFFER_SIZE = ((tail + 1) + i) % KEYBOARD_BUFFER_SIZE
        <5>1. tail + 1 \in Nat
          BY <4>1
        <5>2. (((tail + 1) % KEYBOARD_BUFFER_SIZE) + i) % KEYBOARD_BUFFER_SIZE
                = ((tail + 1) + i) % KEYBOARD_BUFFER_SIZE
          BY <4>1, <5>1, ModSum
        <5> QED BY <3>2, <5>2
      <4>3. (tail + 1) + i = tail + (i + 1) /\ (taken + 1) + i + 1 = taken + (i + 1) + 1
        BY <1>0, <4>1
      <4>4. buffer[(tail + (i + 1)) % KEYBOARD_BUFFER_SIZE] = accepted[taken + (i + 1) + 1]
        BY <3>1, <3>2, <4>1 DEF FifoInv, Holds
      <4> QED BY <3>1, <4>2, <4>3, <4>4
    <3> QED BY <1>0, <3>1, <3>3, <3>4 DEF FifoInv, Holds
  <2>3. CASE pc \notin {"read", "advance"}
    <3>1. /\ UNCHANGED <<buffer, tail, accepted, taken, lapped>>
          /\ pc # "flush_tail" /\ pc' # "flush_tail" /\ pc' # "advance"
      BY <1>0, <1>6, <2>3 DEF keyboard_buffer_get, Goto, ring, history, TypeOK
    <3> QED BY <3>1 DEF FifoInv, Holds, Unread, Oldest
  <2> QED BY <2>1, <2>2, <2>3
<1>7. CASE /\ keyboard_flush_buffer
           /\ UNCHANGED <<keyboard_state, keyboard_stats, handler, held>>
  <2>1. CASE pc = "idle"
    <3>1. /\ taken' = Len(accepted) /\ accepted' = accepted /\ pc' = "flush_tail"
      BY <1>7, <2>1 DEF keyboard_flush_buffer, Goto
    <3>2. Unread' = 0
      BY <1>0, <3>1 DEF Unread
    <3> QED BY <3>1, <3>2 DEF FifoInv, Holds
  <2>2. CASE pc # "idle"
    <3>1. /\ UNCHANGED <<buffer, accepted, taken, lapped>> /\ Oldest' = Oldest
          /\ pc' # "advance"
      BY <1>7, <2>2 DEF keyboard_flush_buffer, Goto, history, Oldest
    <3> QED BY <3>1 DEF FifoInv, Holds, Unread
  <2> QED BY <2>1, <2>2
<1> QED BY <1>1, <1>3, <1>4, <1>5, <1>6, <1>7 DEF Next, Interrupt, Reader,
  KernelMain, OtherCalls, KeyEvent

(* Characters are read in the order they were typed, each once, as long as *)
(* no unread slot was overwritten, wherever interrupts fall in             *)
(* keyboard_buffer_get() and keyboard_flush_buffer().                      *)
THEOREM Fifo == Spec => []FirstInFirstOut
<1>1. Init => FifoInv
  <2>1. Init => Unread = 0 /\ pc # "advance"
    BY DEF Init, Unread
  <2> QED BY <2>1, SizeAssumption DEF FifoInv, Holds
<1>2. IInv /\ FifoInv /\ [Next]_vars => FifoInv'
  BY NextFifo
<1>3. FifoInv => FirstInFirstOut
  BY DEF FifoInv, FirstInFirstOut
<1> QED BY <1>1, <1>2, <1>3, Inductive, PTL DEF Spec

-----------------------------------------------------------------------------
(* The statistics and the modifier flags.                                  *)

(* What a key event does to the counters.  Exactly one of the four ways a  *)
(* press can end is counted, and a character only when it is accepted.     *)
LEMMA KeyEventCounts ==
  ASSUME TypeOK, PressesAccounted, NEW k \in Keys, KeyEvent(k)
  PROVE  PressesAccounted'
<1>0. /\ keyboard_stats \in [total_keypresses : Nat, total_releases : Nat,
                             special_keys : Nat, buffer_overflows : Nat,
                             invalid_scancodes : Nat]
      /\ accepted \in Seq(Chars) /\ Len(accepted) \in Nat
  BY DEF TypeOK
<1>1. CASE KeyRelease(k)
  <2>1. UNCHANGED accepted
    BY <1>1 DEF KeyRelease, keyboard_handler, history
  <2>2. \/ UNCHANGED keyboard_stats
        \/ keyboard_stats' = [keyboard_stats EXCEPT !.total_releases = @ + 1]
    BY <1>1 DEF KeyRelease, keyboard_handler, handle_key_release
  <2> QED BY <1>0, <2>1, <2>2 DEF PressesAccounted
<1>2. CASE KeyPress(k)
  <2>1. CASE keyboard_handler
    BY <2>1 DEF keyboard_handler, history, PressesAccounted
  <2>2. CASE handle_key_press(k)
    <3>1. CASE UNCHANGED accepted
      <4>1. \/ keyboard_stats' = [keyboard_stats EXCEPT !.total_keypresses = @ + 1,
                                                        !.special_keys = @ + 1]
            \/ keyboard_stats' = [keyboard_stats EXCEPT !.total_keypresses = @ + 1,
                                                        !.invalid_scancodes = @ + 1]
            \/ keyboard_stats' = [keyboard_stats EXCEPT !.total_keypresses = @ + 1,
                                                        !.buffer_overflows = @ + 1]
        <5>1. ASSUME keyboard_buffer_put(scancode_to_ascii(k)) PROVE FALSE
          <6>1. accepted' = Append(accepted, scancode_to_ascii(k))
            BY <5>1 DEF keyboard_buffer_put
          <6>2. Len(Append(accepted, scancode_to_ascii(k))) = Len(accepted) + 1
            BY <1>0
          <6> QED BY <1>0, <3>1, <6>1, <6>2
        <5> QED BY <2>2, <5>1 DEF handle_key_press, count_overflow
      <4>2. CASE keyboard_stats' = [keyboard_stats EXCEPT !.total_keypresses = @ + 1,
                                                          !.special_keys = @ + 1]
        <5>1. /\ keyboard_stats'.total_keypresses = keyboard_stats.total_keypresses + 1
              /\ keyboard_stats'.special_keys = keyboard_stats.special_keys + 1
              /\ keyboard_stats'.invalid_scancodes = keyboard_stats.invalid_scancodes
              /\ keyboard_stats'.buffer_overflows = keyboard_stats.buffer_overflows
          BY <1>0, <4>2
        <5> QED BY <1>0, <3>1, <5>1 DEF PressesAccounted
      <4>3. CASE keyboard_stats' = [keyboard_stats EXCEPT !.total_keypresses = @ + 1,
                                                          !.invalid_scancodes = @ + 1]
        <5>1. /\ keyboard_stats'.total_keypresses = keyboard_stats.total_keypresses + 1
              /\ keyboard_stats'.special_keys = keyboard_stats.special_keys
              /\ keyboard_stats'.invalid_scancodes = keyboard_stats.invalid_scancodes + 1
              /\ keyboard_stats'.buffer_overflows = keyboard_stats.buffer_overflows
          BY <1>0, <4>3
        <5> QED BY <1>0, <3>1, <5>1 DEF PressesAccounted
      <4>4. CASE keyboard_stats' = [keyboard_stats EXCEPT !.total_keypresses = @ + 1,
                                                          !.buffer_overflows = @ + 1]
        <5>1. /\ keyboard_stats'.total_keypresses = keyboard_stats.total_keypresses + 1
              /\ keyboard_stats'.special_keys = keyboard_stats.special_keys
              /\ keyboard_stats'.invalid_scancodes = keyboard_stats.invalid_scancodes
              /\ keyboard_stats'.buffer_overflows = keyboard_stats.buffer_overflows + 1
          BY <1>0, <4>4
        <5> QED BY <1>0, <3>1, <5>1 DEF PressesAccounted
      <4> QED BY <4>1, <4>2, <4>3, <4>4
    <3>2. CASE ~UNCHANGED accepted
      <4>1. /\ keyboard_buffer_put(scancode_to_ascii(k))
            /\ keyboard_stats' = [keyboard_stats EXCEPT !.total_keypresses = @ + 1]
        BY <2>2, <3>2 DEF handle_key_press, history
      <4>2. Len(accepted') = Len(accepted) + 1
        BY <1>0, <4>1 DEF keyboard_buffer_put
      <4>3. /\ keyboard_stats'.total_keypresses = keyboard_stats.total_keypresses + 1
            /\ keyboard_stats'.special_keys = keyboard_stats.special_keys
            /\ keyboard_stats'.invalid_scancodes = keyboard_stats.invalid_scancodes
            /\ keyboard_stats'.buffer_overflows = keyboard_stats.buffer_overflows
        BY <1>0, <4>1
      <4>4. /\ keyboard_stats.total_keypresses \in Nat /\ keyboard_stats.special_keys \in Nat
            /\ keyboard_stats.invalid_scancodes \in Nat /\ keyboard_stats.buffer_overflows \in Nat
        BY <1>0
      <4> DEFINE n == Len(accepted)
      <4> DEFINE m == Len(accepted')
      <4>5. n \in Nat /\ m = n + 1
        BY <1>0, <4>2
      <4>6. keyboard_stats.total_keypresses =
              keyboard_stats.special_keys + keyboard_stats.invalid_scancodes
                + keyboard_stats.buffer_overflows + n
        BY DEF PressesAccounted
      <4> HIDE DEF n, m
      <4>7. keyboard_stats'.total_keypresses =
              keyboard_stats'.special_keys + keyboard_stats'.invalid_scancodes
                + keyboard_stats'.buffer_overflows + m
        BY <4>3, <4>4, <4>5, <4>6
      <4> QED BY <4>7 DEF PressesAccounted, m
    <3> QED BY <3>1, <3>2
  <2> QED BY <1>2, <2>1, <2>2 DEF KeyPress
<1> QED BY <1>1, <1>2 DEF KeyEvent

(* Every key press the handler counted is a modifier, an unmapped          *)
(* scancode, a rejected or an accepted character, and only one of them.    *)
THEOREM StatisticsAddUp == Spec => []PressesAccounted
<1>1. Init => PressesAccounted
  BY DEF Init, PressesAccounted, ZeroStats
<1>2. IInv /\ PressesAccounted /\ [Next]_vars => PressesAccounted'
  <2> SUFFICES ASSUME IInv, PressesAccounted, [Next]_vars PROVE PressesAccounted'
    OBVIOUS
  <2>1. ASSUME NEW k \in Keys, KeyEvent(k) PROVE PressesAccounted'
    BY <2>1, KeyEventCounts DEF IInv
  <2>2. CASE init_keyboard
    <3>1. accepted' = <<>> /\ accepted = <<>>
      BY <2>2 DEF init_keyboard, Goto, history, IInv, StartInv, Starting
    <3>2. keyboard_stats' \in {keyboard_stats, ZeroStats}
      BY <2>2 DEF init_keyboard
    <3> QED BY <3>1, <3>2 DEF PressesAccounted, ZeroStats
  <2>3. CASE UNCHANGED <<keyboard_stats, accepted>>
    BY <2>3 DEF PressesAccounted
  <2>4. TimerInterrupt \/ UNCHANGED vars => UNCHANGED <<keyboard_stats, accepted>>
    BY DEF TimerInterrupt, vars, history
  <2>5. ASSUME Reader, ~init_keyboard PROVE UNCHANGED <<keyboard_stats, accepted>>
    BY <2>5 DEF Reader, KernelMain, OtherCalls, Poll, CallGetchar, CallBufferGet, keyboard_getchar,
                keyboard_buffer_get, Hlt, keyboard_flush_buffer, history
  <2> QED BY <2>1, <2>2, <2>3, <2>4, <2>5 DEF Next, Interrupt, KeyEvent
<1> QED BY <1>1, <1>2, Inductive, PTL DEF Spec

(* Until the handler is registered no flag is set: a release that          *)
(* interrupt.c's own handler swallows cannot leave one behind.             *)
FlagInv ==
  /\ NoStuckModifier
  /\ handler = "keyboard_handler" => keyboard_state = NoModifiers

(* A press sets at most the flag of its own key, which is then held.       *)
LEMMA PressFlags ==
  ASSUME TypeOK, FlagInv, NEW k \in Keys, KeyPress(k)
  PROVE  FlagInv'
<1>0. keyboard_state \in [shift_pressed : BOOLEAN, ctrl_pressed : BOOLEAN,
                          alt_pressed : BOOLEAN, caps_lock : BOOLEAN]
  BY DEF TypeOK
<1>1. held' = held \cup {k} /\ handler' = handler
  BY DEF KeyPress
<1>2. CASE UNCHANGED keyboard_state
  BY <1>1, <1>2 DEF FlagInv, NoStuckModifier
<1>3. CASE handler # "keyboard_handler" /\ handle_special_key(k)
  <2>1. CASE k \in {KEY_LSHIFT, KEY_RSHIFT}
    <3>1. keyboard_state' = [keyboard_state EXCEPT !.shift_pressed = TRUE]
      BY <1>3, <2>1 DEF handle_special_key, KEY_LSHIFT, KEY_RSHIFT, KEY_CTRL, KEY_ALT, KEY_CAPS
    <3>2. /\ keyboard_state'.ctrl_pressed = keyboard_state.ctrl_pressed
          /\ keyboard_state'.alt_pressed = keyboard_state.alt_pressed
      BY <1>0, <3>1
    <3> QED BY <1>1, <1>3, <2>1, <3>2 DEF FlagInv, NoStuckModifier
  <2>2. CASE k = KEY_CTRL
    <3>1. keyboard_state' = [keyboard_state EXCEPT !.ctrl_pressed = TRUE]
      BY <1>3, <2>2 DEF handle_special_key, KEY_LSHIFT, KEY_RSHIFT, KEY_CTRL, KEY_ALT, KEY_CAPS
    <3>2. /\ keyboard_state'.shift_pressed = keyboard_state.shift_pressed
          /\ keyboard_state'.alt_pressed = keyboard_state.alt_pressed
      BY <1>0, <3>1
    <3> QED BY <1>1, <1>3, <2>2, <3>2 DEF FlagInv, NoStuckModifier
  <2>3. CASE k = KEY_ALT
    <3>1. keyboard_state' = [keyboard_state EXCEPT !.alt_pressed = TRUE]
      BY <1>3, <2>3 DEF handle_special_key, KEY_LSHIFT, KEY_RSHIFT, KEY_CTRL, KEY_ALT, KEY_CAPS
    <3>2. /\ keyboard_state'.shift_pressed = keyboard_state.shift_pressed
          /\ keyboard_state'.ctrl_pressed = keyboard_state.ctrl_pressed
      BY <1>0, <3>1
    <3> QED BY <1>1, <1>3, <2>3, <3>2 DEF FlagInv, NoStuckModifier
  <2>4. CASE k \notin {KEY_LSHIFT, KEY_RSHIFT, KEY_CTRL, KEY_ALT}
    <3>1. keyboard_state' \in {keyboard_state,
                               [keyboard_state EXCEPT !.caps_lock = ~keyboard_state.caps_lock]}
      BY <1>3, <2>4 DEF handle_special_key
    <3>2. /\ keyboard_state'.shift_pressed = keyboard_state.shift_pressed
          /\ keyboard_state'.ctrl_pressed = keyboard_state.ctrl_pressed
          /\ keyboard_state'.alt_pressed = keyboard_state.alt_pressed
      BY <1>0, <3>1
    <3> QED BY <1>1, <1>3, <3>2 DEF FlagInv, NoStuckModifier
  <2> QED BY <2>1, <2>2, <2>3, <2>4
<1>4. \/ UNCHANGED keyboard_state
      \/ handler # "keyboard_handler" /\ handle_special_key(k)
  BY DEF KeyPress, keyboard_handler, handle_key_press
<1> QED BY <1>2, <1>3, <1>4

(* A release clears the flag of its key, whichever Shift it is.            *)
LEMMA ReleaseFlags ==
  ASSUME TypeOK, FlagInv, NEW k \in Keys, KeyRelease(k)
  PROVE  FlagInv'
<1>0. keyboard_state \in [shift_pressed : BOOLEAN, ctrl_pressed : BOOLEAN,
                          alt_pressed : BOOLEAN, caps_lock : BOOLEAN]
      /\ handler \in {"keyboard_handler", "keyboard_interrupt_handler"}
  BY DEF TypeOK
<1>1. held' = held \ {k} /\ handler' = handler
  BY DEF KeyRelease
<1>2. CASE handler = "keyboard_handler"
  <2>1. keyboard_state' = NoModifiers
    BY <1>2 DEF KeyRelease, keyboard_handler, FlagInv
  <2> QED BY <2>1 DEF FlagInv, NoStuckModifier, NoModifiers
<1>3. CASE handler = "keyboard_interrupt_handler"
  <2>0. keyboard_state' =
           CASE k \in {KEY_LSHIFT, KEY_RSHIFT} ->
                  [keyboard_state EXCEPT !.shift_pressed = FALSE]
             [] k = KEY_CTRL -> [keyboard_state EXCEPT !.ctrl_pressed = FALSE]
             [] k = KEY_ALT  -> [keyboard_state EXCEPT !.alt_pressed = FALSE]
             [] OTHER        -> keyboard_state
    BY <1>3 DEF KeyRelease, keyboard_handler, handle_key_release
  <2>1. CASE k \in {KEY_LSHIFT, KEY_RSHIFT}
    <3>1. keyboard_state' = [keyboard_state EXCEPT !.shift_pressed = FALSE]
      BY <2>0, <2>1 DEF KEY_LSHIFT, KEY_RSHIFT, KEY_CTRL, KEY_ALT
    <3>2. /\ ~keyboard_state'.shift_pressed
          /\ keyboard_state'.ctrl_pressed = keyboard_state.ctrl_pressed
          /\ keyboard_state'.alt_pressed = keyboard_state.alt_pressed
      BY <1>0, <3>1
    <3>3. k # KEY_CTRL /\ k # KEY_ALT
      BY <2>1 DEF KEY_LSHIFT, KEY_RSHIFT, KEY_CTRL, KEY_ALT
    <3> QED BY <1>1, <1>3, <3>2, <3>3 DEF FlagInv, NoStuckModifier
  <2>2. CASE k = KEY_CTRL
    <3>1. keyboard_state' = [keyboard_state EXCEPT !.ctrl_pressed = FALSE]
      BY <2>0, <2>2 DEF KEY_LSHIFT, KEY_RSHIFT, KEY_CTRL, KEY_ALT
    <3>2. /\ ~keyboard_state'.ctrl_pressed
          /\ keyboard_state'.shift_pressed = keyboard_state.shift_pressed
          /\ keyboard_state'.alt_pressed = keyboard_state.alt_pressed
      BY <1>0, <3>1
    <3>3. k # KEY_LSHIFT /\ k # KEY_RSHIFT /\ k # KEY_ALT
      BY <2>2 DEF KEY_LSHIFT, KEY_RSHIFT, KEY_CTRL, KEY_ALT
    <3> QED BY <1>1, <1>3, <3>2, <3>3 DEF FlagInv, NoStuckModifier
  <2>3. CASE k = KEY_ALT
    <3>1. keyboard_state' = [keyboard_state EXCEPT !.alt_pressed = FALSE]
      BY <2>0, <2>3 DEF KEY_LSHIFT, KEY_RSHIFT, KEY_CTRL, KEY_ALT
    <3>2. /\ ~keyboard_state'.alt_pressed
          /\ keyboard_state'.shift_pressed = keyboard_state.shift_pressed
          /\ keyboard_state'.ctrl_pressed = keyboard_state.ctrl_pressed
      BY <1>0, <3>1
    <3>3. k # KEY_LSHIFT /\ k # KEY_RSHIFT /\ k # KEY_CTRL
      BY <2>3 DEF KEY_LSHIFT, KEY_RSHIFT, KEY_CTRL, KEY_ALT
    <3> QED BY <1>1, <1>3, <3>2, <3>3 DEF FlagInv, NoStuckModifier
  <2>4. CASE k \notin {KEY_LSHIFT, KEY_RSHIFT, KEY_CTRL, KEY_ALT}
    <3>1. keyboard_state' = keyboard_state
      BY <2>0, <2>4
    <3> QED BY <1>1, <1>3, <2>4, <3>1 DEF FlagInv, NoStuckModifier
  <2> QED BY <2>1, <2>2, <2>3, <2>4
<1> QED BY <1>0, <1>2, <1>3

(* A modifier flag is never left set with no such key held down, wherever  *)
(* the start of the driver falls among the presses and releases.           *)
THEOREM FlagsFollowKeys == Spec => []NoStuckModifier
<1>1. Init => FlagInv
  BY DEF Init, FlagInv, NoStuckModifier, NoModifiers
<1>2. IInv /\ FlagInv /\ [Next]_vars => FlagInv'
  <2> SUFFICES ASSUME IInv, FlagInv, [Next]_vars PROVE FlagInv'
    OBVIOUS
  <2>1. ASSUME NEW k \in Keys, KeyPress(k) \/ KeyRelease(k) PROVE FlagInv'
    BY <2>1, PressFlags, ReleaseFlags DEF IInv
  <2>2. CASE init_keyboard /\ UNCHANGED held
    <3>1. keyboard_state' = NoModifiers
      BY <2>2 DEF init_keyboard, Goto, IInv, StartInv, Starting, FlagInv
    <3> QED BY <3>1 DEF FlagInv, NoStuckModifier, NoModifiers
  <2>3. CASE UNCHANGED <<keyboard_state, held, handler>>
    BY <2>3 DEF FlagInv, NoStuckModifier
  <2>4. TimerInterrupt \/ UNCHANGED vars => UNCHANGED <<keyboard_state, held, handler>>
    BY DEF TimerInterrupt, vars
  <2> QED BY <2>1, <2>2, <2>3, <2>4 DEF Next, Interrupt, Reader, KernelMain, OtherCalls
<1>3. FlagInv => NoStuckModifier
  BY DEF FlagInv
<1> QED BY <1>1, <1>2, <1>3, Inductive, PTL DEF Spec
=============================================================================
