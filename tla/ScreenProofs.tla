---------------------------- MODULE ScreenProofs ----------------------------
(***************************************************************************)
(* Theorems about the console: its types (ScreenTypeOK), the cursor on the *)
(* screen whenever kernel_main is not in a print_char (CursorIsOnScreen),  *)
(* how far below the screen an interrupted print_char may print            *)
(* (OneLineBelow), what the screen shows (ScreenShowsText), and how many   *)
(* steps a print_char takes (PrintCharIsBounded).                          *)
(*                                                                         *)
(* The inductive invariant CursorInv says at which steps the cursor may be *)
(* past the last column or the last line, and what the register of         *)
(* kernel_main holds at each step.  TextInv says for each step of a        *)
(* print_char that no handler interrupts how far the buffer and the cursor *)
(* are from the text: a character, a line break, or half a scroll.         *)
(*                                                                         *)
(* A handler prints a string of any length, and a text has any length, so  *)
(* that both are folds; FoldTrace gives the values that a fold takes on    *)
(* its way, and what holds of them is shown from a smallest one of which   *)
(* it does not.                                                            *)
(***************************************************************************)
EXTENDS Screen, Lemmas, SequenceTheorems

Area == VGA_WIDTH * VGA_HEIGHT

(* The buffer has no character two lines below the screen.                 *)
BufferInv ==
  /\ vga_buffer = [i \in Window |-> vga_buffer[i]]
  /\ \A i \in Window : i >= VGA_WIDTH * (VGA_HEIGHT + 1) => vga_buffer[i] = Blank

CursorInv ==
  /\ cursor_x \in 0 .. VGA_WIDTH /\ cursor_y \in 0 .. VGA_HEIGHT
  /\ cursor_x = VGA_WIDTH => pc \in {"test_x", "carriage_return"}
  /\ cursor_y = VGA_HEIGHT => pc \in {"test_y", "clamp_y"}
  /\ pc \in {"idle", "load_y", "load_x", "put", "inc_x", "store_x", "test_x",
             "carriage_return", "inc_y", "store_y", "test_y", "clamp_y",
             "copy", "store", "clear", "home_y", "home_x"}
  /\ reg \in Nat
  /\ pc = "load_x" => reg + VGA_WIDTH <= Area
  /\ pc = "put" => reg < Area
  /\ pc = "store_x" => reg < VGA_WIDTH
  /\ pc = "store_y" => reg < VGA_HEIGHT

ScrollInv ==
  /\ c \in Chars \cup {NEWLINE}
  /\ k \in 0 .. Area
  /\ pc \in {"copy", "store"} => k >= VGA_WIDTH
  /\ pc = "store" => k < Area

IInv == BufferInv /\ CursorInv /\ ScrollInv

-----------------------------------------------------------------------------
(* The sizes of the screen and of the lines below it.                      *)
LEMMA Geometry ==
  /\ VGA_WIDTH \in Nat \ {0} /\ VGA_HEIGHT \in Nat \ {0}
  /\ Area \in Nat /\ VGA_WIDTH <= Area /\ VGA_HEIGHT * VGA_WIDTH = Area
  /\ VGA_WIDTH * VGA_HEIGHT = Area
  /\ VGA_WIDTH * (VGA_HEIGHT + 1) = Area + VGA_WIDTH
  /\ VGA_WIDTH * (VGA_HEIGHT + 2) = Area + VGA_WIDTH + VGA_WIDTH
  /\ VGA_WIDTH * (VGA_HEIGHT - 1) = Area - VGA_WIDTH
  /\ \A y \in 0 .. VGA_HEIGHT - 1 : y * VGA_WIDTH \in Nat /\ y * VGA_WIDTH + VGA_WIDTH <= Area
<1>1. VGA_WIDTH \in Nat \ {0} /\ VGA_HEIGHT \in Nat \ {0}
  BY ScreenAssumption
<1>2. \A w, h \in Nat : /\ w * h \in Nat /\ h * w = w * h /\ w * (h + 1) = w * h + w
                        /\ w * (h + 2) = w * h + w + w /\ w * (h - 1) = w * h - w
  OBVIOUS
<1>3. \A w, a, b \in Nat : a <= b => w * a <= w * b
  <2> TAKE w \in Nat, a \in Nat, b \in Nat
  <2>1. HAVE a <= b
  <2>2. PICK d \in Nat : b = a + d
    <3>1. b - a \in Nat /\ b = a + (b - a)
      BY <2>1
    <3> QED BY <3>1
  <2>3. w * (a + d) = w * a + w * d /\ w * d \in Nat /\ w * a \in Nat
    OBVIOUS
  <2> QED BY <2>2, <2>3
<1>4. VGA_WIDTH * 1 <= VGA_WIDTH * VGA_HEIGHT
  BY <1>1, <1>3
<1>5. ASSUME NEW y \in 0 .. VGA_HEIGHT - 1
      PROVE  y * VGA_WIDTH \in Nat /\ y * VGA_WIDTH + VGA_WIDTH <= Area
  <2>1. y \in Nat /\ y + 1 \in Nat /\ y + 1 <= VGA_HEIGHT
    BY <1>1
  <2>2. VGA_WIDTH * (y + 1) <= VGA_WIDTH * VGA_HEIGHT
    BY <1>1, <1>3, <2>1
  <2>3. /\ VGA_WIDTH * (y + 1) = VGA_WIDTH * y + VGA_WIDTH
        /\ y * VGA_WIDTH = VGA_WIDTH * y /\ VGA_WIDTH * y \in Nat
    BY <1>1, <1>2, <2>1
  <2> QED BY <2>2, <2>3 DEF Area
<1>6. VGA_WIDTH * 1 = VGA_WIDTH
  BY <1>1
<1>7. VGA_WIDTH <= VGA_WIDTH * VGA_HEIGHT
  BY <1>4, <1>6, Zenon
<1> QED BY <1>1, <1>2, <1>5, <1>7 DEF Area

(* The cells and the window, by their first and last index.                *)
LEMMA CellsAre ==
  Cells = 0 .. Area - 1 /\ Window = 0 .. Area + VGA_WIDTH + VGA_WIDTH - 1
BY Geometry DEF Cells, Window

(* The first cell of a line is on the screen, or just below it.            *)
LEMMA LineStarts ==
  ASSUME NEW y \in 0 .. VGA_HEIGHT
  PROVE  /\ y * VGA_WIDTH \in Nat /\ y * VGA_WIDTH <= Area
         /\ y # VGA_HEIGHT => y * VGA_WIDTH + VGA_WIDTH <= Area
<1>1. CASE y = VGA_HEIGHT
  BY <1>1, Geometry
<1>2. CASE y # VGA_HEIGHT
  <2>1. y \in 0 .. VGA_HEIGHT - 1
    BY <1>2, Geometry
  <2> DEFINE z == y * VGA_WIDTH
  <2>2. z \in Nat /\ z + VGA_WIDTH <= Area
    BY <2>1, Geometry
  <2> HIDE DEF z
  <2>3. z <= Area
    BY <2>2, Geometry
  <2> QED BY <2>2, <2>3 DEF z
<1> QED BY <1>1, <1>2

(* The sizes alone.                                                        *)
LEMMA Sizes == VGA_WIDTH \in Nat /\ VGA_HEIGHT \in Nat /\ VGA_WIDTH >= 1 /\ VGA_HEIGHT >= 1
BY Geometry

(* The screen is a part of the window.                                     *)
LEMMA CellsInWindow == Cells \subseteq Window
BY CellsAre, Geometry

-----------------------------------------------------------------------------
(* print_char() of a handler.                                              *)

(* The record of three values, and a buffer after a store.                 *)
IsScreen(s, v, x, y) == s = [vga |-> v, x |-> x, y |-> y]
Stored(w, v, e, ch)  == w = [v EXCEPT ![e] = ch]

(* A line break, as an assignment of the three variables.                  *)
LEMMA LineDownIs ==
  ASSUME NEW v, NEW x, NEW y, NEW s, IsScreen(s, v, x, y), NEW z, z = y + 1,
         NEW d, IsScreen(d, v, 0, z)
  PROVE  /\ z >= VGA_HEIGHT => LineDown(s) = scroll_screen(d)
         /\ ~(z >= VGA_HEIGHT) => LineDown(s) = d
<1> USE DEF IsScreen
<1> DEFINE down == [vga |-> v, x |-> 0, y |-> z]
<1>1. s.y + 1 = z
  OBVIOUS
<1>2. [s EXCEPT !.x = 0, !.y = z] = down
  <2>1. PICK t : t = [s EXCEPT !.x = 0]
    OBVIOUS
  <2>2. [s EXCEPT !.x = 0, !.y = z] = [t EXCEPT !.y = z]
    BY <2>1
  <2>3. t = [vga |-> v, x |-> 0, y |-> y]
    BY <2>1
  <2> QED BY <2>2, <2>3
<1>3. [s EXCEPT !.x = 0, !.y = @ + 1] = down
  BY <1>1, <1>2, Zenon
<1>4. down.y = z
  OBVIOUS
<1>d. d = down
  OBVIOUS
<1> HIDE DEF down
<1>5. LineDown(s) = IF z >= VGA_HEIGHT THEN scroll_screen(down) ELSE down
  BY <1>3, <1>4, Zenon DEF LineDown
<1> QED BY <1>d, <1>5

(* A character other than a newline, likewise.                             *)
LEMMA PrintCharIs ==
  ASSUME NEW v, NEW x, NEW y, NEW s, IsScreen(s, v, x, y), NEW ch, ch # NEWLINE,
         NEW e, e = y * VGA_WIDTH + x, NEW w, Stored(w, v, e, ch), NEW z, z = x + 1,
         NEW d, IsScreen(d, w, z, y)
  PROVE  /\ z >= VGA_WIDTH => print_char(s, ch) = LineDown(d)
         /\ ~(z >= VGA_WIDTH) => print_char(s, ch) = d
<1> USE DEF IsScreen, Stored
<1> DEFINE put == [vga |-> w, x |-> z, y |-> y]
<1>1. s.x + 1 = z /\ s.vga = v /\ s.y * VGA_WIDTH + s.x = e
  OBVIOUS
<1>2. [s EXCEPT !.vga = w, !.x = z] = put
  <2>1. PICK t : t = [s EXCEPT !.vga = w]
    OBVIOUS
  <2>2. [s EXCEPT !.vga = w, !.x = z] = [t EXCEPT !.x = z]
    BY <2>1
  <2>3. t = [vga |-> w, x |-> x, y |-> y]
    BY <2>1
  <2> QED BY <2>2, <2>3
<1>3. [s EXCEPT !.vga[e] = ch, !.x = z] = [s EXCEPT !.vga = [s.vga EXCEPT ![e] = ch], !.x = z]
  OBVIOUS
<1>4. [s EXCEPT !.vga[e] = ch, !.x = z] = put
  BY <1>1, <1>2, <1>3, Zenon
<1>5. [s EXCEPT !.vga[s.y * VGA_WIDTH + s.x] = ch, !.x = @ + 1] = put
  BY <1>1, <1>4, Zenon
<1>6. put.x = z
  OBVIOUS
<1>d. d = put
  OBVIOUS
<1> HIDE DEF put
<1>7. print_char(s, ch) = IF z >= VGA_WIDTH THEN LineDown(put) ELSE put
  BY <1>5, <1>6 DEF print_char
<1> QED BY <1>d, <1>7

(* The screens over an alphabet A that a handler may find when the cursor  *)
(* is on line h at most, and the ones it leaves.                           *)
BlankBelow(v) == \A i \in Window : i >= VGA_WIDTH * (VGA_HEIGHT + 1) => v[i] = Blank
Screens(A, h) ==
  {s \in [vga : [Window -> A], x : 0 .. VGA_WIDTH, y : 0 .. h] :
     (s.x = VGA_WIDTH => s.y # VGA_HEIGHT) /\ BlankBelow(s.vga)}
Homed(A, h) == {s \in Screens(A, h) : s.x < VGA_WIDTH}

(* What a screen is made of.                                               *)
LEMMA ScreenParts ==
  ASSUME NEW A, NEW h \in {VGA_HEIGHT - 1, VGA_HEIGHT}, NEW s \in Screens(A, h)
  PROVE  /\ s = [vga |-> s.vga, x |-> s.x, y |-> s.y]
         /\ s.vga \in [Window -> A] /\ s.x \in 0 .. VGA_WIDTH /\ s.y \in 0 .. h
         /\ s.x = VGA_WIDTH => s.y # VGA_HEIGHT
         /\ BlankBelow(s.vga)
BY DEF Screens

(* A screen made of such parts, with the cursor on it.                     *)
LEMMA ScreenOf ==
  ASSUME NEW A, NEW h \in {VGA_HEIGHT - 1, VGA_HEIGHT}, NEW v \in [Window -> A],
         NEW x \in Nat, NEW y \in Nat,
         x < VGA_WIDTH, y <= h, BlankBelow(v)
  PROVE  [vga |-> v, x |-> x, y |-> y] \in Homed(A, h)
<1>1. PICK s : s = [vga |-> v, x |-> x, y |-> y]
  OBVIOUS
<1>2. s.vga = v /\ s.x = x /\ s.y = y
  BY <1>1
<1>3. x \in 0 .. VGA_WIDTH /\ y \in 0 .. h /\ x # VGA_WIDTH
  BY Geometry
<1>4. s \in [vga : [Window -> A], x : 0 .. VGA_WIDTH, y : 0 .. h]
  BY <1>1, <1>3
<1>5. s \in Screens(A, h)
  BY <1>2, <1>3, <1>4 DEF Screens
<1> QED BY <1>1, <1>2, <1>5 DEF Homed

(* scroll_screen() leaves the cursor at the start of the last line.        *)
LEMMA ScrollHomes ==
  ASSUME NEW A, NEW h \in {VGA_HEIGHT - 1, VGA_HEIGHT}, Blank \in A,
         NEW s, s.vga \in [Window -> A], BlankBelow(s.vga)
  PROVE  scroll_screen(s) \in Homed(A, h)
<1> DEFINE v == [i \in Window |->
                   IF i + VGA_WIDTH \in Cells THEN s.vga[i + VGA_WIDTH]
                   ELSE IF i \in Cells THEN Blank ELSE s.vga[i]]
<1>1. \A i \in Cells : i \in Window
  BY CellsAre, Geometry
<1>2. v \in [Window -> A]
  BY <1>1
<1>3. BlankBelow(v)
  <2> SUFFICES ASSUME NEW i \in Window, i >= VGA_WIDTH * (VGA_HEIGHT + 1) PROVE v[i] = Blank
    BY DEF BlankBelow
  <2>1. i \notin Cells /\ i + VGA_WIDTH \notin Cells
    BY CellsAre, Geometry
  <2>2. v[i] = s.vga[i]
    BY <2>1
  <2> QED BY <2>2 DEF BlankBelow
<1>4. 0 \in Nat /\ VGA_HEIGHT - 1 \in Nat /\ 0 < VGA_WIDTH /\ VGA_HEIGHT - 1 <= h
  BY Geometry
<1> HIDE DEF v
<1>5. [vga |-> v, x |-> 0, y |-> VGA_HEIGHT - 1] \in Homed(A, h)
  BY <1>2, <1>3, <1>4, ScreenOf
<1> QED BY <1>5 DEF scroll_screen, v

(* So does a newline, on the line it starts.                               *)
LEMMA LineDownHomes ==
  ASSUME NEW A, NEW h \in {VGA_HEIGHT - 1, VGA_HEIGHT}, Blank \in A,
         NEW v \in [Window -> A], NEW x, NEW y \in 0 .. h,
         BlankBelow(v)
  PROVE  LineDown([vga |-> v, x |-> x, y |-> y]) \in Homed(A, h)
<1>1. PICK z : z = y + 1
  OBVIOUS
<1>2. PICK s, d : s = [vga |-> v, x |-> x, y |-> y] /\ d = [vga |-> v, x |-> 0, y |-> z]
  OBVIOUS
<1>3. IsScreen(s, v, x, y) /\ IsScreen(d, v, 0, z)
  BY <1>2 DEF IsScreen
<1> SUFFICES LineDown(s) \in Homed(A, h)
  BY <1>2
<1>4. CASE z >= VGA_HEIGHT
  <2>1. LineDown(s) = scroll_screen(d)
    BY <1>1, <1>3, <1>4, LineDownIs
  <2>2. d.vga = v
    BY <1>2
  <2> QED BY <2>1, <2>2, ScrollHomes
<1>5. CASE ~(z >= VGA_HEIGHT)
  <2>1. LineDown(s) = d
    BY <1>1, <1>3, <1>5, LineDownIs
  <2>2. z \in Nat /\ z <= h /\ 0 \in Nat /\ 0 < VGA_WIDTH
    BY <1>1, <1>5, Geometry
  <2>3. d \in Homed(A, h)
    BY <1>2, <2>2, ScreenOf
  <2> QED BY <2>1, <2>3
<1> QED BY <1>4, <1>5

(* And so does every character that a handler prints.                      *)
LEMMA PrintCharHomes ==
  ASSUME NEW A, NEW h \in {VGA_HEIGHT - 1, VGA_HEIGHT}, Blank \in A,
         NEW s \in Screens(A, h), NEW ch \in A
  PROVE  print_char(s, ch) \in Homed(A, h)
<1>1. PICK v, x, y : v = s.vga /\ x = s.x /\ y = s.y
  OBVIOUS
<1>2. /\ s = [vga |-> v, x |-> x, y |-> y] /\ v \in [Window -> A] /\ x \in 0 .. VGA_WIDTH
      /\ y \in 0 .. h /\ (x = VGA_WIDTH => y # VGA_HEIGHT) /\ BlankBelow(v)
  BY <1>1, ScreenParts
<1>3. CASE ch = NEWLINE
  <2>1. LineDown(s) \in Homed(A, h)
    BY <1>2, LineDownHomes
  <2> QED BY <1>3, <2>1 DEF print_char
<1>4. CASE ch # NEWLINE
  <2>1. PICK e : e = y * VGA_WIDTH + x
    OBVIOUS
  <2>2. e \in Nat /\ e < Area + VGA_WIDTH
    <3>1. PICK b : b = y * VGA_WIDTH
      OBVIOUS
    <3>2. b \in Nat /\ b <= Area /\ (y # VGA_HEIGHT => b + VGA_WIDTH <= Area)
      <4>1. y \in 0 .. VGA_HEIGHT
        BY <1>2, Geometry
      <4> QED BY <3>1, <4>1, LineStarts
    <3>3. e = b + x
      BY <2>1, <3>1
    <3> QED BY <1>2, <3>2, <3>3, Geometry
  <2> DEFINE w == [v EXCEPT ![e] = ch]
  <2>3. w \in [Window -> A]
    BY <1>2
  <2>4. BlankBelow(w)
    <3> SUFFICES ASSUME NEW i \in Window, i >= VGA_WIDTH * (VGA_HEIGHT + 1) PROVE w[i] = Blank
      BY DEF BlankBelow
    <3>1. i # e
      BY <2>2, CellsAre, Geometry
    <3>2. w[i] = v[i]
      BY <1>2, <3>1
    <3> QED BY <1>2, <3>2 DEF BlankBelow
  <2>5. PICK z : z = x + 1
    OBVIOUS
  <2>6. PICK d : d = [vga |-> w, x |-> z, y |-> y]
    OBVIOUS
  <2>s. IsScreen(s, v, x, y) /\ IsScreen(d, w, z, y) /\ Stored(w, v, e, ch)
    BY <1>2, <2>6 DEF IsScreen, Stored
  <2> HIDE DEF w
  <2>7. /\ z >= VGA_WIDTH => print_char(s, ch) = LineDown(d)
        /\ ~(z >= VGA_WIDTH) => print_char(s, ch) = d
    BY <1>4, <2>1, <2>5, <2>s, PrintCharIs
  <2>8. CASE z >= VGA_WIDTH
    <3>1. LineDown(d) \in Homed(A, h)
      BY <1>2, <2>3, <2>4, <2>6, LineDownHomes
    <3> QED BY <2>7, <2>8, <3>1
  <2>9. CASE ~(z >= VGA_WIDTH)
    <3>1. z \in Nat /\ z < VGA_WIDTH /\ y \in Nat /\ y <= h
      BY <1>2, <2>5, <2>9, Geometry
    <3>2. d \in Homed(A, h)
      BY <2>3, <2>4, <2>6, <3>1, ScreenOf
    <3> QED BY <2>7, <2>9, <3>2
  <2> QED BY <2>8, <2>9
<1> QED BY <1>3, <1>4

-----------------------------------------------------------------------------
(* print_string() of a handler.                                            *)

(* FoldLeft takes the last character last.                                 *)
LEMMA LastIsMax ==
  ASSUME NEW n \in Nat, NEW t \in SUBSET (1 .. n), t # {}
  PROVE  Max(t) \in t
<1>1. \E x \in t : \A y \in t : x >= y
  BY MaxChosen
<1> QED BY <1>1 DEF Max

(* The greatest number of an interval.                                     *)
LEMMA IntervalMax ==
  ASSUME NEW n \in Nat, NEW i \in 1 .. n
  PROVE  Max(1 .. i) = i /\ (1 .. i) \ {i} = 1 .. (i - 1)
<1>1. PICK m : m = Max(1 .. i)
  OBVIOUS
<1>2. i \in 1 .. i /\ \A y \in 1 .. i : i >= y
  OBVIOUS
<1>3. m \in 1 .. i /\ \A y \in 1 .. i : m >= y
  BY <1>1, <1>2 DEF Max
<1>4. m = i
  BY <1>2, <1>3
<1> QED BY <1>1, <1>4

(* A step on values of V that depends on a position up to n.               *)
StepsOn(F, n, V) == \A i \in 1 .. n, v \in V : F[<<i, v>>] \in V

(* g folds F over the positions of a set, the greatest one last.           *)
FoldsUp(g, n, base, F) ==
  /\ g = [t \in SUBSET (1 .. n) |-> g[t]] /\ g[{}] = base
  /\ \A t \in SUBSET (1 .. n) : t # {} => g[t] = F[<<Max(t), g[t \ {Max(t)}]>>]

(* A fold of steps on V exists and stays in V.                             *)
LEMMA FoldWithin ==
  ASSUME NEW n \in Nat, NEW V, NEW base \in V, NEW F, StepsOn(F, n, V)
  PROVE  \E g : FoldsUp(g, n, base, F) /\ \A t \in SUBSET (1 .. n) : g[t] \in V
<1> DEFINE D == 1 .. n
<1> DEFINE last == [t \in SUBSET D |-> Max(t)]
<1>1. IsFiniteSet(D)
  BY FS_Interval
<1>2. \A t \in SUBSET D : t # {} => Max(t) \in t
  BY LastIsMax
<1>3. \A t \in SUBSET D : last[t] = Max(t)
  OBVIOUS
<1>4. \A t \in SUBSET D : t # {} => last[t] \in t
  BY <1>2, <1>3
<1> HIDE DEF last
<1>5. PICK g : FoldsOn(g, SUBSET D, base, F, last)
  <2> HIDE DEF D
  <2> QED BY <1>1, <1>4, FoldExists
<1>6. /\ g = [t \in SUBSET D |-> g[t]]
      /\ \A t \in SUBSET D : g[t] = IF t = {} THEN base ELSE F[<<last[t], g[t \ {last[t]}]>>]
  BY <1>5, Zenon DEF FoldsOn
<1>7. g[{}] = base
  BY <1>6
<1>8. ASSUME NEW t \in SUBSET D, t # {}, g[t \ {last[t]}] \in V PROVE g[t] \in V
  <2>1. g[t] = F[<<last[t], g[t \ {last[t]}]>>] /\ last[t] \in D
    BY <1>4, <1>6, <1>8
  <2> QED BY <1>8, <2>1 DEF StepsOn
<1>9. \A t \in SUBSET D : g[t] \in V
  <2> HIDE DEF D
  <2> QED BY <1>1, <1>4, <1>7, <1>8, FoldKeeps
<1>10. \A t \in SUBSET D : t # {} => g[t] = F[<<Max(t), g[t \ {Max(t)}]>>]
  <2> TAKE t \in SUBSET D
  <2>1. HAVE t # {}
  <2>2. g[t] = F[<<last[t], g[t \ {last[t]}]>>]
    BY <1>6, <2>1
  <2> QED BY <1>3, <2>2, Zenon
<1>11. FoldsUp(g, n, base, F)
  BY <1>6, <1>7, <1>10, Zenon DEF FoldsUp
<1> QED BY <1>9, <1>11

(* The values that a fold takes on the way, position after position.       *)
Trace(h, n, base, F, V) ==
  /\ h[0] = base /\ \A i \in 1 .. n : h[i] = F[<<i, h[i - 1]>>]
  /\ \A i \in 0 .. n : h[i] \in V

(* g folds F up as long as it stays in V.                                  *)
FoldsIn(g, n, V, F) ==
  \A t \in SUBSET (1 .. n) :
    t # {} /\ g[t \ {Max(t)}] \in V => g[t] = F[<<Max(t), g[t \ {Max(t)}]>>]

(* A fold is the end of such a trace, and the trace stays in V.            *)
LEMMA FoldTrace ==
  ASSUME NEW n \in Nat, NEW V, NEW base \in V, NEW F, StepsOn(F, n, V), NEW g, g[{}] = base,
         FoldsIn(g, n, V, F)
  PROVE  \E h : Trace(h, n, base, F, V) /\ h[n] = g[1 .. n]
<1> DEFINE h == [i \in 0 .. n |-> g[1 .. i]]
<1>1. \A i \in 0 .. n : h[i] = g[1 .. i]
  OBVIOUS
<1> HIDE DEF h
<1>2. h[0] = base
  <2>1. 1 .. 0 = {} /\ 0 \in 0 .. n
    OBVIOUS
  <2> QED BY <1>1, <2>1
<1>3. ASSUME NEW i \in 1 .. n, h[i - 1] \in V PROVE h[i] = F[<<i, h[i - 1]>>] /\ h[i] \in V
  <2>1. i \in 0 .. n /\ i - 1 \in 0 .. n /\ 1 .. i \in SUBSET (1 .. n) /\ 1 .. i # {}
    <3>1. i \in 1 .. i
      OBVIOUS
    <3> QED BY <3>1
  <2>2. Max(1 .. i) = i /\ (1 .. i) \ {i} = 1 .. (i - 1)
    BY IntervalMax
  <2>3. h[i] = g[1 .. i] /\ h[i - 1] = g[1 .. (i - 1)]
    BY <1>1, <2>1
  <2>4. PICK t : t = 1 .. i
    OBVIOUS
  <2>5. t \in SUBSET (1 .. n) /\ t # {} /\ Max(t) = i /\ g[t \ {Max(t)}] = h[i - 1]
    BY <2>1, <2>2, <2>3, <2>4, Zenon
  <2>6. g[t] = F[<<i, h[i - 1]>>]
    BY <1>3, <2>5, Zenon DEF FoldsIn
  <2>7. F[<<i, h[i - 1]>>] \in V
    BY <1>3 DEF StepsOn
  <2> QED BY <2>3, <2>4, <2>6, <2>7, Zenon
<1>4. \A i \in 0 .. n : h[i] \in V
  <2> SUFFICES ASSUME NEW T, T = {i \in 0 .. n : h[i] \notin V}, T # {} PROVE FALSE
    OBVIOUS
  <2>1. PICK m \in T : \A i \in T : m <= i
    <3>1. T \subseteq Nat
      OBVIOUS
    <3> QED BY <3>1, LeastNatural
  <2>2. m # 0
    BY <1>2, <2>1
  <2>3. m \in 1 .. n /\ m - 1 \in 0 .. n
    BY <2>1, <2>2
  <2>4. m - 1 \notin T
    BY <2>1, <2>3
  <2> QED BY <1>3, <2>1, <2>3, <2>4
<1>5. \A i \in 1 .. n : i - 1 \in 0 .. n
  OBVIOUS
<1>6. Trace(h, n, base, F, V)
  BY <1>2, <1>3, <1>4, <1>5, Zenon DEF Trace
<1>7. h[n] = g[1 .. n]
  BY <1>1
<1> QED BY <1>6, <1>7

(* Two traces take the same steps.                                         *)
SameSteps(f, g, n) == \A i \in 1 .. n : f[i - 1] = g[i - 1] => f[i] = g[i]

(* A trace is determined by its steps.                                     *)
LEMMA TraceUnique ==
  ASSUME NEW n \in Nat, NEW f, NEW g, f[0] = g[0], SameSteps(f, g, n)
  PROVE  f[n] = g[n]
<1>1. \A i \in 0 .. n : f[i] = g[i]
  <2> SUFFICES ASSUME NEW T, T = {i \in 0 .. n : f[i] # g[i]}, T # {} PROVE FALSE
    OBVIOUS
  <2>1. PICK m \in T : \A i \in T : m <= i
    <3>1. T \subseteq Nat
      OBVIOUS
    <3> QED BY <3>1, LeastNatural
  <2>2. m # 0
    BY <2>1
  <2>3. m \in 1 .. n /\ m - 1 \in 0 .. n
    BY <2>1, <2>2
  <2>4. m - 1 \notin T
    BY <2>1, <2>3
  <2>5. f[m - 1] = g[m - 1] /\ f[m] # g[m]
    BY <2>1, <2>3, <2>4
  <2> QED BY <2>3, <2>5 DEF SameSteps
<1> QED BY <1>1

(* h holds the screens that a handler prints str on.                       *)
PrintTrace(h, s0, str, n) ==
  /\ h[0] = s0 /\ h[n] = print_string(s0, str)
  /\ \A i \in 1 .. n : h[i] = print_char(h[i - 1], str[i])

(* A handler that prints a string leaves the cursor on a line of the       *)
(* screen, and nothing two lines below it.                                 *)
LEMMA PrintStringTraced ==
  ASSUME NEW A, Blank \in A, NEW l \in {VGA_HEIGHT - 1, VGA_HEIGHT}, NEW s0 \in Screens(A, l),
         NEW str, NEW n \in Nat, DOMAIN str = 1 .. n, \A i \in 1 .. n : str[i] \in A
  PROVE  \E h : PrintTrace(h, s0, str, n) /\ h[n] \in Homed(A, l) \cup {s0}
<1> DEFINE D == 1 .. n
<1> DEFINE V == Homed(A, l) \cup {s0}
<1> DEFINE F == [p \in D \X V |-> print_char(p[2], str[p[1]])]
<1> DEFINE G(g) == g = [t \in SUBSET D |-> IF t = {} THEN s0
                                           ELSE print_char(g[t \ {Max(t)}], str[Max(t)])]
<1> DEFINE it == CHOOSE g : G(g)
<1>4. \A i \in D, v \in V : F[<<i, v>>] = print_char(v, str[i])
  OBVIOUS
<1>5. ASSUME NEW i \in D, NEW v \in V PROVE print_char(v, str[i]) \in V
  <2>1. v \in Screens(A, l)
    BY DEF Homed
  <2> QED BY <2>1, PrintCharHomes
<1>6. print_string(s0, str) = it[D]
  BY DEF print_string, FoldLeft, MapThenFoldSet
<1> HIDE DEF F
<1>7. StepsOn(F, n, V)
  BY <1>4, <1>5 DEF StepsOn
<1>8. s0 \in V
  OBVIOUS
<1>m. \A t \in SUBSET D : t # {} => Max(t) \in D
  BY LastIsMax
<1> HIDE DEF V
<1>9. \E g : G(g)
  <2>1. PICK g : FoldsUp(g, n, s0, F) /\ \A t \in SUBSET D : g[t] \in V
    BY <1>7, <1>8, FoldWithin
  <2>2. /\ g = [t \in SUBSET D |-> g[t]] /\ g[{}] = s0
        /\ \A t \in SUBSET D : t # {} => g[t] = F[<<Max(t), g[t \ {Max(t)}]>>]
    BY <2>1, Zenon DEF FoldsUp
  <2>3. ASSUME NEW t \in SUBSET D
        PROVE  g[t] = IF t = {} THEN s0 ELSE print_char(g[t \ {Max(t)}], str[Max(t)])
    <3>1. CASE t = {}
      BY <2>2, <3>1
    <3>2. CASE t # {}
      <4>1. t \ {Max(t)} \in SUBSET D
        OBVIOUS
      <4>2. g[t \ {Max(t)}] \in V /\ Max(t) \in D
        BY <1>m, <2>1, <3>2, <4>1, Zenon
      <4>3. g[t] = F[<<Max(t), g[t \ {Max(t)}]>>]
        BY <2>2, <3>2
      <4> QED BY <1>4, <3>2, <4>2, <4>3, Zenon
    <3> QED BY <3>1, <3>2
  <2>4. G(g)
    <3> HIDE DEF D
    <3> QED BY <2>2, <2>3
  <2> QED BY <2>4
<1>10. G(it)
  <2> HIDE DEF G
  <2> QED BY <1>9
<1> HIDE DEF it
<1>11. it[{}] = s0
  BY <1>10
<1>12. ASSUME NEW t \in SUBSET D, t # {}, it[t \ {Max(t)}] \in V
       PROVE  it[t] = F[<<Max(t), it[t \ {Max(t)}]>>]
  <2>1. it[t] = print_char(it[t \ {Max(t)}], str[Max(t)])
    BY <1>10, <1>12
  <2>2. Max(t) \in D
    BY <1>m, <1>12
  <2> QED BY <1>4, <1>12, <2>1, <2>2, Zenon
<1>13. PICK h : Trace(h, n, s0, F, V) /\ h[n] = it[1 .. n]
  <2>1. FoldsIn(it, n, V, F)
    BY <1>12, Zenon DEF FoldsIn
  <2> QED BY <1>7, <1>8, <1>11, <2>1, FoldTrace
<1>14. \A i \in 1 .. n : h[i] = print_char(h[i - 1], str[i])
  <2> TAKE i \in 1 .. n
  <2>1. i - 1 \in 0 .. n
    OBVIOUS
  <2>2. h[i - 1] \in V
    BY <1>13, <2>1 DEF Trace
  <2>3. h[i] = F[<<i, h[i - 1]>>]
    BY <1>13 DEF Trace
  <2> QED BY <1>4, <2>2, <2>3, Zenon
<1>15. h[0] = s0 /\ h[n] \in V
  BY <1>13 DEF Trace
<1>16. PrintTrace(h, s0, str, n)
  BY <1>6, <1>13, <1>14, <1>15, Zenon DEF PrintTrace
<1> QED BY <1>15, <1>16 DEF V

-----------------------------------------------------------------------------
(* The invariant holds initially.                                          *)
LEMMA InitIInv == Init => IInv
<1> SUFFICES ASSUME Init PROVE IInv
  OBVIOUS
<1>1. BufferInv
  <2>1. vga_buffer = [i \in Window |-> Blank]
    BY DEF Init
  <2> QED BY <2>1 DEF BufferInv
<1>2. CursorInv
  BY Geometry DEF Init, CursorInv
<1>3. ScrollInv
  BY Geometry DEF Init, ScrollInv
<1> QED BY <1>1, <1>2, <1>3 DEF IInv

(* A string that a handler prints keeps it.                                *)
LEMMA InterruptKeeps ==
  ASSUME IInv, NEW str \in HandlerStrings, Interrupt(str)
  PROVE  IInv'
<1>1. PICK n : n = Len(str)
  OBVIOUS
<1>2. n \in Nat /\ DOMAIN str = 1 .. n
  BY <1>1, ScreenAssumption, LenProperties
<1> DEFINE A == {vga_buffer[i] : i \in Window} \cup {str[i] : i \in 1 .. n} \cup {Blank}
<1>3. Blank \in A /\ \A i \in 1 .. n : str[i] \in A
  OBVIOUS
<1>4. PICK h : h = IF cursor_y = VGA_HEIGHT THEN VGA_HEIGHT ELSE VGA_HEIGHT - 1
  OBVIOUS
<1>5. h \in {VGA_HEIGHT - 1, VGA_HEIGHT} /\ cursor_y \in 0 .. h /\ cursor_x \in 0 .. VGA_WIDTH
      /\ (cursor_x = VGA_WIDTH => cursor_y # VGA_HEIGHT)
  BY <1>4, Geometry DEF IInv, CursorInv
<1>6. vga_buffer \in [Window -> A] /\ BlankBelow(vga_buffer)
  <2>1. vga_buffer = [i \in Window |-> vga_buffer[i]] /\ \A i \in Window : vga_buffer[i] \in A
    BY DEF IInv, BufferInv
  <2> QED BY <2>1 DEF IInv, BufferInv, BlankBelow
<1> HIDE DEF A
<1>7. PICK s0 : s0 = [vga |-> vga_buffer, x |-> cursor_x, y |-> cursor_y]
  OBVIOUS
<1>8. s0 \in Screens(A, h)
  <2>1. s0 \in [vga : [Window -> A], x : 0 .. VGA_WIDTH, y : 0 .. h]
    BY <1>5, <1>6, <1>7
  <2>2. s0.vga = vga_buffer /\ s0.x = cursor_x /\ s0.y = cursor_y
    BY <1>7
  <2> QED BY <1>5, <1>6, <2>1, <2>2 DEF Screens
<1>9. PICK s : s = print_string(s0, str)
  OBVIOUS
<1>10. s \in Homed(A, h) \cup {s0}
  BY <1>2, <1>3, <1>5, <1>8, <1>9, PrintStringTraced DEF PrintTrace
<1>11. vga_buffer' = s.vga /\ cursor_x' = s.x /\ cursor_y' = s.y
  BY <1>7, <1>9, Zenon DEF Interrupt
<1>12. UNCHANGED <<pc, c, reg, k>>
  BY DEF Interrupt
<1>13. s \in Screens(A, h)
  BY <1>8, <1>10 DEF Homed
<1>14. /\ vga_buffer' \in [Window -> A] /\ cursor_x' \in 0 .. VGA_WIDTH /\ cursor_y' \in 0 .. h
       /\ BlankBelow(vga_buffer')
  BY <1>11, <1>13, ScreenParts, <1>5
<1>15. cursor_x' < VGA_WIDTH \/ (cursor_x' = cursor_x /\ cursor_y' = cursor_y)
  <2>1. CASE s \in Homed(A, h)
    BY <1>11, <2>1 DEF Homed
  <2>2. CASE s = s0
    BY <1>7, <1>11, <2>2
  <2> QED BY <1>10, <2>1, <2>2
<1>16. BufferInv'
  <2>1. vga_buffer' = [i \in Window |-> vga_buffer'[i]]
    BY <1>14
  <2> QED BY <1>14, <2>1 DEF BufferInv, BlankBelow, Window
<1>17. CursorInv'
  <2>1. /\ cursor_y' \in 0 .. VGA_HEIGHT
        /\ cursor_y' = VGA_HEIGHT => cursor_y = VGA_HEIGHT
        /\ cursor_x' = VGA_WIDTH => cursor_x = VGA_WIDTH
    BY <1>4, <1>5, <1>14, <1>15, Geometry
  <2> QED BY <1>12, <1>14, <2>1 DEF IInv, CursorInv
<1>18. ScrollInv'
  BY <1>12 DEF IInv, ScrollInv
<1> QED BY <1>16, <1>17, <1>18 DEF IInv

(* A store into the screen keeps BufferInv.                                *)
LEMMA StoreKeeps ==
  ASSUME BufferInv, NEW e \in Nat, e < Area, NEW ch, vga_buffer' = [vga_buffer EXCEPT ![e] = ch]
  PROVE  BufferInv'
<1>1. ASSUME NEW i \in Window, i >= VGA_WIDTH * (VGA_HEIGHT + 1) PROVE vga_buffer'[i] = Blank
  <2>1. i # e
    BY <1>1, CellsAre, Geometry
  <2>2. vga_buffer'[i] = vga_buffer[i]
    BY <2>1 DEF BufferInv
  <2> QED BY <1>1, <2>2 DEF BufferInv
<1>2. vga_buffer' = [i \in Window |-> vga_buffer'[i]]
  BY DEF BufferInv
<1> QED BY <1>1, <1>2 DEF BufferInv, Window

(* Every step keeps the invariant.                                         *)
LEMMA StepIInv == IInv /\ [Next]_vars => IInv'
<1> SUFFICES ASSUME IInv, [Next]_vars PROVE IInv'
  OBVIOUS
<1>0. BufferInv /\ CursorInv /\ ScrollInv
  BY DEF IInv
<1>b. ASSUME vga_buffer' = vga_buffer PROVE BufferInv'
  BY <1>0, <1>b DEF BufferInv, Window
<1>1. ASSUME NEW ch \in Chars, CallPrintChar(ch) PROVE IInv'
  <2>1. /\ pc = "idle" /\ pc' \in {"carriage_return", "load_y"} /\ c' = ch
        /\ UNCHANGED <<vga_buffer, cursor_x, cursor_y, reg, k>>
    BY <1>1 DEF CallPrintChar, Goto, screen
  <2>2. CursorInv'
    BY <1>0, <2>1 DEF CursorInv
  <2>3. ScrollInv'
    BY <1>0, <2>1 DEF ScrollInv
  <2> QED BY <1>b, <2>1, <2>2, <2>3 DEF IInv
<1>2. CASE store_char
  <2>1. UNCHANGED <<cursor_x, cursor_y, c, k>>
    BY <1>2 DEF store_char
  <2>2. CASE Goto("load_y", "load_x") /\ reg' = cursor_y * VGA_WIDTH /\ UNCHANGED vga_buffer
    <3>1. cursor_y \in 0 .. VGA_HEIGHT /\ cursor_y # VGA_HEIGHT
      BY <1>0, <2>2 DEF CursorInv, Goto
    <3>2. reg' \in Nat /\ reg' + VGA_WIDTH <= Area
      BY <2>2, <3>1, LineStarts
    <3>3. CursorInv'
      BY <1>0, <2>1, <2>2, <3>2 DEF CursorInv, Goto
    <3>4. ScrollInv'
      BY <1>0, <2>1, <2>2 DEF ScrollInv, Goto
    <3> QED BY <1>b, <2>2, <3>3, <3>4 DEF IInv
  <2>3. CASE Goto("load_x", "put") /\ reg' = reg + cursor_x /\ UNCHANGED vga_buffer
    <3>1. CursorInv'
      BY <1>0, <2>1, <2>3, Geometry DEF CursorInv, Goto
    <3>2. ScrollInv'
      BY <1>0, <2>1, <2>3 DEF ScrollInv, Goto
    <3> QED BY <1>b, <2>3, <3>1, <3>2 DEF IInv
  <2>4. CASE Goto("put", "inc_x") /\ vga_buffer' = [vga_buffer EXCEPT ![reg] = c] /\ UNCHANGED reg
    <3>1. reg \in Nat /\ reg < Area
      BY <1>0, <2>4 DEF CursorInv, Goto
    <3>2. BufferInv'
      BY <1>0, <2>4, <3>1, StoreKeeps
    <3>3. CursorInv'
      BY <1>0, <2>1, <2>4 DEF CursorInv, Goto
    <3>4. ScrollInv'
      BY <1>0, <2>1, <2>4 DEF ScrollInv, Goto
    <3> QED BY <3>2, <3>3, <3>4 DEF IInv
  <2> QED BY <1>2, <2>2, <2>3, <2>4 DEF store_char
<1>3. CASE advance_x
  <2>1. UNCHANGED <<vga_buffer, cursor_y, c, k>>
    BY <1>3 DEF advance_x
  <2>2. CursorInv'
    <3>1. CASE Goto("inc_x", "store_x") /\ reg' = cursor_x /\ UNCHANGED cursor_x
      BY <1>0, <2>1, <3>1, Geometry DEF CursorInv, Goto
    <3>2. CASE Goto("store_x", "test_x") /\ cursor_x' = reg + 1 /\ UNCHANGED reg
      BY <1>0, <2>1, <3>2, Geometry DEF CursorInv, Goto
    <3>3. CASE /\ Goto("test_x", IF cursor_x >= VGA_WIDTH THEN "carriage_return" ELSE "idle")
               /\ UNCHANGED <<cursor_x, reg>>
      BY <1>0, <2>1, <3>3, Geometry DEF CursorInv, Goto
    <3> QED BY <1>3, <3>1, <3>2, <3>3 DEF advance_x
  <2>3. ScrollInv'
    BY <1>0, <1>3, <2>1 DEF ScrollInv, advance_x, Goto
  <2> QED BY <1>b, <2>1, <2>2, <2>3 DEF IInv
<1>4. CASE line_down
  <2>1. UNCHANGED <<vga_buffer, c>> /\ k' = VGA_WIDTH
    BY <1>4 DEF line_down
  <2>2. CursorInv'
    <3>1. CASE Goto("carriage_return", "inc_y") /\ cursor_x' = 0 /\ UNCHANGED <<cursor_y, reg>>
      BY <1>0, <2>1, <3>1, Geometry DEF CursorInv, Goto
    <3>2. CASE Goto("inc_y", "store_y") /\ reg' = cursor_y /\ UNCHANGED <<cursor_x, cursor_y>>
      BY <1>0, <2>1, <3>2, Geometry DEF CursorInv, Goto
    <3>3. CASE Goto("store_y", "test_y") /\ cursor_y' = reg + 1 /\ UNCHANGED <<cursor_x, reg>>
      BY <1>0, <2>1, <3>3, Geometry DEF CursorInv, Goto
    <3>4. CASE /\ Goto("test_y", IF cursor_y >= VGA_HEIGHT THEN "clamp_y" ELSE "idle")
               /\ UNCHANGED <<cursor_x, cursor_y, reg>>
      BY <1>0, <2>1, <3>4, Geometry DEF CursorInv, Goto
    <3>5. CASE Goto("clamp_y", "copy") /\ cursor_y' = VGA_HEIGHT - 1 /\ UNCHANGED <<cursor_x, reg>>
      BY <1>0, <2>1, <3>5, Geometry DEF CursorInv, Goto
    <3> QED BY <1>4, <3>1, <3>2, <3>3, <3>4, <3>5 DEF line_down
  <2>3. ScrollInv'
    <3>1. pc' # "store"
      BY <1>4 DEF line_down, Goto
    <3> QED BY <1>0, <2>1, <3>1, Geometry DEF ScrollInv
  <2> QED BY <1>b, <2>1, <2>2, <2>3 DEF IInv
<1>5. CASE scroll_copies
  <2>1. UNCHANGED <<cursor_x, cursor_y, c, reg>>
    BY <1>5 DEF scroll_copies
  <2>2. CASE pc = "copy" /\ k \notin Cells /\ pc' = "clear" /\ k' = LastLine /\ UNCHANGED vga_buffer
    <3>1. CursorInv'
      BY <1>0, <2>1, <2>2 DEF CursorInv
    <3>2. ScrollInv'
      BY <1>0, <2>1, <2>2, Geometry DEF ScrollInv, LastLine
    <3> QED BY <1>b, <2>2, <3>1, <3>2 DEF IInv
  <2>3. CASE pc = "copy" /\ k \in Cells /\ pc' = "store" /\ UNCHANGED <<k, vga_buffer>>
    <3>1. CursorInv'
      BY <1>0, <2>1, <2>3 DEF CursorInv
    <3>2. ScrollInv'
      BY <1>0, <2>1, <2>3, CellsAre, Geometry DEF ScrollInv
    <3> QED BY <1>b, <2>3, <3>1, <3>2 DEF IInv
  <2>4. CASE /\ pc = "store" /\ pc' = "copy" /\ k' = k + 1
             /\ vga_buffer' = [vga_buffer EXCEPT ![k - VGA_WIDTH] = cell]
    <3>1. CursorInv'
      BY <1>0, <2>1, <2>4 DEF CursorInv
    <3>2. ScrollInv'
      BY <1>0, <2>1, <2>4, Geometry DEF ScrollInv
    <3>3. k - VGA_WIDTH \in Nat /\ k - VGA_WIDTH < Area
      BY <1>0, <2>4, Geometry DEF ScrollInv
    <3>4. BufferInv'
      BY <1>0, <2>4, <3>3, StoreKeeps
    <3> QED BY <3>1, <3>2, <3>4 DEF IInv
  <2> QED BY <1>5, <2>2, <2>3, <2>4 DEF scroll_copies, Goto
<1>6. CASE scroll_clears
  <2>1. UNCHANGED <<cursor_x, cursor_y, c, reg>> /\ pc = "clear"
    BY <1>6 DEF scroll_clears, Goto
  <2>2. CASE /\ k \in Cells /\ pc' = "clear" /\ k' = k + 1
             /\ vga_buffer' = [vga_buffer EXCEPT ![k] = Blank]
    <3>1. CursorInv'
      BY <1>0, <2>1, <2>2 DEF CursorInv
    <3>2. k \in Nat /\ k < Area
      BY <2>2, CellsAre, Geometry
    <3>3. ScrollInv'
      BY <1>0, <2>1, <2>2, <3>2, Geometry DEF ScrollInv
    <3>4. BufferInv'
      BY <1>0, <2>2, <3>2, StoreKeeps
    <3> QED BY <3>1, <3>3, <3>4 DEF IInv
  <2>3. CASE pc' = "home_y" /\ k' = 0 /\ UNCHANGED vga_buffer
    <3>1. CursorInv'
      BY <1>0, <2>1, <2>3 DEF CursorInv
    <3>2. ScrollInv'
      BY <1>0, <2>1, <2>3, Geometry DEF ScrollInv
    <3> QED BY <1>b, <2>3, <3>1, <3>2 DEF IInv
  <2> QED BY <1>6, <2>2, <2>3 DEF scroll_clears, Goto
<1>7. CASE scroll_homes
  <2>1. UNCHANGED <<vga_buffer, c, reg, k>>
    BY <1>7 DEF scroll_homes
  <2>2. CursorInv'
    <3>1. CASE Goto("home_y", "home_x") /\ cursor_y' = VGA_HEIGHT - 1 /\ UNCHANGED cursor_x
      BY <1>0, <2>1, <3>1, Geometry DEF CursorInv, Goto
    <3>2. CASE Goto("home_x", "idle") /\ cursor_x' = 0 /\ UNCHANGED cursor_y
      BY <1>0, <2>1, <3>2, Geometry DEF CursorInv, Goto
    <3> QED BY <1>7, <3>1, <3>2 DEF scroll_homes
  <2>3. ScrollInv'
    BY <1>0, <1>7, <2>1 DEF ScrollInv, scroll_homes, Goto
  <2> QED BY <1>b, <2>1, <2>2, <2>3 DEF IInv
<1>8. CASE UNCHANGED vars
  <2>1. UNCHANGED <<vga_buffer, cursor_x, cursor_y, pc, c, reg, k>>
    BY <1>8 DEF vars, screen
  <2>2. CursorInv' /\ ScrollInv'
    BY <1>0, <2>1 DEF CursorInv, ScrollInv
  <2> QED BY <1>b, <2>1, <2>2 DEF IInv
<1> QED
  BY <1>1, <1>2, <1>3, <1>4, <1>5, <1>6, <1>7, <1>8, InterruptKeeps DEF Next, PrintChar

(* The invariant holds in every reachable state.                           *)
THEOREM ScreenInductive == Spec => []IInv
BY InitIInv, StepIInv, PTL DEF Spec

(* Types: no step of a print_char and no handler, wherever it falls, moves *)
(* the cursor further than just past the last column or the last line.     *)
THEOREM ScreenTypeOK == Spec => []TypeOK
<1>1. IInv => TypeOK
  <2> SUFFICES ASSUME IInv PROVE TypeOK
    OBVIOUS
  <2>1. DOMAIN vga_buffer = Window
    BY DEF IInv, BufferInv
  <2>2. k \in 0 .. VGA_WIDTH * VGA_HEIGHT
    BY Geometry DEF IInv, ScrollInv
  <2> QED BY <2>1, <2>2 DEF TypeOK, IInv, CursorInv, ScrollInv
<1> QED BY <1>1, ScreenInductive, PTL

(* Wherever handlers interrupt a print_char and whatever they print, the   *)
(* cursor is on the screen when print_char returns.                        *)
THEOREM CursorIsOnScreen == Spec => []CursorRecovers
<1>1. IInv => CursorRecovers
  BY Geometry DEF IInv, CursorInv, CursorRecovers
<1> QED BY <1>1, ScreenInductive, PTL

(* Nothing is ever stored more than one line below the screen.             *)
THEOREM OneLineBelow == Spec => []AtMostOneLineBelow
<1>1. IInv => AtMostOneLineBelow
  <2> SUFFICES ASSUME IInv PROVE AtMostOneLineBelow
    OBVIOUS
  <2>1. pc = "put" => reg < VGA_WIDTH * (VGA_HEIGHT + 1)
    BY Geometry DEF IInv, CursorInv
  <2> QED BY <2>1 DEF AtMostOneLineBelow, IInv, BufferInv
<1> QED BY <1>1, ScreenInductive, PTL

-----------------------------------------------------------------------------
(* The lines of a text.                                                    *)

(* What kernel_main and the handlers print.                                *)
Alphabet == Chars \cup UNION {Range(str) : str \in HandlerStrings}

(* Texts broken into lines, and those that end in a line with room left.   *)
LineSeqs  == {L \in Seq(Seq(Alphabet)) : Len(L) >= 1}
OpenLines == {L \in LineSeqs : Len(L[Len(L)]) < VGA_WIDTH}

(* A line ends, and a line gets one more character.                        *)
Broken(L)     == Append(L, <<>>)
Longer(L, ch) == Append(Front(L), Append(L[Len(L)], ch))

(* What the lines are after a line break.                                  *)
LEMMA BrokenIs ==
  ASSUME NEW L \in LineSeqs
  PROVE  /\ Broken(L) \in OpenLines /\ Len(Broken(L)) = Len(L) + 1
         /\ \A i \in 1 .. Len(L) : Broken(L)[i] = L[i]
         /\ Broken(L)[Len(L) + 1] = <<>>
<1>1. L \in Seq(Seq(Alphabet)) /\ Len(L) \in Nat /\ Len(L) >= 1 /\ <<>> \in Seq(Alphabet)
  BY DEF LineSeqs
<1>2. PICK M : M = Broken(L)
  OBVIOUS
<1>3. /\ M \in Seq(Seq(Alphabet)) /\ Len(M) = Len(L) + 1
      /\ (\A i \in 1 .. Len(L) : M[i] = L[i]) /\ M[Len(L) + 1] = <<>>
  BY <1>1, <1>2, AppendProperties DEF Broken
<1>4. Len(M[Len(M)]) = 0
  BY <1>3
<1>5. M \in OpenLines
  <2>1. M \in LineSeqs
    BY <1>1, <1>3 DEF LineSeqs
  <2>2. Len(M[Len(M)]) < VGA_WIDTH
    BY <1>4, Sizes
  <2> QED BY <2>1, <2>2, Zenon DEF OpenLines
<1> QED BY <1>2, <1>3, <1>5

(* What they are after a character.                                        *)
LEMMA LongerIs ==
  ASSUME NEW L \in LineSeqs, NEW ch \in Alphabet
  PROVE  /\ Longer(L, ch) \in LineSeqs /\ Len(Longer(L, ch)) = Len(L)
         /\ \A i \in 1 .. Len(L) - 1 : Longer(L, ch)[i] = L[i]
         /\ Longer(L, ch)[Len(L)] = Append(L[Len(L)], ch)
<1>1. L \in Seq(Seq(Alphabet)) /\ Len(L) \in Nat /\ Len(L) >= 1
  BY DEF LineSeqs
<1>2. PICK n, F, e, M : /\ n = Len(L) /\ F = SubSeq(L, 1, n - 1)
                        /\ e = Append(L[n], ch) /\ M = Append(F, e)
  OBVIOUS
<1>3. M = Longer(L, ch)
  BY <1>2, Zenon DEF Longer, Front
<1>4. e \in Seq(Alphabet)
  BY <1>1, <1>2
<1>5. F \in Seq(Seq(Alphabet)) /\ Len(F) = n - 1 /\ \A i \in 1 .. n - 1 : F[i] = L[i]
  BY <1>1, <1>2
<1>6. M \in Seq(Seq(Alphabet)) /\ Len(M) = n /\ (\A i \in 1 .. n - 1 : M[i] = F[i]) /\ M[n] = e
  <2>1. M = Append(F, e) /\ n \in Nat
    BY <1>1, <1>2
  <2>2. /\ M \in Seq(Seq(Alphabet)) /\ Len(M) = Len(F) + 1
        /\ (\A i \in 1 .. Len(F) : M[i] = F[i]) /\ M[Len(F) + 1] = e
    BY <1>4, <1>5, <2>1, AppendProperties
  <2>3. Len(F) + 1 = n
    BY <1>5, <2>1
  <2> QED BY <1>5, <2>2, <2>3
<1>7. M \in LineSeqs
  BY <1>1, <1>2, <1>6 DEF LineSeqs
<1> QED BY <1>2, <1>3, <1>5, <1>6, <1>7

(* A line of a text.                                                       *)
LEMMA LineIs ==
  ASSUME NEW L \in LineSeqs
  PROVE  /\ Len(L) \in Nat /\ Len(L) >= 1
         /\ \A i \in 1 .. Len(L) : L[i] \in Seq(Alphabet) /\ Len(L[i]) \in Nat
BY ElementOfSeq DEF LineSeqs

(* One more character, with the line break that a full line gets.          *)
LEMMA AddCharIs ==
  ASSUME NEW L \in OpenLines, NEW ch \in Alphabet
  PROVE  /\ AddChar(L, ch) = IF ch = NEWLINE THEN Broken(L)
                             ELSE IF Len(L[Len(L)]) + 1 = VGA_WIDTH THEN Broken(Longer(L, ch))
                             ELSE Longer(L, ch)
         /\ AddChar(L, ch) \in OpenLines
<1>1. L \in LineSeqs /\ Len(L[Len(L)]) < VGA_WIDTH
  BY DEF OpenLines
<1>2. AddChar(L, ch) = IF ch = NEWLINE THEN Broken(L)
                       ELSE IF Len(L[Len(L)]) + 1 = VGA_WIDTH THEN Broken(Longer(L, ch))
                       ELSE Longer(L, ch)
  BY Zenon DEF AddChar, Broken, Longer, Last
<1>3. CASE ch = NEWLINE
  BY <1>1, <1>2, <1>3, BrokenIs
<1>4. CASE ch # NEWLINE /\ Len(L[Len(L)]) + 1 = VGA_WIDTH
  <2>1. Longer(L, ch) \in LineSeqs
    BY <1>1, LongerIs
  <2> QED BY <1>2, <1>4, <2>1, BrokenIs
<1>5. CASE ch # NEWLINE /\ Len(L[Len(L)]) + 1 # VGA_WIDTH
  <2>1. PICK M : M = Longer(L, ch)
    OBVIOUS
  <2>2. PICK e : e = L[Len(L)]
    OBVIOUS
  <2>3. M \in LineSeqs /\ Len(M) = Len(L) /\ M[Len(L)] = Append(e, ch)
    BY <1>1, <2>1, <2>2, LongerIs
  <2>4. e \in Seq(Alphabet)
    BY <1>1, <2>2, LineIs
  <2>5. Len(Append(e, ch)) = Len(e) + 1 /\ Len(e) \in Nat
    BY <2>4
  <2>6. Len(M[Len(M)]) < VGA_WIDTH
    <3>1. Len(e) + 1 # VGA_WIDTH /\ Len(e) < VGA_WIDTH
      BY <1>1, <1>5, <2>2
    <3>2. Len(M[Len(M)]) = Len(e) + 1
      BY <2>3, <2>5
    <3> QED BY <2>5, <3>1, <3>2, Geometry
  <2>7. M \in OpenLines
    BY <2>3, <2>6 DEF OpenLines
  <2> QED BY <1>2, <1>5, <2>1, <2>7
<1> QED BY <1>2, <1>3, <1>4, <1>5

-----------------------------------------------------------------------------
(* The picture of a text.                                                  *)

(* The character of a line at a column, the number of lines that are no    *)
(* longer shown, and the row of the last line.                             *)
CharAt(L, r, col) ==
  IF r < Len(L) /\ col < Len(L[r + 1]) THEN L[r + 1][col + 1] ELSE Blank
Gone(L)    == IF Len(L) > VGA_HEIGHT THEN Len(L) - VGA_HEIGHT ELSE 0
LastRow(L) == Len(L) - Gone(L) - 1

(* A buffer that shows the last lines of L, and a screen that does so with *)
(* the cursor after the last character.                                    *)
Picture(v, L) ==
  \A row \in 0 .. VGA_HEIGHT - 1, col \in 0 .. VGA_WIDTH - 1 :
    v[row * VGA_WIDTH + col] = CharAt(L, Gone(L) + row, col)
Shows(v, x, y, L) == Picture(v, L) /\ y = LastRow(L) /\ x = Len(L[Len(L)])

(* Where the last line is shown.                                           *)
LEMMA LastRowIs ==
  ASSUME NEW L \in LineSeqs
  PROVE  /\ Gone(L) \in Nat /\ LastRow(L) \in 0 .. VGA_HEIGHT - 1
         /\ Gone(L) + LastRow(L) = Len(L) - 1
         /\ LastRow(L) < VGA_HEIGHT - 1 => Gone(L) = 0 /\ Len(L) < VGA_HEIGHT
         /\ LastRow(L) = VGA_HEIGHT - 1 => Gone(L) + VGA_HEIGHT = Len(L)
<1>1. PICK n : n = Len(L)
  OBVIOUS
<1>2. n \in Nat /\ n >= 1
  BY <1>1, LineIs
<1> QED BY <1>1, <1>2, Geometry DEF Gone, LastRow

(* A line break changes no character.                                      *)
LEMMA CharAtBroken ==
  ASSUME NEW L \in LineSeqs, NEW r \in Nat, NEW col \in Nat
  PROVE  CharAt(Broken(L), r, col) = CharAt(L, r, col)
<1>1. PICK n, M : n = Len(L) /\ M = Broken(L)
  OBVIOUS
<1>2. n \in Nat /\ Len(M) = n + 1 /\ (\A i \in 1 .. n : M[i] = L[i]) /\ M[n + 1] = <<>>
  BY <1>1, BrokenIs, LineIs
<1>3. CASE r < n
  <2>1. r < n + 1 /\ r + 1 \in 1 .. n
    BY <1>2, <1>3
  <2>2. M[r + 1] = L[r + 1]
    BY <1>2, <2>1
  <2> QED BY <1>1, <1>2, <1>3, <2>1, <2>2, Zenon DEF CharAt
<1>4. CASE r = n
  <2>1. Len(M[r + 1]) = 0
    BY <1>2, <1>4
  <2>2. ~(col < Len(M[r + 1])) /\ ~(r < n)
    BY <1>2, <1>4, <2>1
  <2> QED BY <1>1, <2>2, Zenon DEF CharAt
<1>5. CASE r > n
  <2>1. ~(r < n + 1) /\ ~(r < n)
    BY <1>2, <1>5
  <2> QED BY <1>1, <1>2, <2>1, Zenon DEF CharAt
<1> QED BY <1>2, <1>3, <1>4, <1>5

(* A character changes the end of the last line.                           *)
LEMMA CharAtLonger ==
  ASSUME NEW L \in LineSeqs, NEW ch \in Alphabet, NEW r \in Nat, NEW col \in Nat
  PROVE  CharAt(Longer(L, ch), r, col)
           = IF r = Len(L) - 1 /\ col = Len(L[Len(L)]) THEN ch ELSE CharAt(L, r, col)
<1>1. PICK n, M, e : n = Len(L) /\ M = Longer(L, ch) /\ e = L[n]
  OBVIOUS
<1>2. /\ n \in Nat /\ n >= 1 /\ Len(M) = n /\ (\A i \in 1 .. n - 1 : M[i] = L[i])
      /\ M[n] = Append(e, ch) /\ e \in Seq(Alphabet)
  <2>1. n \in 1 .. n
    BY <1>1, LineIs
  <2> QED BY <1>1, <2>1, LongerIs, LineIs
<1>3. CASE r < n - 1
  <2>1. r + 1 \in 1 .. n - 1 /\ r # n - 1
    BY <1>2, <1>3
  <2>2. M[r + 1] = L[r + 1]
    BY <1>2, <2>1
  <2> QED BY <1>1, <1>2, <2>1, <2>2, Zenon DEF CharAt
<1>4. CASE r = n - 1
  <2>1. PICK m, d : m = Len(e) /\ d = Append(e, ch)
    OBVIOUS
  <2>2. m \in Nat /\ Len(d) = m + 1 /\ (\A i \in 1 .. m : d[i] = e[i]) /\ d[m + 1] = ch
    BY <1>2, <2>1, AppendProperties
  <2>3. r + 1 = n /\ r < n
    BY <1>2, <1>4
  <2>4. CharAt(M, r, col) = IF col < m + 1 THEN d[col + 1] ELSE Blank
    BY <1>2, <2>1, <2>2, <2>3, Zenon DEF CharAt
  <2>5. CharAt(L, r, col) = IF col < m THEN e[col + 1] ELSE Blank
    BY <1>1, <2>1, <2>3, Zenon DEF CharAt
  <2>6. CharAt(M, r, col) = IF col = m THEN ch ELSE CharAt(L, r, col)
    <3>1. CASE col < m
      <4>1. col + 1 \in 1 .. m /\ col < m + 1 /\ col # m
        BY <2>2, <3>1
      <4> QED BY <2>2, <2>4, <2>5, <3>1, <4>1
    <3>2. CASE col = m
      <4>1. col < m + 1
        BY <2>2, <3>2
      <4>2. d[col + 1] = ch
        BY <2>2, <3>2
      <4> QED BY <2>4, <3>2, <4>1, <4>2
    <3>3. CASE col > m
      BY <2>2, <2>4, <2>5, <3>3
    <3> QED BY <2>2, <3>1, <3>2, <3>3
  <2> QED BY <1>1, <1>4, <2>1, <2>6, Zenon
<1>5. CASE r > n - 1
  <2>1. ~(r < n) /\ r # n - 1
    BY <1>2, <1>5
  <2>2. CharAt(M, r, col) = Blank /\ CharAt(L, r, col) = Blank
    BY <1>1, <1>2, <2>1, Zenon DEF CharAt
  <2> QED BY <1>1, <2>1, <2>2
<1> QED BY <1>2, <1>3, <1>4, <1>5

(* The cells of a row, and that no two of them are one.                    *)
LEMMA CellIs ==
  ASSUME NEW row \in 0 .. VGA_HEIGHT - 1, NEW col \in 0 .. VGA_WIDTH - 1
  PROVE  /\ row * VGA_WIDTH + col \in Cells
         /\ row * VGA_WIDTH + col + VGA_WIDTH \in Cells <=> row < VGA_HEIGHT - 1
         /\ row * VGA_WIDTH + col + VGA_WIDTH = (row + 1) * VGA_WIDTH + col
<1>1. PICK b : b = row * VGA_WIDTH
  OBVIOUS
<1>2. b \in Nat /\ b + VGA_WIDTH <= Area
  BY <1>1, Geometry
<1>3. (row + 1) * VGA_WIDTH = b + VGA_WIDTH
  <2>1. \A w, r \in Nat : (r + 1) * w = r * w + w
    OBVIOUS
  <2>2. row \in Nat /\ VGA_WIDTH \in Nat
    BY Geometry
  <2> QED BY <1>1, <2>1, <2>2
<1>4. b + col \in Cells
  BY <1>2, CellsAre, Geometry
<1>5. CASE row < VGA_HEIGHT - 1
  <2>1. PICK r, z : r = row + 1 /\ z = r * VGA_WIDTH
    OBVIOUS
  <2>2. r \in 0 .. VGA_HEIGHT - 1
    BY <1>5, <2>1, Geometry
  <2>3. z + VGA_WIDTH <= Area
    BY <2>1, <2>2, Geometry
  <2>4. z = b + VGA_WIDTH
    BY <1>3, <2>1
  <2>5. b + col + VGA_WIDTH \in Cells
    BY <1>2, <2>3, <2>4, CellsAre, Geometry
  <2>6. b + col + VGA_WIDTH = z + col
    BY <1>2, <2>4, Geometry
  <2> QED BY <1>1, <1>4, <1>5, <2>1, <2>5, <2>6
<1>6. CASE ~(row < VGA_HEIGHT - 1)
  <2>1. row = VGA_HEIGHT - 1 /\ VGA_WIDTH \in Nat /\ VGA_HEIGHT \in Nat
    BY <1>6, Geometry
  <2>2. row + 1 = VGA_HEIGHT
    BY <2>1
  <2>3. b + VGA_WIDTH = Area
    BY <1>3, <2>2, Geometry, Zenon
  <2>4. b + col + VGA_WIDTH \notin Cells /\ b + col + VGA_WIDTH = (b + VGA_WIDTH) + col
    BY <1>2, <2>1, <2>3, CellsAre
  <2> QED BY <1>1, <1>3, <1>4, <1>6, <2>4
<1> QED BY <1>5, <1>6

(* A cell has one row and one column.                                      *)
LEMMA CellUnique ==
  ASSUME NEW r \in 0 .. VGA_HEIGHT - 1, NEW s \in 0 .. VGA_HEIGHT - 1,
         NEW a \in 0 .. VGA_WIDTH - 1, NEW b \in 0 .. VGA_WIDTH - 1,
         r * VGA_WIDTH + a = s * VGA_WIDTH + b
  PROVE  r = s /\ a = b
<1>1. r \in Int /\ s \in Int /\ VGA_WIDTH \in Nat \ {0}
  BY Geometry
<1>2. VGA_WIDTH * r = r * VGA_WIDTH /\ VGA_WIDTH * s = s * VGA_WIDTH
  BY <1>1
<1>3. (VGA_WIDTH * r + a) % VGA_WIDTH = a /\ (VGA_WIDTH * s + b) % VGA_WIDTH = b
  BY <1>1, ModUnique
<1>4. a = b
  BY <1>2, <1>3
<1>5. VGA_WIDTH * (r - s) = 0
  BY <1>1, <1>4
<1>6. r = s
  <2>1. PICK d \in Int : d = r - s
    BY <1>1
  <2>2. CASE d >= 1
    <3>1. VGA_WIDTH * d >= VGA_WIDTH
      BY <1>1, <2>2
    <3> QED BY <1>1, <1>5, <2>1, <3>1
  <2>3. CASE d <= -1
    <3>1. VGA_WIDTH * d <= -VGA_WIDTH
      BY <1>1, <2>3
    <3> QED BY <1>1, <1>5, <2>1, <3>1
  <2> QED BY <1>1, <2>1, <2>2, <2>3
<1> QED BY <1>4, <1>6

(* The cell that the next character of a text goes to.                     *)
NextCell(L) == LastRow(L) * VGA_WIDTH + Len(L[Len(L)])

(* The store of a character where the cursor is shows it.                  *)
LEMMA PutShows ==
  ASSUME NEW L \in OpenLines, NEW ch \in Alphabet, NEW v, v = [i \in Window |-> v[i]],
         Picture(v, L), NEW e, e = NextCell(L),
         NEW w, w = [v EXCEPT ![e] = ch]
  PROVE  Picture(w, Longer(L, ch))
<1>1. PICK n, m, y : n = Len(L) /\ m = Len(L[n]) /\ y = LastRow(L)
  OBVIOUS
<1>2. L \in LineSeqs /\ n \in Nat /\ n >= 1 /\ m \in 0 .. VGA_WIDTH - 1
  <2>1. L \in LineSeqs /\ m < VGA_WIDTH
    BY <1>1 DEF OpenLines
  <2>2. n \in 1 .. n
    BY <1>1, <2>1, LineIs
  <2>3. m \in Nat
    BY <1>1, <2>1, <2>2, LineIs
  <2> QED BY <2>1, <2>2, <2>3, Geometry
<1>3. PICK g : g = Gone(L)
  OBVIOUS
<1>4. g \in Nat /\ y \in 0 .. VGA_HEIGHT - 1 /\ g + y = n - 1
  BY <1>1, <1>2, <1>3, LastRowIs
<1>5. Gone(Longer(L, ch)) = g
  <2>1. Len(Longer(L, ch)) = Len(L)
    BY <1>2, LongerIs
  <2> QED BY <1>3, <2>1, Zenon DEF Gone
<1>6. ASSUME NEW row \in 0 .. VGA_HEIGHT - 1, NEW col \in 0 .. VGA_WIDTH - 1
      PROVE  w[row * VGA_WIDTH + col] = CharAt(Longer(L, ch), g + row, col)
  <2>1. PICK d : d = row * VGA_WIDTH + col
    OBVIOUS
  <2>2. d \in Window /\ e \in Window
    <3>1. e = y * VGA_WIDTH + m
      BY <1>1, Zenon DEF NextCell
    <3>2. d \in Cells
      BY <2>1, CellIs
    <3>3. y * VGA_WIDTH + m \in Cells
      BY <1>2, <1>4, CellIs, Zenon
    <3>4. e \in Cells
      BY <3>1, <3>3, Zenon
    <3> QED BY <3>2, <3>4, CellsInWindow
  <2>3. w[d] = IF d = e THEN ch ELSE v[d]
    BY <2>2
  <2>4. v[d] = CharAt(L, g + row, col)
    BY <1>3, <2>1 DEF Picture
  <2>5. d = e <=> row = y /\ col = m
    <3>1. e = y * VGA_WIDTH + m
      BY <1>1, Zenon DEF NextCell
    <3>2. d = e => row = y /\ col = m
      BY <1>2, <1>4, <2>1, <3>1, CellUnique
    <3> QED BY <2>1, <3>1, <3>2, Zenon
  <2>6. g + row \in Nat /\ col \in Nat /\ (g + row = n - 1 <=> row = y)
    BY <1>2, <1>4, Sizes
  <2>7. CharAt(Longer(L, ch), g + row, col)
          = IF g + row = n - 1 /\ col = m THEN ch ELSE CharAt(L, g + row, col)
    <3>1. PICK q : q = g + row
      OBVIOUS
    <3>0. q \in Nat /\ col \in Nat
      BY <2>6, <3>1
    <3>2. CharAt(Longer(L, ch), q, col)
            = IF q = Len(L) - 1 /\ col = Len(L[Len(L)]) THEN ch ELSE CharAt(L, q, col)
      BY <1>2, <3>0, CharAtLonger
    <3> QED BY <1>1, <3>1, <3>2, Zenon
  <2> QED BY <2>1, <2>3, <2>4, <2>5, <2>6, <2>7
<1> QED BY <1>5, <1>6, Zenon DEF Picture

(* A line break above the last row of the screen leaves the picture.       *)
LEMMA BreakShows ==
  ASSUME NEW L \in LineSeqs, NEW v, Picture(v, L), LastRow(L) < VGA_HEIGHT - 1
  PROVE  Picture(v, Broken(L)) /\ LastRow(Broken(L)) = LastRow(L) + 1
<1>1. PICK n : n = Len(L)
  OBVIOUS
<1>2. n \in Nat /\ n < VGA_HEIGHT /\ Gone(L) = 0 /\ LastRow(L) = n - 1
  <2>1. n \in Nat /\ Gone(L) = 0 /\ n < VGA_HEIGHT
    BY <1>1, LastRowIs, LineIs
  <2> QED BY <1>1, <2>1 DEF LastRow
<1>3. Len(Broken(L)) = n + 1
  BY <1>1, BrokenIs
<1>4. Gone(Broken(L)) = 0 /\ LastRow(Broken(L)) = LastRow(L) + 1
  <2>1. ~(n + 1 > VGA_HEIGHT) /\ n + 1 - 0 - 1 = (n - 1) + 1
    BY <1>2, Sizes
  <2>2. Gone(Broken(L)) = 0
    BY <1>3, <2>1, Zenon DEF Gone
  <2>3. LastRow(Broken(L)) = n + 1 - 0 - 1
    BY <1>2, <1>3, <2>2 DEF LastRow
  <2> QED BY <1>2, <2>1, <2>2, <2>3, Zenon
<1>5. ASSUME NEW row \in 0 .. VGA_HEIGHT - 1, NEW col \in 0 .. VGA_WIDTH - 1
      PROVE  v[row * VGA_WIDTH + col] = CharAt(Broken(L), 0 + row, col)
  <2>1. 0 + row \in Nat /\ col \in Nat
    BY Geometry
  <2>2. v[row * VGA_WIDTH + col] = CharAt(L, 0 + row, col)
    BY <1>2 DEF Picture
  <2> QED BY <2>1, <2>2, CharAtBroken
<1> QED BY <1>4, <1>5, Zenon DEF Picture

(* A buffer whose lines are those of p, one line up.                       *)
Scrolled(v, p) ==
  \A i \in Cells : v[i] = IF i + VGA_WIDTH \in Cells THEN p[i + VGA_WIDTH] ELSE Blank

(* On the last row the picture scrolls.                                    *)
LEMMA ScrollShows ==
  ASSUME NEW L \in LineSeqs, NEW p, Picture(p, L), LastRow(L) = VGA_HEIGHT - 1,
         NEW v, Scrolled(v, p)
  PROVE  Picture(v, Broken(L)) /\ LastRow(Broken(L)) = VGA_HEIGHT - 1
<1>1. PICK n, g : n = Len(L) /\ g = Gone(L)
  OBVIOUS
<1>2. n \in Nat /\ g \in Nat /\ g + VGA_HEIGHT = n
  BY <1>1, LastRowIs, LineIs
<1>3. Len(Broken(L)) = n + 1
  BY <1>1, BrokenIs
<1>4. Gone(Broken(L)) = g + 1 /\ LastRow(Broken(L)) = VGA_HEIGHT - 1
  BY <1>2, <1>3, Geometry DEF Gone, LastRow
<1>5. ASSUME NEW row \in 0 .. VGA_HEIGHT - 1, NEW col \in 0 .. VGA_WIDTH - 1
      PROVE  v[row * VGA_WIDTH + col] = CharAt(Broken(L), (g + 1) + row, col)
  <2>1. PICK d, r : d = row * VGA_WIDTH + col /\ r = row + 1
    OBVIOUS
  <2>2. /\ d \in Cells /\ (d + VGA_WIDTH \in Cells <=> row < VGA_HEIGHT - 1)
        /\ d + VGA_WIDTH = r * VGA_WIDTH + col
    BY <2>1, CellIs
  <2>3. (g + 1) + row = g + r /\ g + r \in Nat /\ col \in Nat
    BY <1>2, <2>1, Geometry
  <2>4. CharAt(Broken(L), g + r, col) = CharAt(L, g + r, col)
    BY <2>3, CharAtBroken
  <2>5. CASE row < VGA_HEIGHT - 1
    <3>1. v[d] = p[r * VGA_WIDTH + col]
      BY <2>2, <2>5, Zenon DEF Scrolled
    <3>2. r \in 0 .. VGA_HEIGHT - 1
      BY <2>1, <2>5, Geometry
    <3>3. p[r * VGA_WIDTH + col] = CharAt(L, g + r, col)
      BY <1>1, <3>2, Zenon DEF Picture
    <3> QED BY <2>1, <2>3, <2>4, <3>1, <3>3
  <2>6. CASE ~(row < VGA_HEIGHT - 1)
    <3>1. v[d] = Blank
      BY <2>2, <2>6, Zenon DEF Scrolled
    <3>2. ~(g + r < n)
      BY <1>2, <2>1, <2>6, Geometry
    <3>3. CharAt(L, g + r, col) = Blank
      BY <1>1, <3>2, Zenon DEF CharAt
    <3> QED BY <2>1, <2>3, <2>4, <3>1, <3>3
  <2> QED BY <2>5, <2>6
<1> QED BY <1>4, <1>5, Zenon DEF Picture

(* The end of a text that a line break ends, and of one that does not.     *)
LEMMA LastLineIs ==
  ASSUME NEW L \in LineSeqs
  PROVE  /\ Len(Broken(L)[Len(Broken(L))]) = 0
         /\ \A ch \in Alphabet : /\ LastRow(Longer(L, ch)) = LastRow(L)
                                 /\ Len(Longer(L, ch)[Len(Longer(L, ch))]) = Len(L[Len(L)]) + 1
<1>1. Len(Broken(L)[Len(Broken(L))]) = 0
  <2>1. Broken(L)[Len(Broken(L))] = <<>>
    BY BrokenIs
  <2> QED BY <2>1
<1>2. ASSUME NEW ch \in Alphabet
      PROVE  /\ LastRow(Longer(L, ch)) = LastRow(L)
             /\ Len(Longer(L, ch)[Len(Longer(L, ch))]) = Len(L[Len(L)]) + 1
  <2>1. PICK M, e : M = Longer(L, ch) /\ e = L[Len(L)]
    OBVIOUS
  <2>2. Len(M) = Len(L) /\ M[Len(L)] = Append(e, ch)
    BY <2>1, LongerIs
  <2>3. e \in Seq(Alphabet)
    <3>1. Len(L) \in 1 .. Len(L)
      BY LineIs
    <3> QED BY <2>1, <3>1, LineIs
  <2>4. Len(Append(e, ch)) = Len(e) + 1
    BY <2>3
  <2>5. LastRow(M) = LastRow(L)
    BY <2>2, Zenon DEF LastRow, Gone
  <2> QED BY <2>1, <2>2, <2>4, <2>5
<1> QED BY <1>1, <1>2

(* A screen that shows the lines of a text.                                *)
ScreenShows(s, L) ==
  /\ s = [vga |-> s.vga, x |-> s.x, y |-> s.y]
  /\ s.vga = [i \in Window |-> s.vga[i]]
  /\ Shows(s.vga, s.x, s.y, L)

(* A line break in a handler shows the line break.                         *)
LEMMA LineDownShows ==
  ASSUME NEW L \in LineSeqs, NEW v, v = [i \in Window |-> v[i]], Picture(v, L), NEW x
  PROVE  ScreenShows(LineDown([vga |-> v, x |-> x, y |-> LastRow(L)]), Broken(L))
<1>0. PICK y, z : y = LastRow(L) /\ z = y + 1
  OBVIOUS
<1>s. PICK s, d : s = [vga |-> v, x |-> x, y |-> y] /\ d = [vga |-> v, x |-> 0, y |-> z]
  OBVIOUS
<1>1. PICK t : t = LineDown(s)
  OBVIOUS
<1> SUFFICES ScreenShows(t, Broken(L))
  BY <1>0, <1>1, <1>s
<1>2. y \in 0 .. VGA_HEIGHT - 1 /\ VGA_HEIGHT \in Nat
  BY <1>0, LastRowIs, Sizes
<1>3. /\ z >= VGA_HEIGHT => t = scroll_screen(d)
      /\ ~(z >= VGA_HEIGHT) => t = d
  <2>1. IsScreen(s, v, x, y) /\ IsScreen(d, v, 0, z)
    BY <1>s DEF IsScreen
  <2> QED BY <1>0, <1>1, <2>1, LineDownIs
<1>4. Len(Broken(L)[Len(Broken(L))]) = 0
  BY LastLineIs
<1>5. CASE ~(z >= VGA_HEIGHT)
  <2>1. t = [vga |-> v, x |-> 0, y |-> z]
    BY <1>3, <1>5, <1>s
  <2>2. t.vga = v /\ t.x = 0 /\ t.y = z
    BY <2>1
  <2>3. y < VGA_HEIGHT - 1
    BY <1>0, <1>2, <1>5
  <2>4. Picture(v, Broken(L)) /\ LastRow(Broken(L)) = z
    BY <1>0, <2>3, BreakShows, Zenon
  <2>5. Shows(t.vga, t.x, t.y, Broken(L))
    BY <1>4, <2>2, <2>4, Zenon DEF Shows
  <2> QED BY <2>1, <2>2, <2>5, Zenon DEF ScreenShows
<1>6. CASE z >= VGA_HEIGHT
  <2> DEFINE u == [i \in Window |-> IF i + VGA_WIDTH \in Cells THEN v[i + VGA_WIDTH]
                                    ELSE IF i \in Cells THEN Blank ELSE v[i]]
  <2>1. t = [vga |-> u, x |-> 0, y |-> VGA_HEIGHT - 1]
    <3>1. d.vga = v
      BY <1>s
    <3>2. t = scroll_screen(d)
      BY <1>3, <1>6
    <3> QED BY <3>1, <3>2 DEF scroll_screen
  <2>2. t.vga = u /\ t.x = 0 /\ t.y = VGA_HEIGHT - 1
    BY <2>1
  <2>3. y = VGA_HEIGHT - 1
    BY <1>0, <1>2, <1>6
  <2>4. Scrolled(u, v)
    BY CellsInWindow DEF Scrolled
  <2>5. u = [i \in Window |-> u[i]]
    OBVIOUS
  <2> HIDE DEF u
  <2>6. Picture(u, Broken(L)) /\ LastRow(Broken(L)) = VGA_HEIGHT - 1
    BY <1>0, <2>3, <2>4, ScrollShows, Zenon
  <2>7. Shows(t.vga, t.x, t.y, Broken(L))
    BY <1>4, <2>2, <2>6, Zenon DEF Shows
  <2> QED BY <2>1, <2>2, <2>5, <2>7, Zenon DEF ScreenShows
<1> QED BY <1>5, <1>6

(* What a handler prints is shown, character by character.                 *)
LEMMA PrintCharShows ==
  ASSUME NEW L \in OpenLines, NEW ch \in Alphabet, NEW s, ScreenShows(s, L)
  PROVE  ScreenShows(print_char(s, ch), AddChar(L, ch))
<1>1. PICK v, x, y : v = s.vga /\ x = s.x /\ y = s.y
  OBVIOUS
<1>2. /\ s = [vga |-> v, x |-> x, y |-> y] /\ v = [i \in Window |-> v[i]]
      /\ Picture(v, L) /\ y = LastRow(L) /\ x = Len(L[Len(L)])
  BY <1>1, Zenon DEF ScreenShows, Shows
<1>3. L \in LineSeqs /\ x < VGA_WIDTH
  BY <1>2 DEF OpenLines
<1>4. x \in Nat /\ VGA_WIDTH \in Nat
  <2>1. Len(L) \in 1 .. Len(L)
    BY <1>3, LineIs
  <2> QED BY <1>2, <1>3, <2>1, LineIs, Sizes
<1>5. CASE ch = NEWLINE
  <2>1. AddChar(L, ch) = Broken(L)
    BY <1>5, AddCharIs
  <2>2. print_char(s, ch) = LineDown([vga |-> v, x |-> x, y |-> LastRow(L)])
    BY <1>2, <1>5, Zenon DEF print_char
  <2> QED BY <1>2, <1>3, <2>1, <2>2, LineDownShows
<1>6. CASE ch # NEWLINE
  <2>1. PICK e, z, M : e = y * VGA_WIDTH + x /\ z = x + 1 /\ M = Longer(L, ch)
    OBVIOUS
  <2>2. PICK w : w = [v EXCEPT ![e] = ch]
    OBVIOUS
  <2>d. PICK d : d = [vga |-> w, x |-> z, y |-> y]
    OBVIOUS
  <2>3. /\ z >= VGA_WIDTH => print_char(s, ch) = LineDown(d)
        /\ ~(z >= VGA_WIDTH) => print_char(s, ch) = d
    <3>1. IsScreen(s, v, x, y) /\ IsScreen(d, w, z, y) /\ Stored(w, v, e, ch)
      BY <1>2, <2>2, <2>d DEF IsScreen, Stored
    <3> QED BY <1>6, <2>1, <3>1, PrintCharIs
  <2>4. Picture(w, M)
    <3>1. e = NextCell(L)
      BY <1>2, <2>1, Zenon DEF NextCell
    <3> QED BY <1>2, <2>1, <2>2, <3>1, PutShows, Zenon
  <2>5. w = [i \in Window |-> w[i]]
    BY <1>2, <2>2
  <2>6. M \in LineSeqs /\ LastRow(M) = y /\ Len(M[Len(M)]) = z
    BY <1>2, <1>3, <2>1, LongerIs, LastLineIs
  <2>7. CASE z >= VGA_WIDTH
    <3>1. AddChar(L, ch) = Broken(M)
      <4>1. Len(L[Len(L)]) + 1 = VGA_WIDTH
        BY <1>2, <1>3, <1>4, <2>1, <2>7
      <4> QED BY <1>6, <2>1, <4>1, AddCharIs
    <3>2. print_char(s, ch) = LineDown([vga |-> w, x |-> z, y |-> LastRow(M)])
      BY <2>3, <2>6, <2>7, <2>d
    <3> QED BY <2>4, <2>5, <2>6, <3>1, <3>2, LineDownShows
  <2>8. CASE ~(z >= VGA_WIDTH)
    <3>1. AddChar(L, ch) = M
      <4>1. Len(L[Len(L)]) + 1 # VGA_WIDTH
        BY <1>2, <1>3, <1>4, <2>1, <2>8
      <4> QED BY <1>6, <2>1, <4>1, AddCharIs
    <3>2. PICK t : t = print_char(s, ch)
      OBVIOUS
    <3>3. t = [vga |-> w, x |-> z, y |-> y]
      BY <2>3, <2>8, <2>d, <3>2
    <3>4. t.vga = w /\ t.x = z /\ t.y = y
      BY <3>3
    <3>5. Shows(t.vga, t.x, t.y, M)
      BY <2>4, <2>6, <3>4, Zenon DEF Shows
    <3>6. ScreenShows(t, M)
      BY <2>5, <3>3, <3>4, <3>5, Zenon DEF ScreenShows
    <3> QED BY <3>1, <3>2, <3>6, Zenon
  <2> QED BY <2>7, <2>8
<1> QED BY <1>5, <1>6

(* The lines of a text, character after character.                         *)
LinesOf(u) == FoldLeft(AddChar, <<<<>>>>, u)

(* h holds the lines of every prefix of u.                                 *)
LinesTrace(h, u) ==
  /\ h[0] = <<<<>>>> /\ h[Len(u)] = LinesOf(u)
  /\ \A i \in 1 .. Len(u) : h[i] = AddChar(h[i - 1], u[i])
  /\ \A i \in 0 .. Len(u) : h[i] \in OpenLines

(* No text is one empty line.                                              *)
LEMMA NoText == <<<<>>>> \in OpenLines
<1>1. PICK L : L = <<<<>>>>
  OBVIOUS
<1>2. L \in Seq(Seq(Alphabet)) /\ Len(L) = 1 /\ L[1] = <<>>
  BY <1>1
<1>3. L \in LineSeqs /\ Len(L[Len(L)]) = 0
  <2>1. Len(L) >= 1
    BY <1>2
  <2>2. L \in LineSeqs
    BY <1>2, <2>1, Zenon DEF LineSeqs
  <2>3. L[Len(L)] = <<>>
    BY <1>2, Zenon
  <2>4. Len(<<>>) = 0
    OBVIOUS
  <2> QED BY <2>2, <2>3, <2>4, Zenon
<1> QED BY <1>1, <1>3, Sizes DEF OpenLines

(* There are such lines for every text.                                    *)
LEMMA LinesTraced ==
  ASSUME NEW u \in Seq(Alphabet)
  PROVE  \E h : LinesTrace(h, u)
<1>1. PICK n \in Nat : n = Len(u)
  OBVIOUS
<1>2. DOMAIN u = 1 .. n /\ \A i \in 1 .. n : u[i] \in Alphabet
  BY <1>1, ElementOfSeq
<1>3. PICK base : base = <<<<>>>>
  OBVIOUS
<1> DEFINE D == 1 .. n
<1> DEFINE V == OpenLines
<1> DEFINE F == [p \in D \X V |-> AddChar(p[2], u[p[1]])]
<1> DEFINE G(g) == g = [t \in SUBSET D |-> IF t = {} THEN base
                                           ELSE AddChar(g[t \ {Max(t)}], u[Max(t)])]
<1> DEFINE it == CHOOSE g : G(g)
<1>4. \A i \in D, v \in V : F[<<i, v>>] = AddChar(v, u[i])
  OBVIOUS
<1>5. \A i \in D, v \in V : AddChar(v, u[i]) \in V
  BY <1>2, AddCharIs
<1>6. LinesOf(u) = it[D]
  BY <1>2, <1>3 DEF LinesOf, FoldLeft, MapThenFoldSet
<1> HIDE DEF F
<1>7. StepsOn(F, n, V)
  BY <1>4, <1>5 DEF StepsOn
<1>8. base \in V
  BY <1>3, NoText
<1>m. \A t \in SUBSET D : t # {} => Max(t) \in D
  BY LastIsMax
<1> HIDE DEF V
<1>9. \E g : G(g)
  <2>1. PICK g : FoldsUp(g, n, base, F) /\ \A t \in SUBSET D : g[t] \in V
    BY <1>7, <1>8, FoldWithin
  <2>2. /\ g = [t \in SUBSET D |-> g[t]] /\ g[{}] = base
        /\ \A t \in SUBSET D : t # {} => g[t] = F[<<Max(t), g[t \ {Max(t)}]>>]
    BY <2>1, Zenon DEF FoldsUp
  <2>3. ASSUME NEW t \in SUBSET D
        PROVE  g[t] = IF t = {} THEN base ELSE AddChar(g[t \ {Max(t)}], u[Max(t)])
    <3>1. CASE t = {}
      BY <2>2, <3>1
    <3>2. CASE t # {}
      <4>1. t \ {Max(t)} \in SUBSET D
        OBVIOUS
      <4>2. g[t \ {Max(t)}] \in V /\ Max(t) \in D
        BY <1>m, <2>1, <3>2, <4>1, Zenon
      <4>3. g[t] = F[<<Max(t), g[t \ {Max(t)}]>>]
        BY <2>2, <3>2
      <4> QED BY <1>4, <3>2, <4>2, <4>3, Zenon
    <3> QED BY <3>1, <3>2
  <2>4. G(g)
    <3> HIDE DEF D
    <3> QED BY <2>2, <2>3
  <2> QED BY <2>4
<1>10. G(it)
  <2> HIDE DEF G
  <2> QED BY <1>9
<1> HIDE DEF it
<1>11. it[{}] = base
  BY <1>10
<1>12. ASSUME NEW t \in SUBSET D, t # {}, it[t \ {Max(t)}] \in V
       PROVE  it[t] = F[<<Max(t), it[t \ {Max(t)}]>>]
  <2>1. it[t] = AddChar(it[t \ {Max(t)}], u[Max(t)])
    BY <1>10, <1>12
  <2>2. Max(t) \in D
    BY <1>m, <1>12
  <2> QED BY <1>4, <1>12, <2>1, <2>2, Zenon
<1>13. PICK h : Trace(h, n, base, F, V) /\ h[n] = it[1 .. n]
  <2>1. FoldsIn(it, n, V, F)
    BY <1>12, Zenon DEF FoldsIn
  <2> QED BY <1>7, <1>8, <1>11, <2>1, FoldTrace
<1>14. \A i \in 1 .. n : h[i] = AddChar(h[i - 1], u[i])
  <2> TAKE i \in 1 .. n
  <2>1. i - 1 \in 0 .. n
    OBVIOUS
  <2>2. h[i - 1] \in V
    BY <1>13, <2>1 DEF Trace
  <2>3. h[i] = F[<<i, h[i - 1]>>]
    BY <1>13 DEF Trace
  <2> QED BY <1>4, <2>2, <2>3, Zenon
<1>15. h[0] = base /\ \A i \in 0 .. n : h[i] \in V
  BY <1>13 DEF Trace
<1>16. LinesTrace(h, u)
  BY <1>1, <1>3, <1>6, <1>13, <1>14, <1>15, Zenon DEF LinesTrace, V
<1> QED BY <1>16

(* The lines of a text and of what is printed after it.                    *)
LEMMA LinesGoOn ==
  ASSUME NEW u \in Seq(Alphabet), NEW str \in Seq(Alphabet), NEW g, LinesTrace(g, u \o str)
  PROVE  /\ g[Len(u)] = LinesOf(u) /\ g[Len(u) + Len(str)] = LinesOf(u \o str)
         /\ \A j \in 1 .. Len(str) : /\ g[Len(u) + (j - 1)] \in OpenLines
                                     /\ g[Len(u) + j] = AddChar(g[Len(u) + (j - 1)], str[j])
<1>0. PICK m \in Nat, n \in Nat : m = Len(u) /\ n = Len(str)
  OBVIOUS
<1>w. PICK w : w = u \o str
  OBVIOUS
<1>1. m = Len(u) /\ n = Len(str) /\ w = u \o str
  BY <1>0, <1>w
<1>2. /\ Len(w) = m + n /\ (\A i \in 1 .. m : w[i] = u[i])
      /\ \A j \in 1 .. n : w[m + j] = str[j]
  <2>1. /\ Len(w) = m + n
        /\ \A i \in 1 .. m + n : w[i] = IF i <= m THEN u[i] ELSE str[i - m]
    BY <1>1, ConcatProperties
  <2>2. \A i \in 1 .. m : i \in 1 .. m + n /\ i <= m
    OBVIOUS
  <2>3. \A j \in 1 .. n : m + j \in 1 .. m + n /\ ~(m + j <= m) /\ (m + j) - m = j
    OBVIOUS
  <2> QED BY <2>1, <2>2, <2>3
<1>3. /\ g[0] = <<<<>>>> /\ g[m + n] = LinesOf(w)
      /\ \A i \in 1 .. m + n : g[i] = AddChar(g[i - 1], w[i])
      /\ \A i \in 0 .. m + n : g[i] \in OpenLines
  <2>1. LinesTrace(g, w)
    BY <1>1
  <2> QED BY <1>2, <2>1, Zenon DEF LinesTrace
<1>4. PICK f : LinesTrace(f, u)
  BY LinesTraced
<1>5. /\ f[0] = <<<<>>>> /\ f[m] = LinesOf(u)
      /\ \A i \in 1 .. m : f[i] = AddChar(f[i - 1], u[i])
  BY <1>1, <1>4, Zenon DEF LinesTrace
<1>6. f[m] = g[m]
  <2>1. \A i \in 1 .. m : f[i - 1] = g[i - 1] => f[i] = g[i]
    <3> TAKE i \in 1 .. m
    <3>1. i \in 1 .. m + n
      OBVIOUS
    <3>2. g[i] = AddChar(g[i - 1], u[i])
      BY <1>2, <1>3, <3>1
    <3> QED BY <1>5, <3>2
  <2>2. f[0] = g[0]
    BY <1>3, <1>5, Zenon
  <2> QED BY <2>1, <2>2, TraceUnique, Zenon DEF SameSteps
<1>7. ASSUME NEW j \in 1 .. n
      PROVE  g[m + (j - 1)] \in OpenLines /\ g[m + j] = AddChar(g[m + (j - 1)], str[j])
  <2>1. PICK i, i1 : i = m + j /\ i1 = m + (j - 1)
    OBVIOUS
  <2>2. i \in 1 .. m + n /\ i1 \in 0 .. m + n /\ i - 1 = i1
    BY <2>1
  <2>3. w[i] = str[j]
    BY <1>2, <2>1
  <2>4. g[i] = AddChar(g[i1], str[j]) /\ g[i1] \in OpenLines
    BY <1>3, <2>2, <2>3
  <2> QED BY <2>1, <2>4
<1> QED BY <1>1, <1>3, <1>5, <1>6, <1>7

(* A handler that finds a text on the screen leaves it there with what it  *)
(* printed after it.                                                       *)
LEMMA PrintStringShows ==
  ASSUME NEW u \in Seq(Alphabet), NEW str \in Seq(Alphabet), NEW s0, ScreenShows(s0, LinesOf(u)),
         NEW h, PrintTrace(h, s0, str, Len(str))
  PROVE  ScreenShows(print_string(s0, str), LinesOf(u \o str))
<1>1. PICK m \in Nat, n \in Nat : m = Len(u) /\ n = Len(str)
  OBVIOUS
<1>2. PICK g : LinesTrace(g, u \o str)
  BY LinesTraced, ConcatProperties
<1>3. /\ g[m] = LinesOf(u) /\ g[m + n] = LinesOf(u \o str)
      /\ \A j \in 1 .. n : /\ g[m + (j - 1)] \in OpenLines
                           /\ g[m + j] = AddChar(g[m + (j - 1)], str[j])
  BY <1>1, <1>2, LinesGoOn
<1>4. /\ h[0] = s0 /\ h[n] = print_string(s0, str)
      /\ \A j \in 1 .. n : h[j] = print_char(h[j - 1], str[j])
  BY <1>1, Zenon DEF PrintTrace
<1>5. \A j \in 1 .. n : str[j] \in Alphabet
  BY <1>1, ElementOfSeq
<1>6. \A j \in 0 .. n : ScreenShows(h[j], g[m + j])
  <2> SUFFICES ASSUME NEW T, T = {j \in 0 .. n : ~ScreenShows(h[j], g[m + j])}, T # {} PROVE FALSE
    OBVIOUS
  <2>1. PICK j \in T : \A i \in T : j <= i
    <3>1. T \subseteq Nat
      OBVIOUS
    <3> QED BY <3>1, LeastNatural
  <2>2. j # 0
    <3>1. m + 0 = m
      OBVIOUS
    <3>2. ScreenShows(h[0], g[m + 0])
      BY <1>3, <1>4, <3>1
    <3> QED BY <2>1, <3>2
  <2>3. j \in 1 .. n /\ j - 1 \in 0 .. n
    BY <2>1, <2>2
  <2>4. j - 1 \notin T
    BY <2>1, <2>3
  <2>5. ScreenShows(h[j - 1], g[m + (j - 1)])
    BY <2>3, <2>4
  <2>6. ScreenShows(print_char(h[j - 1], str[j]), AddChar(g[m + (j - 1)], str[j]))
    BY <1>3, <1>5, <2>3, <2>5, PrintCharShows
  <2>7. ScreenShows(h[j], g[m + j])
    BY <1>3, <1>4, <2>3, <2>6
  <2> QED BY <2>1, <2>7
<1>7. n \in 0 .. n
  OBVIOUS
<1> QED BY <1>3, <1>4, <1>6, <1>7, Zenon

(* One character more.                                                     *)
LEMMA LinesStep ==
  ASSUME NEW u \in Seq(Alphabet), NEW ch \in Alphabet
  PROVE  LinesOf(u \o <<ch>>) = AddChar(LinesOf(u), ch)
<1>0. PICK m \in Nat : m = Len(u)
  OBVIOUS
<1>s. PICK str, n : str = <<ch>> /\ n = 1
  OBVIOUS
<1>1. str = <<ch>> /\ n = 1 /\ m = Len(u)
  BY <1>0, <1>s
<1>2. str \in Seq(Alphabet) /\ Len(str) = n /\ str[n] = ch /\ n \in 1 .. n /\ m + (n - 1) = m
  BY <1>1
<1>3. PICK g : LinesTrace(g, u \o str)
  BY <1>2, LinesTraced, ConcatProperties
<1>4. /\ g[m] = LinesOf(u) /\ g[m + n] = LinesOf(u \o str)
      /\ \A j \in 1 .. n : g[m + j] = AddChar(g[m + (j - 1)], str[j])
  <2>1. str \in Seq(Alphabet) /\ n = Len(str)
    BY <1>2
  <2>2. /\ g[Len(u)] = LinesOf(u) /\ g[Len(u) + Len(str)] = LinesOf(u \o str)
        /\ \A j \in 1 .. Len(str) : /\ g[Len(u) + (j - 1)] \in OpenLines
                                    /\ g[Len(u) + j] = AddChar(g[Len(u) + (j - 1)], str[j])
    BY <1>3, <2>1, LinesGoOn, SMTT(30)
  <2> QED BY <1>0, <2>1, <2>2, Zenon
<1>5. g[m + n] = AddChar(g[m + (n - 1)], str[n])
  BY <1>2, <1>4, Zenon
<1> QED BY <1>1, <1>2, <1>4, <1>5, Zenon

-----------------------------------------------------------------------------
(* The text on the screen, while kernel_main prints.                       *)

(* A buffer p in the middle of a scroll: the first n cells are copied, and *)
(* the cells before n of the last line are cleared.                        *)
Copied(v, p, n) ==
  \A i \in Cells : v[i] = IF i + VGA_WIDTH < n THEN p[i + VGA_WIDTH] ELSE p[i]
Cleared(v, p, n) ==
  \A i \in Cells : v[i] = IF i + VGA_WIDTH \in Cells THEN p[i + VGA_WIDTH]
                          ELSE IF i < n THEN Blank ELSE p[i]

(* Between two print_char the screen shows the text.                       *)
Idling == pc = "idle" /\ Shows(vga_buffer, cursor_x, cursor_y, LinesOf(text))

(* Before the store, it shows the text without the character c.            *)
Storing(L) ==
  /\ pc \in {"load_y", "load_x", "put"} /\ c \in Alphabet /\ c # NEWLINE
  /\ LinesOf(text) = AddChar(L, c) /\ Shows(vga_buffer, cursor_x, cursor_y, L)
  /\ pc = "load_x" => reg = cursor_y * VGA_WIDTH
  /\ pc = "put" => reg = NextCell(L)

(* After the store, the buffer shows c and the cursor is behind.           *)
Advancing(L) ==
  /\ pc \in {"inc_x", "store_x", "test_x"} /\ c \in Alphabet /\ c # NEWLINE
  /\ LinesOf(text) = AddChar(L, c) /\ Picture(vga_buffer, Longer(L, c)) /\ cursor_y = LastRow(L)
  /\ pc = "inc_x" => cursor_x = Len(L[Len(L)])
  /\ pc = "store_x" => reg = Len(L[Len(L)])
  /\ pc = "test_x" => cursor_x = Len(L[Len(L)]) + 1

(* In a line break, the buffer shows the text without the new line.        *)
Breaking(L) ==
  /\ pc \in {"carriage_return", "inc_y", "store_y", "test_y"}
  /\ LinesOf(text) = Broken(L) /\ Picture(vga_buffer, L)
  /\ pc \in {"carriage_return", "inc_y"} => cursor_y = LastRow(L)
  /\ pc # "carriage_return" => cursor_x = 0
  /\ pc = "store_y" => reg = LastRow(L)
  /\ pc = "test_y" => cursor_y = LastRow(L) + 1

(* In a scroll, p is the buffer before it, with the last row in use.       *)
Scrolling(L, p) ==
  /\ pc \in {"clamp_y", "copy", "store", "clear", "home_y", "home_x"}
  /\ LinesOf(text) = Broken(L) /\ Picture(p, L) /\ LastRow(L) = VGA_HEIGHT - 1
  /\ pc = "clamp_y" => Copied(vga_buffer, p, VGA_WIDTH)
  /\ pc \in {"copy", "store"} => Copied(vga_buffer, p, k)
  /\ pc = "store" => cell = p[k]
  /\ pc = "clear" => Cleared(vga_buffer, p, k) /\ k >= LastLine
  /\ pc \in {"home_y", "home_x"} => Scrolled(vga_buffer, p)
  /\ pc = "home_x" => cursor_y = VGA_HEIGHT - 1

Phase ==
  \/ Idling
  \/ \E L \in OpenLines : Storing(L)
  \/ \E L \in OpenLines : Advancing(L)
  \/ \E L \in LineSeqs : Breaking(L)
  \/ \E L \in LineSeqs : \E p : Scrolling(L, p)

TextInv == tracked => text \in Seq(Alphabet) /\ Phase

(* Which phase kernel_main is in.                                          *)
LEMMA PhaseOf ==
  ASSUME Phase
  PROVE  /\ pc = "idle" => Idling
         /\ pc \in {"load_y", "load_x", "put"} => \E L \in OpenLines : Storing(L)
         /\ pc \in {"inc_x", "store_x", "test_x"} => \E L \in OpenLines : Advancing(L)
         /\ pc \in {"carriage_return", "inc_y", "store_y", "test_y"} =>
              \E L \in LineSeqs : Breaking(L)
         /\ pc \in {"clamp_y", "copy", "store", "clear", "home_y", "home_x"} =>
              \E L \in LineSeqs : \E p : Scrolling(L, p)
<1>1. CASE Idling
  BY <1>1 DEF Idling
<1>2. CASE \E L \in OpenLines : Storing(L)
  BY <1>2 DEF Storing
<1>3. CASE \E L \in OpenLines : Advancing(L)
  BY <1>3 DEF Advancing
<1>4. CASE \E L \in LineSeqs : Breaking(L)
  BY <1>4 DEF Breaking
<1>5. CASE \E L \in LineSeqs : \E p : Scrolling(L, p)
  <2>1. pc \in {"clamp_y", "copy", "store", "clear", "home_y", "home_x"}
    BY <1>5 DEF Scrolling
  <2> QED BY <1>5, <2>1
<1> QED BY <1>1, <1>2, <1>3, <1>4, <1>5 DEF Phase

(* The lines of a text end in a line with room left.                       *)
LEMMA LinesOpen ==
  ASSUME NEW u \in Seq(Alphabet)
  PROVE  LinesOf(u) \in OpenLines
<1>1. PICK h : LinesTrace(h, u)
  BY LinesTraced
<1>2. Len(u) \in 0 .. Len(u)
  OBVIOUS
<1> QED BY <1>1, <1>2 DEF LinesTrace

(* Initially the screen is blank and so is the text.                       *)
LEMMA InitText == Init => TextInv
<1> SUFFICES ASSUME Init PROVE text \in Seq(Alphabet) /\ Idling
  BY DEF TextInv, Phase
<1>1. text = <<>> /\ text \in Seq(Alphabet)
  BY DEF Init
<1>2. LinesOf(text) = <<<<>>>>
  <2>1. PICK h : LinesTrace(h, text)
    BY <1>1, LinesTraced
  <2>2. PICK n : n = Len(text) /\ n = 0
    BY <1>1
  <2>3. h[0] = <<<<>>>> /\ h[n] = LinesOf(text)
    BY <2>1, <2>2 DEF LinesTrace
  <2> QED BY <2>2, <2>3
<1>3. PICK L : L = LinesOf(text)
  OBVIOUS
<1>4. Len(L) = 1 /\ L[1] = <<>> /\ L \in LineSeqs
  BY <1>2, <1>3, NoText DEF OpenLines
<1>5. LastRow(L) = 0 /\ Gone(L) = 0 /\ Len(L[Len(L)]) = 0
  <2>1. ~(1 > VGA_HEIGHT) /\ 1 - 0 - 1 = 0
    BY Sizes
  <2>2. Gone(L) = 0
    BY <1>4, <2>1 DEF Gone
  <2>3. LastRow(L) = 1 - 0 - 1
    BY <1>4, <2>2, Zenon DEF LastRow
  <2>4. L[Len(L)] = <<>>
    BY <1>4, Zenon
  <2>5. Len(<<>>) = 0
    OBVIOUS
  <2> QED BY <2>1, <2>2, <2>3, <2>4, <2>5
<1>6. ASSUME NEW row \in 0 .. VGA_HEIGHT - 1, NEW col \in 0 .. VGA_WIDTH - 1
      PROVE  vga_buffer[row * VGA_WIDTH + col] = CharAt(L, 0 + row, col)
  <2>1. PICK d : d = row * VGA_WIDTH + col
    OBVIOUS
  <2>2. d \in Window
    BY <2>1, CellIs, CellsInWindow
  <2>3. vga_buffer[d] = Blank
    BY <2>2 DEF Init
  <2>4. CharAt(L, 0 + row, col) = Blank
    <3>1. ~(0 + row < Len(L) /\ col < Len(L[0 + row + 1]))
      <4>1. CASE row = 0
        <5>1. PICK i : i = 0 + row + 1
          OBVIOUS
        <5>2. i = 1
          BY <4>1, <5>1
        <5>3. Len(L[i]) = 0
          BY <1>4, <5>2
        <5>4. ~(col < Len(L[i]))
          BY <5>3, Sizes
        <5> QED BY <5>1, <5>4
      <4>2. CASE row # 0
        BY <1>4, <4>2, Sizes
      <4> QED BY <4>1, <4>2
    <3> QED BY <3>1, Zenon DEF CharAt
  <2> QED BY <2>1, <2>3, <2>4
<1>7. Picture(vga_buffer, L)
  BY <1>5, <1>6, Zenon DEF Picture
<1>8. pc = "idle" /\ cursor_x = 0 /\ cursor_y = 0
  BY DEF Init
<1>9. Shows(vga_buffer, cursor_x, cursor_y, L)
  BY <1>5, <1>7, <1>8, Zenon DEF Shows
<1> QED BY <1>1, <1>3, <1>8, <1>9 DEF Idling

(* A print_char begins.                                                    *)
LEMMA CallText ==
  ASSUME TextInv, NEW ch \in Chars, CallPrintChar(ch)
  PROVE  TextInv'
<1> SUFFICES ASSUME tracked' PROVE text' \in Seq(Alphabet) /\ Phase'
  BY DEF TextInv
<1>1. tracked /\ text' = text \o <<ch>> /\ ch \in Alphabet
  BY DEF CallPrintChar, Remember, Alphabet
<1>2. /\ pc = "idle" /\ pc' = (IF ch = NEWLINE THEN "carriage_return" ELSE "load_y")
      /\ c' = ch /\ UNCHANGED <<vga_buffer, cursor_x, cursor_y>>
  BY DEF CallPrintChar, Goto, screen
<1>3. text \in Seq(Alphabet) /\ Idling
  BY <1>1, <1>2, PhaseOf DEF TextInv
<1>4. text' \in Seq(Alphabet)
  BY <1>1, <1>3
<1>5. PICK L \in OpenLines : L = LinesOf(text)
  BY <1>3, LinesOpen
<1>6. LinesOf(text') = AddChar(L, ch)
  BY <1>1, <1>3, <1>5, LinesStep
<1>7. Shows(vga_buffer, cursor_x, cursor_y, L)
  BY <1>3, <1>5 DEF Idling
<1>8. CASE ch = NEWLINE
  <2>1. LinesOf(text') = Broken(L) /\ L \in LineSeqs
    <3>1. AddChar(L, ch) = Broken(L)
      BY <1>1, <1>8, AddCharIs
    <3>2. L \in LineSeqs
      BY DEF OpenLines
    <3> QED BY <1>6, <3>1, <3>2
  <2>2. Picture(vga_buffer, L) /\ cursor_y = LastRow(L)
    BY <1>7 DEF Shows
  <2>3. Breaking(L)'
    BY <1>2, <1>8, <2>1, <2>2 DEF Breaking
  <2> QED BY <1>4, <2>1, <2>3 DEF Phase
<1>9. CASE ch # NEWLINE
  <2>1. Storing(L)'
    BY <1>1, <1>2, <1>6, <1>7, <1>9 DEF Storing
  <2> QED BY <1>4, <2>1 DEF Phase
<1> QED BY <1>8, <1>9

(* A handler prints while kernel_main does not.                            *)
LEMMA InterruptText ==
  ASSUME IInv, TextInv, NEW str \in HandlerStrings, Interrupt(str)
  PROVE  TextInv'
<1> SUFFICES ASSUME tracked' PROVE text' \in Seq(Alphabet) /\ Idling'
  BY DEF TextInv, Phase
<1>1. tracked /\ pc = "idle" /\ pc' = "idle" /\ text' = text \o str
  BY DEF Interrupt, Remember
<1>2. text \in Seq(Alphabet) /\ Idling
  BY <1>1, PhaseOf DEF TextInv
<1>3. PICK n : n = Len(str)
  OBVIOUS
<1>4. /\ str \in Seq(Alphabet) /\ n \in Nat /\ DOMAIN str = 1 .. n
      /\ \A i \in 1 .. n : str[i] \in Alphabet
  <2>1. str \in Seq(Range(str)) /\ Range(str) \subseteq Alphabet
    BY ScreenAssumption DEF Alphabet
  <2>2. str \in Seq(Alphabet)
    BY <2>1
  <2> QED BY <1>3, <2>2, ElementOfSeq
<1>5. PICK s0, s : /\ s0 = [vga |-> vga_buffer, x |-> cursor_x, y |-> cursor_y]
                   /\ s = print_string(s0, str)
  OBVIOUS
<1>6. vga_buffer' = s.vga /\ cursor_x' = s.x /\ cursor_y' = s.y
  BY <1>5, Zenon DEF Interrupt
<1>7. s0.vga = vga_buffer /\ s0.x = cursor_x /\ s0.y = cursor_y
  BY <1>5
<1>8. vga_buffer = [i \in Window |-> vga_buffer[i]] /\ BlankBelow(vga_buffer)
  BY DEF IInv, BufferInv, BlankBelow
<1>9. ScreenShows(s0, LinesOf(text))
  BY <1>2, <1>5, <1>7, <1>8, Zenon DEF ScreenShows, Idling
<1>10. \E h : PrintTrace(h, s0, str, n)
  <2> DEFINE A == {vga_buffer[i] : i \in Window} \cup {str[i] : i \in 1 .. n} \cup {Blank}
  <2>1. Blank \in A /\ \A i \in 1 .. n : str[i] \in A
    OBVIOUS
  <2>2. vga_buffer \in [Window -> A]
    <3>1. \A i \in Window : vga_buffer[i] \in A
      OBVIOUS
    <3> HIDE DEF A
    <3> QED BY <1>8, <3>1
  <2> HIDE DEF A
  <2>3. PICK l : l = VGA_HEIGHT - 1
    OBVIOUS
  <2>4. cursor_x \in 0 .. VGA_WIDTH /\ cursor_y \in 0 .. l /\ cursor_x # VGA_WIDTH
    BY <1>1, <2>3, Sizes DEF IInv, CursorInv
  <2>5. s0 \in Screens(A, l)
    <3>1. s0 \in [vga : [Window -> A], x : 0 .. VGA_WIDTH, y : 0 .. l]
      BY <1>5, <2>2, <2>4
    <3> QED BY <1>7, <1>8, <2>4, <3>1 DEF Screens
  <2>6. l \in {VGA_HEIGHT - 1, VGA_HEIGHT}
    BY <2>3
  <2> QED BY <1>4, <2>1, <2>5, <2>6, PrintStringTraced
<1>11. ScreenShows(s, LinesOf(text \o str))
  BY <1>2, <1>3, <1>4, <1>5, <1>9, <1>10, PrintStringShows
<1>12. Shows(s.vga, s.x, s.y, LinesOf(text \o str))
  BY <1>11 DEF ScreenShows
<1>13. text \o str \in Seq(Alphabet)
  BY <1>2, <1>4, ConcatProperties
<1>14. Idling'
  BY <1>1, <1>6, <1>12 DEF Idling
<1> QED BY <1>1, <1>13, <1>14

(* The store of a character.                                               *)
LEMMA StoreText ==
  ASSUME IInv, TextInv, store_char
  PROVE  TextInv'
<1> SUFFICES ASSUME tracked' PROVE text' \in Seq(Alphabet) /\ Phase'
  BY DEF TextInv
<1>1. /\ tracked /\ text' = text /\ UNCHANGED <<cursor_x, cursor_y, c>>
      /\ pc \in {"load_y", "load_x", "put"}
  BY DEF store_char, history, Goto
<1>2. text' \in Seq(Alphabet) /\ \E L \in OpenLines : Storing(L)
  BY <1>1, PhaseOf DEF TextInv
<1>3. PICK L \in OpenLines : Storing(L)
  BY <1>2
<1>4. /\ c \in Alphabet /\ c # NEWLINE /\ LinesOf(text) = AddChar(L, c)
      /\ Shows(vga_buffer, cursor_x, cursor_y, L)
  BY <1>3 DEF Storing
<1>5. cursor_y = LastRow(L) /\ cursor_x = Len(L[Len(L)]) /\ Picture(vga_buffer, L)
  BY <1>4 DEF Shows
<1>6. CASE Goto("load_y", "load_x") /\ reg' = cursor_y * VGA_WIDTH /\ UNCHANGED vga_buffer
  <2>1. pc' = "load_x"
    BY <1>6 DEF Goto
  <2>2. Storing(L)'
    BY <1>1, <1>4, <1>6, <2>1 DEF Storing
  <2> QED BY <1>2, <2>2 DEF Phase
<1>7. CASE Goto("load_x", "put") /\ reg' = reg + cursor_x /\ UNCHANGED vga_buffer
  <2>1. pc = "load_x" /\ pc' = "put"
    BY <1>7 DEF Goto
  <2>2. reg = cursor_y * VGA_WIDTH
    BY <1>3, <2>1 DEF Storing
  <2>3. reg' = NextCell(L)
    BY <1>5, <1>7, <2>2, Zenon DEF NextCell
  <2>4. Storing(L)'
    BY <1>1, <1>4, <1>7, <2>1, <2>3 DEF Storing
  <2> QED BY <1>2, <2>4 DEF Phase
<1>8. CASE Goto("put", "inc_x") /\ vga_buffer' = [vga_buffer EXCEPT ![reg] = c] /\ UNCHANGED reg
  <2>1. pc = "put" /\ pc' = "inc_x"
    BY <1>8 DEF Goto
  <2>2. reg = NextCell(L)
    BY <1>3, <2>1 DEF Storing
  <2>3. PICK v, w, ch : v = vga_buffer /\ w = vga_buffer' /\ ch = c
    OBVIOUS
  <2>4. v = [i \in Window |-> v[i]] /\ w = [v EXCEPT ![NextCell(L)] = ch]
    BY <1>8, <2>2, <2>3 DEF IInv, BufferInv
  <2>5. Picture(w, Longer(L, ch))
    BY <1>4, <1>5, <2>3, <2>4, PutShows
  <2>6. Advancing(L)'
    BY <1>1, <1>4, <1>5, <2>1, <2>3, <2>5 DEF Advancing
  <2> QED BY <1>2, <2>6 DEF Phase
<1> QED BY <1>6, <1>7, <1>8 DEF store_char

(* The cursor is moved to the next column.                                 *)
LEMMA AdvanceText ==
  ASSUME IInv, TextInv, advance_x
  PROVE  TextInv'
<1> SUFFICES ASSUME tracked' PROVE text' \in Seq(Alphabet) /\ Phase'
  BY DEF TextInv
<1>1. /\ tracked /\ text' = text /\ UNCHANGED <<vga_buffer, cursor_y, c>>
      /\ pc \in {"inc_x", "store_x", "test_x"}
  BY DEF advance_x, history, Goto
<1>2. text' \in Seq(Alphabet) /\ \E L \in OpenLines : Advancing(L)
  BY <1>1, PhaseOf DEF TextInv
<1>3. PICK L \in OpenLines : Advancing(L)
  BY <1>2
<1>4. /\ c \in Alphabet /\ c # NEWLINE /\ LinesOf(text) = AddChar(L, c)
      /\ Picture(vga_buffer, Longer(L, c)) /\ cursor_y = LastRow(L)
  BY <1>3 DEF Advancing
<1>5. CASE Goto("inc_x", "store_x") /\ reg' = cursor_x /\ UNCHANGED cursor_x
  <2>1. pc = "inc_x" /\ pc' = "store_x"
    BY <1>5 DEF Goto
  <2>2. reg' = Len(L[Len(L)])
    BY <1>3, <1>5, <2>1 DEF Advancing
  <2>3. Advancing(L)'
    BY <1>1, <1>4, <2>1, <2>2 DEF Advancing
  <2> QED BY <1>2, <2>3 DEF Phase
<1>6. CASE Goto("store_x", "test_x") /\ cursor_x' = reg + 1 /\ UNCHANGED reg
  <2>1. pc = "store_x" /\ pc' = "test_x"
    BY <1>6 DEF Goto
  <2>2. cursor_x' = Len(L[Len(L)]) + 1
    BY <1>3, <1>6, <2>1 DEF Advancing
  <2>3. Advancing(L)'
    BY <1>1, <1>4, <2>1, <2>2 DEF Advancing
  <2> QED BY <1>2, <2>3 DEF Phase
<1>7. CASE /\ Goto("test_x", IF cursor_x >= VGA_WIDTH THEN "carriage_return" ELSE "idle")
           /\ UNCHANGED <<cursor_x, reg>>
  <2>1. pc = "test_x" /\ pc' = (IF cursor_x >= VGA_WIDTH THEN "carriage_return" ELSE "idle")
    BY <1>7 DEF Goto
  <2>2. PICK x, M : x = Len(L[Len(L)]) /\ M = Longer(L, c)
    OBVIOUS
  <2>3. cursor_x = x + 1 /\ cursor_x' = x + 1
    BY <1>3, <1>7, <2>1, <2>2 DEF Advancing
  <2>4. L \in LineSeqs /\ x < VGA_WIDTH
    BY <2>2 DEF OpenLines
  <2>5. x \in Nat
    <3>1. Len(L) \in 1 .. Len(L)
      BY <2>4, LineIs
    <3> QED BY <2>2, <2>4, <3>1, LineIs
  <2>6. M \in LineSeqs /\ LastRow(M) = LastRow(L) /\ Len(M[Len(M)]) = x + 1
    BY <1>4, <2>2, <2>4, LongerIs, LastLineIs
  <2>7. CASE cursor_x >= VGA_WIDTH
    <3>1. x + 1 = VGA_WIDTH
      BY <2>3, <2>4, <2>5, <2>7, Sizes
    <3>2. LinesOf(text) = Broken(M)
      BY <1>4, <2>2, <3>1, AddCharIs
    <3>3. pc' = "carriage_return"
      BY <2>1, <2>7
    <3>4. Breaking(M)'
      BY <1>1, <1>4, <2>2, <2>6, <3>2, <3>3 DEF Breaking
    <3> QED BY <1>2, <2>6, <3>4 DEF Phase
  <2>8. CASE ~(cursor_x >= VGA_WIDTH)
    <3>1. x + 1 # VGA_WIDTH
      BY <2>3, <2>5, <2>8, Sizes
    <3>2. LinesOf(text) = M
      BY <1>4, <2>2, <3>1, AddCharIs
    <3>3. pc' = "idle"
      BY <2>1, <2>8
    <3>4. Shows(vga_buffer', cursor_x', cursor_y', M)
      BY <1>1, <1>4, <2>2, <2>3, <2>6 DEF Shows
    <3>5. Idling'
      BY <1>1, <3>2, <3>3, <3>4 DEF Idling
    <3> QED BY <1>2, <3>5 DEF Phase
  <2> QED BY <2>7, <2>8
<1> QED BY <1>5, <1>6, <1>7 DEF advance_x

(* The cursor is moved to the next line.                                   *)
LEMMA LineDownText ==
  ASSUME IInv, TextInv, line_down
  PROVE  TextInv'
<1> SUFFICES ASSUME tracked' PROVE text' \in Seq(Alphabet) /\ Phase'
  BY DEF TextInv
<1>1. /\ tracked /\ text' = text /\ UNCHANGED vga_buffer /\ k' = VGA_WIDTH
      /\ pc \in {"carriage_return", "inc_y", "store_y", "test_y", "clamp_y"}
  BY DEF line_down, history, Goto
<1>2. text' \in Seq(Alphabet) /\ Phase
  BY <1>1 DEF TextInv
<1>3. ASSUME Goto("clamp_y", "copy") PROVE Phase'
  <2>1. pc = "clamp_y" /\ pc' = "copy"
    BY <1>3 DEF Goto
  <2>L. PICK L \in LineSeqs : \E p : Scrolling(L, p)
    BY <1>2, <2>1, PhaseOf
  <2>2. PICK p : Scrolling(L, p)
    BY <2>L
  <2>3. Copied(vga_buffer', p, k')
    BY <1>1, <2>1, <2>2 DEF Scrolling
  <2>4. Scrolling(L, p)'
    BY <1>1, <2>1, <2>2, <2>3 DEF Scrolling
  <2> QED BY <2>4 DEF Phase
<1>4. ASSUME pc # "clamp_y" PROVE \E L \in LineSeqs : Breaking(L)
  BY <1>1, <1>2, <1>4, PhaseOf
<1>5. CASE Goto("carriage_return", "inc_y") /\ cursor_x' = 0 /\ UNCHANGED <<cursor_y, reg>>
  <2>1. pc = "carriage_return" /\ pc' = "inc_y"
    BY <1>5 DEF Goto
  <2>2. PICK L \in LineSeqs : Breaking(L)
    BY <1>4, <2>1
  <2>3. Breaking(L)'
    BY <1>1, <1>5, <2>1, <2>2 DEF Breaking
  <2> QED BY <1>2, <2>3 DEF Phase
<1>6. CASE Goto("inc_y", "store_y") /\ reg' = cursor_y /\ UNCHANGED <<cursor_x, cursor_y>>
  <2>1. pc = "inc_y" /\ pc' = "store_y"
    BY <1>6 DEF Goto
  <2>2. PICK L \in LineSeqs : Breaking(L)
    BY <1>4, <2>1
  <2>3. Breaking(L)'
    BY <1>1, <1>6, <2>1, <2>2 DEF Breaking
  <2> QED BY <1>2, <2>3 DEF Phase
<1>7. CASE Goto("store_y", "test_y") /\ cursor_y' = reg + 1 /\ UNCHANGED <<cursor_x, reg>>
  <2>1. pc = "store_y" /\ pc' = "test_y"
    BY <1>7 DEF Goto
  <2>2. PICK L \in LineSeqs : Breaking(L)
    BY <1>4, <2>1
  <2>3. Breaking(L)'
    BY <1>1, <1>7, <2>1, <2>2 DEF Breaking
  <2> QED BY <1>2, <2>3 DEF Phase
<1>8. CASE /\ Goto("test_y", IF cursor_y >= VGA_HEIGHT THEN "clamp_y" ELSE "idle")
           /\ UNCHANGED <<cursor_x, cursor_y, reg>>
  <2>1. pc = "test_y" /\ pc' = (IF cursor_y >= VGA_HEIGHT THEN "clamp_y" ELSE "idle")
    BY <1>8 DEF Goto
  <2>2. PICK L \in LineSeqs : Breaking(L)
    BY <1>4, <2>1
  <2>3. PICK y : y = LastRow(L)
    OBVIOUS
  <2>4. /\ LinesOf(text) = Broken(L) /\ Picture(vga_buffer, L)
        /\ cursor_x = 0 /\ cursor_y = y + 1
    BY <2>1, <2>2, <2>3 DEF Breaking
  <2>5. y \in 0 .. VGA_HEIGHT - 1 /\ VGA_HEIGHT \in Nat
    BY <2>3, LastRowIs, Sizes
  <2>6. CASE cursor_y >= VGA_HEIGHT
    <3>1. LastRow(L) = VGA_HEIGHT - 1
      BY <2>3, <2>4, <2>5, <2>6
    <3>2. PICK p : p = vga_buffer
      OBVIOUS
    <3>3. Copied(vga_buffer', p, VGA_WIDTH)
      <4>1. \A i \in Cells : ~(i + VGA_WIDTH < VGA_WIDTH)
        BY CellsAre, Geometry
      <4> QED BY <1>1, <3>2, <4>1 DEF Copied
    <3>4. pc' = "clamp_y"
      BY <2>1, <2>6
    <3>5. Scrolling(L, p)'
      BY <1>1, <2>4, <3>1, <3>2, <3>3, <3>4 DEF Scrolling
    <3> QED BY <1>2, <3>5 DEF Phase
  <2>7. CASE ~(cursor_y >= VGA_HEIGHT)
    <3>1. y < VGA_HEIGHT - 1
      BY <2>4, <2>5, <2>7
    <3>2. Picture(vga_buffer, Broken(L)) /\ LastRow(Broken(L)) = y + 1
      BY <2>3, <2>4, <3>1, BreakShows
    <3>3. Len(Broken(L)[Len(Broken(L))]) = 0
      BY LastLineIs
    <3>4. cursor_x' = 0 /\ cursor_y' = y + 1 /\ pc' = "idle"
      BY <1>8, <2>1, <2>4, <2>7
    <3>5. Shows(vga_buffer', cursor_x', cursor_y', Broken(L))
      BY <1>1, <3>2, <3>3, <3>4 DEF Shows
    <3>6. Idling'
      BY <1>1, <2>4, <3>4, <3>5 DEF Idling
    <3> QED BY <1>2, <3>6 DEF Phase
  <2> QED BY <2>6, <2>7
<1> QED BY <1>2, <1>3, <1>5, <1>6, <1>7, <1>8 DEF line_down

(* One cell more is copied.                                                *)
LEMMA CopyStep ==
  ASSUME NEW v, v = [i \in Window |-> v[i]], NEW p, NEW n \in Cells, n >= VGA_WIDTH,
         Copied(v, p, n), NEW w, w = [v EXCEPT ![n - VGA_WIDTH] = p[n]]
  PROVE  Copied(w, p, n + 1)
<1> SUFFICES ASSUME NEW i \in Cells
             PROVE  w[i] = IF i + VGA_WIDTH < n + 1 THEN p[i + VGA_WIDTH] ELSE p[i]
  BY DEF Copied
<1>1. PICK d : d = n - VGA_WIDTH
  OBVIOUS
<1>2. d \in Nat /\ i \in Nat /\ n \in Nat /\ VGA_WIDTH \in Nat /\ d + VGA_WIDTH = n /\ i \in Window
  <2>1. i \in Nat /\ n \in Nat
    BY CellsAre, Geometry
  <2> QED BY <1>1, <2>1, CellsInWindow, Sizes
<1>3. w[i] = IF i = d THEN p[n] ELSE v[i]
  BY <1>1, <1>2
<1>4. v[i] = IF i + VGA_WIDTH < n THEN p[i + VGA_WIDTH] ELSE p[i]
  BY DEF Copied
<1>5. CASE i = d
  <2>1. i + VGA_WIDTH = n /\ n < n + 1
    BY <1>2, <1>5
  <2> QED BY <1>3, <1>5, <2>1
<1>6. CASE i # d
  <2>1. i + VGA_WIDTH < n + 1 <=> i + VGA_WIDTH < n
    BY <1>2, <1>6
  <2> QED BY <1>3, <1>4, <1>6, <2>1
<1> QED BY <1>5, <1>6

(* The last line: where it begins, and that nothing is copied to it.       *)
LEMMA LastLineCells ==
  ASSUME NEW i \in Cells
  PROVE  /\ i \in Nat /\ i < Area /\ LastLine \in Nat /\ LastLine < Area
         /\ i + VGA_WIDTH \in Cells <=> i + VGA_WIDTH < Area
         /\ i + VGA_WIDTH \in Cells <=> i < LastLine
BY CellsAre, Geometry DEF LastLine

(* All cells are copied.                                                   *)
LEMMA CopyEnds ==
  ASSUME NEW v, NEW p, Copied(v, p, Area)
  PROVE  Cleared(v, p, LastLine)
<1> SUFFICES ASSUME NEW i \in Cells
             PROVE  v[i] = IF i + VGA_WIDTH \in Cells THEN p[i + VGA_WIDTH]
                           ELSE IF i < LastLine THEN Blank ELSE p[i]
  BY DEF Cleared
<1>1. v[i] = IF i + VGA_WIDTH < Area THEN p[i + VGA_WIDTH] ELSE p[i]
  BY DEF Copied
<1>2. /\ i + VGA_WIDTH \in Cells <=> i + VGA_WIDTH < Area
      /\ i + VGA_WIDTH \in Cells <=> i < LastLine
  BY LastLineCells
<1> QED BY <1>1, <1>2

(* One cell more is cleared.                                               *)
LEMMA ClearStep ==
  ASSUME NEW v, v = [i \in Window |-> v[i]], NEW p, NEW n \in Cells, n >= LastLine,
         Cleared(v, p, n), NEW w, w = [v EXCEPT ![n] = Blank]
  PROVE  Cleared(w, p, n + 1)
<1> SUFFICES ASSUME NEW i \in Cells
             PROVE  w[i] = IF i + VGA_WIDTH \in Cells THEN p[i + VGA_WIDTH]
                           ELSE IF i < n + 1 THEN Blank ELSE p[i]
  BY DEF Cleared
<1>1. i \in Nat /\ n \in Nat /\ LastLine \in Nat /\ i \in Window
  BY LastLineCells, CellsInWindow
<1>2. w[i] = IF i = n THEN Blank ELSE v[i]
  BY <1>1
<1>3. v[i] = IF i + VGA_WIDTH \in Cells THEN p[i + VGA_WIDTH]
             ELSE IF i < n THEN Blank ELSE p[i]
  BY DEF Cleared
<1>4. CASE i = n
  <2>1. n + VGA_WIDTH \notin Cells /\ n < n + 1
    <3>1. n + VGA_WIDTH \in Cells <=> n < LastLine
      BY LastLineCells
    <3> QED BY <1>1, <3>1
  <2> QED BY <1>2, <1>4, <2>1
<1>5. CASE i # n
  <2>1. i < n + 1 <=> i < n
    BY <1>1, <1>5
  <2> QED BY <1>2, <1>3, <1>5, <2>1
<1> QED BY <1>4, <1>5

(* All of the last line is cleared.                                        *)
LEMMA ClearEnds ==
  ASSUME NEW v, NEW p, Cleared(v, p, Area)
  PROVE  Scrolled(v, p)
<1> SUFFICES ASSUME NEW i \in Cells
             PROVE  v[i] = IF i + VGA_WIDTH \in Cells THEN p[i + VGA_WIDTH] ELSE Blank
  BY DEF Scrolled
<1>1. v[i] = IF i + VGA_WIDTH \in Cells THEN p[i + VGA_WIDTH]
             ELSE IF i < Area THEN Blank ELSE p[i]
  BY DEF Cleared
<1>2. i < Area
  BY LastLineCells
<1> QED BY <1>1, <1>2

(* The lines are copied one line up.                                       *)
LEMMA CopyText ==
  ASSUME IInv, TextInv, scroll_copies
  PROVE  TextInv'
<1> SUFFICES ASSUME tracked' PROVE text' \in Seq(Alphabet) /\ Phase'
  BY DEF TextInv
<1>1. tracked /\ text' = text /\ pc \in {"copy", "store"}
  BY DEF scroll_copies, history, Goto
<1>2. text' \in Seq(Alphabet) /\ \E L \in LineSeqs : \E p : Scrolling(L, p)
  BY <1>1, PhaseOf DEF TextInv
<1>L. PICK L \in LineSeqs : \E p : Scrolling(L, p)
  BY <1>2
<1>3. PICK p : Scrolling(L, p)
  BY <1>L
<1>4. /\ LinesOf(text) = Broken(L) /\ Picture(p, L) /\ LastRow(L) = VGA_HEIGHT - 1
      /\ Copied(vga_buffer, p, k)
  BY <1>1, <1>3 DEF Scrolling
<1>5. k \in 0 .. Area /\ k >= VGA_WIDTH
  BY <1>1 DEF IInv, ScrollInv
<1>6. CASE pc = "copy" /\ k \notin Cells /\ pc' = "clear" /\ k' = LastLine /\ UNCHANGED vga_buffer
  <2>1. k = Area
    BY <1>5, <1>6, CellsAre, Geometry
  <2>2. Cleared(vga_buffer, p, LastLine) /\ LastLine >= LastLine
    <3>1. LastLine \in Int
      BY Geometry DEF LastLine
    <3> QED BY <1>4, <2>1, <3>1, CopyEnds
  <2>3. Scrolling(L, p)'
    BY <1>1, <1>4, <1>6, <2>2 DEF Scrolling
  <2> QED BY <1>2, <2>3 DEF Phase
<1>7. CASE /\ pc = "copy" /\ k \in Cells /\ pc' = "store" /\ cell' = vga_buffer[k]
           /\ UNCHANGED <<k, vga_buffer>>
  <2>1. vga_buffer[k] = p[k]
    <3>1. ~(k + VGA_WIDTH < k)
      BY <1>5, Sizes, Geometry
    <3> QED BY <1>4, <1>7, <3>1 DEF Copied
  <2>2. Scrolling(L, p)'
    BY <1>1, <1>4, <1>7, <2>1 DEF Scrolling
  <2> QED BY <1>2, <2>2 DEF Phase
<1>8. CASE /\ pc = "store" /\ pc' = "copy" /\ k' = k + 1
           /\ vga_buffer' = [vga_buffer EXCEPT ![k - VGA_WIDTH] = cell]
  <2>1. cell = p[k]
    BY <1>3, <1>8 DEF Scrolling
  <2>2. PICK v, w, n : v = vga_buffer /\ w = vga_buffer' /\ n = k
    OBVIOUS
  <2>3. n \in Cells /\ n >= VGA_WIDTH
    BY <1>5, <1>8, <2>2, CellsAre, Geometry DEF IInv, ScrollInv
  <2>4. v = [i \in Window |-> v[i]] /\ w = [v EXCEPT ![n - VGA_WIDTH] = p[n]]
    BY <1>8, <2>1, <2>2 DEF IInv, BufferInv
  <2>5. Copied(w, p, n + 1)
    BY <1>4, <2>2, <2>3, <2>4, CopyStep
  <2>6. Scrolling(L, p)'
    BY <1>1, <1>4, <1>8, <2>2, <2>5 DEF Scrolling
  <2> QED BY <1>2, <2>6 DEF Phase
<1> QED BY <1>6, <1>7, <1>8 DEF scroll_copies, Goto

(* The last line is cleared.                                               *)
LEMMA ClearText ==
  ASSUME IInv, TextInv, scroll_clears
  PROVE  TextInv'
<1> SUFFICES ASSUME tracked' PROVE text' \in Seq(Alphabet) /\ Phase'
  BY DEF TextInv
<1>1. tracked /\ text' = text /\ pc = "clear"
  BY DEF scroll_clears, history, Goto
<1>2. text' \in Seq(Alphabet) /\ \E L \in LineSeqs : \E p : Scrolling(L, p)
  BY <1>1, PhaseOf DEF TextInv
<1>L. PICK L \in LineSeqs : \E p : Scrolling(L, p)
  BY <1>2
<1>3. PICK p : Scrolling(L, p)
  BY <1>L
<1>4. /\ LinesOf(text) = Broken(L) /\ Picture(p, L) /\ LastRow(L) = VGA_HEIGHT - 1
      /\ Cleared(vga_buffer, p, k) /\ k >= LastLine
  BY <1>1, <1>3 DEF Scrolling
<1>5. CASE /\ k \in Cells /\ pc' = "clear" /\ k' = k + 1
           /\ vga_buffer' = [vga_buffer EXCEPT ![k] = Blank]
  <2>1. PICK v, w, n : v = vga_buffer /\ w = vga_buffer' /\ n = k
    OBVIOUS
  <2>2. v = [i \in Window |-> v[i]] /\ w = [v EXCEPT ![n] = Blank]
    BY <1>5, <2>1 DEF IInv, BufferInv
  <2>3. Cleared(w, p, n + 1)
    BY <1>4, <1>5, <2>1, <2>2, ClearStep
  <2>4. n + 1 >= LastLine
    <3>1. n \in Nat /\ LastLine \in Nat
      BY <1>5, <2>1, LastLineCells
    <3> QED BY <1>4, <2>1, <3>1
  <2>5. Scrolling(L, p)'
    BY <1>1, <1>4, <1>5, <2>1, <2>3, <2>4 DEF Scrolling
  <2> QED BY <1>2, <2>5 DEF Phase
<1>6. CASE k \notin Cells /\ pc' = "home_y" /\ UNCHANGED vga_buffer
  <2>1. k = Area
    <3>1. k \in 0 .. Area
      BY DEF IInv, ScrollInv
    <3> QED BY <1>6, <3>1, CellsAre, Geometry
  <2>2. Scrolled(vga_buffer, p)
    BY <1>4, <2>1, ClearEnds
  <2>3. Scrolling(L, p)'
    BY <1>1, <1>4, <1>6, <2>2 DEF Scrolling
  <2> QED BY <1>2, <2>3 DEF Phase
<1> QED BY <1>5, <1>6 DEF scroll_clears, Goto

(* The cursor is set to the start of the last line.                        *)
LEMMA HomeText ==
  ASSUME IInv, TextInv, scroll_homes
  PROVE  TextInv'
<1> SUFFICES ASSUME tracked' PROVE text' \in Seq(Alphabet) /\ Phase'
  BY DEF TextInv
<1>1. tracked /\ text' = text /\ pc \in {"home_y", "home_x"} /\ UNCHANGED vga_buffer
  BY DEF scroll_homes, history, Goto
<1>2. text' \in Seq(Alphabet) /\ \E L \in LineSeqs : \E p : Scrolling(L, p)
  BY <1>1, PhaseOf DEF TextInv
<1>L. PICK L \in LineSeqs : \E p : Scrolling(L, p)
  BY <1>2
<1>3. PICK p : Scrolling(L, p)
  BY <1>L
<1>4. /\ LinesOf(text) = Broken(L) /\ Picture(p, L) /\ LastRow(L) = VGA_HEIGHT - 1
      /\ Scrolled(vga_buffer, p)
  BY <1>1, <1>3 DEF Scrolling
<1>5. CASE Goto("home_y", "home_x") /\ cursor_y' = VGA_HEIGHT - 1 /\ UNCHANGED cursor_x
  <2>1. pc' = "home_x"
    BY <1>5 DEF Goto
  <2>2. Scrolling(L, p)'
    BY <1>1, <1>4, <1>5, <2>1 DEF Scrolling
  <2> QED BY <1>2, <2>2 DEF Phase
<1>6. CASE Goto("home_x", "idle") /\ cursor_x' = 0 /\ UNCHANGED cursor_y
  <2>1. pc = "home_x" /\ pc' = "idle"
    BY <1>6 DEF Goto
  <2>2. cursor_y' = VGA_HEIGHT - 1
    BY <1>3, <1>6, <2>1 DEF Scrolling
  <2>3. Picture(vga_buffer, Broken(L)) /\ LastRow(Broken(L)) = VGA_HEIGHT - 1
    BY <1>4, ScrollShows
  <2>4. Len(Broken(L)[Len(Broken(L))]) = 0
    BY LastLineIs
  <2>5. Shows(vga_buffer', cursor_x', cursor_y', Broken(L))
    BY <1>1, <1>6, <2>2, <2>3, <2>4 DEF Shows
  <2>6. Idling'
    BY <1>1, <1>4, <2>1, <2>5 DEF Idling
  <2> QED BY <1>2, <2>6 DEF Phase
<1> QED BY <1>5, <1>6 DEF scroll_homes

(* Every step keeps the text on the screen.                                *)
LEMMA StepText == IInv /\ TextInv /\ [Next]_vars => TextInv'
<1> SUFFICES ASSUME IInv, TextInv, [Next]_vars PROVE TextInv'
  OBVIOUS
<1>1. CASE UNCHANGED vars
  <2>1. UNCHANGED <<vga_buffer, cursor_x, cursor_y, pc, c, reg, cell, k, text, tracked>>
    BY <1>1 DEF vars, screen, history
  <2>2. Phase => Phase'
    BY <2>1 DEF Phase, Idling, Storing, Advancing, Breaking, Scrolling
  <2> QED BY <2>1, <2>2 DEF TextInv
<1> QED
  BY <1>1, CallText, InterruptText, StoreText, AdvanceText, LineDownText, CopyText, ClearText,
     HomeText DEF Next, PrintChar

(* As long as no handler interrupts a print_char, and however often the    *)
(* lines wrap and the screen scrolls, the screen shows the last lines of   *)
(* what kernel_main and the handlers printed, in that order.               *)
THEOREM ScreenShowsText == Spec => []ShowsText
<1>1. TextInv => ShowsText
  <2> SUFFICES ASSUME TextInv, pc = "idle", tracked
               PROVE  LET first == IF Len(Lines) > VGA_HEIGHT THEN Len(Lines) - VGA_HEIGHT ELSE 0
                          Shown(row, col) ==
                            IF first + row < Len(Lines) /\ col < Len(Lines[first + row + 1])
                            THEN Lines[first + row + 1][col + 1] ELSE Blank
                      IN /\ \A row \in 0 .. VGA_HEIGHT - 1, col \in 0 .. VGA_WIDTH - 1 :
                              vga_buffer[row * VGA_WIDTH + col] = Shown(row, col)
                         /\ cursor_y = Len(Lines) - first - 1 /\ cursor_x = Len(Last(Lines))
    BY DEF ShowsText
  <2>1. Shows(vga_buffer, cursor_x, cursor_y, Lines)
    BY PhaseOf DEF TextInv, Idling, Lines, LinesOf
  <2> QED BY <2>1, Zenon DEF Shows, Picture, CharAt, Gone, LastRow, Last
<1>2. Spec => []TextInv
  BY InitText, StepText, ScreenInductive, PTL DEF Spec
<1> QED BY <1>1, <1>2, PTL

-----------------------------------------------------------------------------
(* How long a print_char of kernel_main takes.                             *)

Scrolls == 3 * Area

(* A bound on the steps that are left of a print_char that is at step p,   *)
(* with its scroll at cell i.                                              *)
StepsAt(p, i) ==
  CASE p = "idle"            -> 0
    [] p = "home_x"          -> 1
    [] p = "home_y"          -> 2
    [] p = "clear"           -> 3 + (Area - i)
    [] p = "store"           -> 3 + Area + 2 * (Area - i)
    [] p = "copy"            -> 4 + Area + 2 * (Area - i)
    [] p = "clamp_y"         -> 5 + Scrolls
    [] p = "test_y"          -> 6 + Scrolls
    [] p = "store_y"         -> 7 + Scrolls
    [] p = "inc_y"           -> 8 + Scrolls
    [] p = "carriage_return" -> 9 + Scrolls
    [] p = "test_x"          -> 10 + Scrolls
    [] p = "store_x"         -> 11 + Scrolls
    [] p = "inc_x"           -> 12 + Scrolls
    [] p = "put"             -> 13 + Scrolls
    [] p = "load_x"          -> 14 + Scrolls
    [] OTHER                  -> 15 + Scrolls

StepsLeft == StepsAt(pc, k)

(* A print_char in progress has between 1 and 15 + 3 * Area steps left.    *)
BoundedSteps ==
  StepsLeft \in 0 .. 15 + Scrolls /\ (StepsLeft = 0 <=> pc = "idle")

(* Its own steps use them up, and no handler gives any back.               *)
StepsFall ==
  /\ PrintChar => StepsLeft' < StepsLeft
  /\ (\E str \in HandlerStrings : Interrupt(str)) => StepsLeft' = StepsLeft

(* The bound at each step.                                                 *)
LEMMA StepsAre ==
  ASSUME NEW i
  PROVE  /\ StepsAt("idle", i) = 0
         /\ StepsAt("home_x", i) = 1
         /\ StepsAt("home_y", i) = 2
         /\ StepsAt("clear", i) = 3 + (Area - i)
         /\ StepsAt("store", i) = 3 + Area + 2 * (Area - i)
         /\ StepsAt("copy", i) = 4 + Area + 2 * (Area - i)
         /\ StepsAt("clamp_y", i) = 5 + Scrolls
         /\ StepsAt("test_y", i) = 6 + Scrolls
         /\ StepsAt("store_y", i) = 7 + Scrolls
         /\ StepsAt("inc_y", i) = 8 + Scrolls
         /\ StepsAt("carriage_return", i) = 9 + Scrolls
         /\ StepsAt("test_x", i) = 10 + Scrolls
         /\ StepsAt("store_x", i) = 11 + Scrolls
         /\ StepsAt("inc_x", i) = 12 + Scrolls
         /\ StepsAt("put", i) = 13 + Scrolls
         /\ StepsAt("load_x", i) = 14 + Scrolls
         /\ StepsAt("load_y", i) = 15 + Scrolls
BY DEF StepsAt

(* However many handlers interrupt it, a print_char of kernel_main takes   *)
(* at most 15 + 3 * Area steps of its own: the loops of scroll_screen run  *)
(* over a variable that no handler writes.                                 *)
THEOREM PrintCharIsBounded == Spec => []BoundedSteps /\ [][StepsFall]_vars
<1>a. Area \in Nat /\ Scrolls = 3 * Area /\ VGA_WIDTH \in Nat
  BY Geometry DEF Scrolls
<1>1. IInv => BoundedSteps
  <2> SUFFICES ASSUME IInv PROVE BoundedSteps
    OBVIOUS
  <2>1. k \in 0 .. Area
    BY DEF IInv, ScrollInv
  <2>2. pc \in {"idle", "load_y", "load_x", "put", "inc_x", "store_x", "test_x",
                "carriage_return", "inc_y", "store_y", "test_y", "clamp_y",
                "copy", "store", "clear", "home_y", "home_x"}
    BY DEF IInv, CursorInv
  <2> QED BY <1>a, <2>1, <2>2, StepsAre DEF BoundedSteps, StepsLeft
<1>2. IInv /\ IInv' /\ [Next]_vars => [StepsFall]_vars
  <2> SUFFICES ASSUME IInv, IInv' PROVE StepsFall
    OBVIOUS
  <2>1. k \in 0 .. Area /\ k' \in 0 .. Area
    BY DEF IInv, ScrollInv
  <2>2. ASSUME PrintChar PROVE StepsLeft' < StepsLeft
    <3>1. CASE store_char
      BY <1>a, <3>1, StepsAre DEF store_char, Goto, StepsLeft
    <3>2. CASE advance_x
      BY <1>a, <3>2, StepsAre DEF advance_x, Goto, StepsLeft
    <3>3. CASE line_down
      BY <1>a, <2>1, <3>3, StepsAre DEF line_down, Goto, StepsLeft
    <3>4. CASE scroll_copies
      <4>1. CASE pc = "copy" /\ k \notin Cells
        <5>1. pc' = "clear" /\ k = Area
          BY <2>1, <3>4, <4>1, <1>a, CellsAre DEF scroll_copies, Goto
        <5>2. StepsAt("clear", k') < StepsAt("copy", k)
          BY <1>a, <2>1, <5>1, StepsAre
        <5> QED BY <4>1, <5>1, <5>2 DEF StepsLeft
      <4>2. CASE pc = "copy" /\ k \in Cells
        <5>1. pc' = "store" /\ k' = k
          BY <3>4, <4>2 DEF scroll_copies, Goto
        <5>2. StepsAt("store", k) < StepsAt("copy", k)
          BY <1>a, <2>1, StepsAre
        <5> QED BY <4>2, <5>1, <5>2 DEF StepsLeft
      <4>3. CASE pc # "copy"
        <5>1. pc = "store" /\ pc' = "copy" /\ k' = k + 1
          BY <3>4, <4>3 DEF scroll_copies, Goto
        <5>2. StepsAt("copy", k') < StepsAt("store", k)
          BY <1>a, <2>1, <5>1, StepsAre
        <5> QED BY <5>1, <5>2 DEF StepsLeft
      <4> QED BY <4>1, <4>2, <4>3
    <3>5. CASE scroll_clears
      <4>1. CASE k \in Cells
        <5>1. pc = "clear" /\ pc' = "clear" /\ k' = k + 1
          BY <3>5, <4>1 DEF scroll_clears, Goto
        <5>2. StepsAt("clear", k') < StepsAt("clear", k)
          BY <1>a, <2>1, <5>1, StepsAre
        <5> QED BY <5>1, <5>2 DEF StepsLeft
      <4>2. CASE k \notin Cells
        <5>1. pc = "clear" /\ pc' = "home_y" /\ k = Area
          BY <2>1, <3>5, <4>2, <1>a, CellsAre DEF scroll_clears, Goto
        <5>2. StepsAt("home_y", k') < StepsAt("clear", k)
          BY <1>a, <5>1, StepsAre
        <5> QED BY <5>1, <5>2 DEF StepsLeft
      <4> QED BY <4>1, <4>2
    <3>6. CASE scroll_homes
      BY <1>a, <3>6, StepsAre DEF scroll_homes, Goto, StepsLeft
    <3> QED BY <2>2, <3>1, <3>2, <3>3, <3>4, <3>5, <3>6 DEF PrintChar
  <2>3. ASSUME NEW str \in HandlerStrings, Interrupt(str) PROVE StepsLeft' = StepsLeft
    BY <2>3 DEF Interrupt, StepsLeft
  <2> QED BY <2>2, <2>3 DEF StepsFall
<1> QED BY <1>1, <1>2, ScreenInductive, PTL DEF Spec
=============================================================================
