---------------------------- MODULE TerminalProofs ----------------------------
(***************************************************************************)
(* Proofs about module Terminal, for a screen of any size, any keys and    *)
(* messages and any number of them.  TInv says where the characters of the *)
(* command line lie, however many rows it has wrapped over and however     *)
(* many of those have scrolled off: they end at the cursor, and behind it  *)
(* there is what splash_screen's label left there.                         *)
(***************************************************************************)
EXTENDS Terminal, LeastNumbers, SequenceTheorems, TLAPS

(* A row's cells.                                                          *)
LowMemory(low) == DOMAIN low = 0..VGA_WIDTH - 1

(* A terminal: its fields and their ranges.                                *)
Typed(t) ==
  /\ DOMAIN t = {"row", "column", "cmd_offset", "line_wrap", "screen", "low"}
  /\ t.row \in 0..VGA_HEIGHT - 1 /\ t.column \in Nat
  /\ t.cmd_offset \in {0, CMD_LABEL} /\ t.line_wrap \in 0..255
  /\ DOMAIN t.screen \subseteq Nat /\ LowMemory(t.low)

Start(t)    == t.row * VGA_WIDTH
Position(t) == Start(t) + t.column

(* Nothing on the screen lies at or behind position p.                     *)
BlankFrom(t, p) == \A i \in DOMAIN t.screen : i < SCREEN => i < p

(* The cursor is on its row, or just behind it, and on a blank screen from *)
(* there on.                                                               *)
AtEnd(t) == t.column <= VGA_WIDTH /\ BlankFrom(t, Position(t))

(* The same, but for the characters of a at the cursor and behind it.      *)
Ahead(t, a) ==
  /\ t.column + Len(a) <= VGA_WIDTH
  /\ BlankFrom(t, Position(t) + Len(a))
  /\ \A j \in 1..Len(a) : Cell(t, Position(t) + j - 1) = a[j]

(* The label, of the characters L, and s end at the cursor, as far as they *)
(* are still shown.                                                        *)
Shown(s, j, L) == IF j <= CMD_LABEL THEN L ELSE {s[j - CMD_LABEL]}
EndsAt(t, s, p, L) ==
  LET n == CMD_LABEL + Len(s)
  IN  \A j \in 1..n : p - n + j - 1 >= 0 => Cell(t, p - n + j - 1) \in Shown(s, j, L)
LineEnds(t, s, L) == EndsAt(t, s, Position(t), L)

(* line_wrap counts the rows that they have wrapped over, in eight bits.   *)
Wraps(t, s) ==
  \E k \in Nat : t.column + k * VGA_WIDTH = CMD_LABEL + Len(s) /\ t.line_wrap = k % 256

Prompt(t, s, L) == t.cmd_offset = CMD_LABEL /\ LineEnds(t, s, L) /\ Wraps(t, s)

(* What the label's cells may show.                                        *)
Labels == {"cmd:"} \cup (IF LabelPending THEN {BLANK} ELSE {})

(* Above row y the screen is blank.                                        *)
ClearedTo(t, y) == \A i \in DOMAIN t.screen : i < SCREEN => i >= y * VGA_WIDTH

ScreenInv ==
  /\ Typed(terminal)
  /\ clean /\ ~Clearing =>
       /\ Ahead(terminal, ahead)
       /\ ahead # <<>> => prompted /\ terminal.line_wrap = 0
       /\ prompted => Prompt(terminal, typed, Labels)
  /\ clean /\ Clearing => ClearedTo(terminal, next) /\ ~prompted

(* Where the counter of main's loops stands, and where nothing is left     *)
(* behind the cursor.                                                      *)
RowsLeft       == next <= VGA_HEIGHT
CharactersLeft == next < Len(Splash)
LoopInv ==
  /\ main \in {"clear", "clear again"} => RowsLeft
  /\ main = "print" => CharactersLeft
  /\ main \in {"text_mode", "poll", "cmd_mode", "label", "bsy_loop"} => next = 0
  /\ main # "bsy_loop" => ahead = <<>>

TInv == TypeOK /\ ScreenInv /\ LoopInv

-----------------------------------------------------------------------------
(* Rows and cells.                                                         *)

(* The assumptions on the constants, one by one.                           *)
LEMMA Constants ==
  /\ VGA_WIDTH \in Nat /\ VGA_HEIGHT \in Nat /\ CMD_LABEL \in Nat
  /\ ERROR_LABEL \in Nat /\ TAB \in Nat
  /\ CMD_LABEL >= 1 /\ ERROR_LABEL >= 1 /\ TAB >= 1 /\ VGA_HEIGHT >= 1
  /\ CMD_LABEL + 3 < VGA_WIDTH /\ ERROR_LABEL < VGA_WIDTH /\ TAB < VGA_WIDTH
BY TerminalAssumption

(* A row is as wide as the next one is behind it, and the last one ends    *)
(* with the screen.                                                        *)
LEMMA RowStart ==
  ASSUME NEW r \in 0..VGA_HEIGHT - 1
  PROVE  /\ r * VGA_WIDTH \in Nat
         /\ (r + 1) * VGA_WIDTH = r * VGA_WIDTH + VGA_WIDTH
         /\ (r - 1) * VGA_WIDTH = r * VGA_WIDTH - VGA_WIDTH
         /\ r * VGA_WIDTH <= SCREEN - VGA_WIDTH
         /\ r = VGA_HEIGHT - 1 => r * VGA_WIDTH = SCREEN - VGA_WIDTH
         /\ SCREEN \in Nat
<1>1. r \in Nat /\ VGA_WIDTH \in Nat /\ VGA_HEIGHT \in Nat /\ r <= VGA_HEIGHT - 1
  BY Constants
<1>2. \A a, b \in Nat : a * b \in Nat
  OBVIOUS
<1>3. \A a, b, c \in Nat : a <= b => a * c <= b * c
  OBVIOUS
<1>4. \A a, b \in Nat : (a + 1) * b = a * b + b /\ (a - 1) * b = a * b - b
  OBVIOUS
<1>5. (r + 1) * VGA_WIDTH <= VGA_HEIGHT * VGA_WIDTH
  BY <1>1, <1>3
<1>6. VGA_WIDTH * VGA_HEIGHT = VGA_HEIGHT * VGA_WIDTH
  BY <1>1
<1> QED BY <1>1, <1>2, <1>4, <1>5, <1>6 DEF SCREEN

(* Where the cursor is, in cells.                                          *)
LEMMA Cursor ==
  ASSUME NEW t, Typed(t)
  PROVE  /\ t.row \in Nat /\ t.column \in Nat /\ t.cmd_offset \in Nat /\ VGA_WIDTH \in Nat
         /\ Start(t) \in Nat /\ Position(t) \in Nat /\ Position(t) = Start(t) + t.column
         /\ SCREEN \in Nat /\ Start(t) + VGA_WIDTH <= SCREEN
         /\ (t.row - 1) * VGA_WIDTH = Start(t) - VGA_WIDTH
<1>1. VGA_WIDTH \in Nat /\ VGA_HEIGHT \in Nat /\ CMD_LABEL \in Nat
  BY Constants
<1>2. t.row \in 0..VGA_HEIGHT - 1 /\ t.column \in Nat /\ t.cmd_offset \in {0, CMD_LABEL}
  BY DEF Typed
<1>3. /\ Start(t) \in Nat /\ (t.row - 1) * VGA_WIDTH = Start(t) - VGA_WIDTH
      /\ Start(t) <= SCREEN - VGA_WIDTH /\ SCREEN \in Nat
  BY <1>2, RowStart DEF Start
<1>4. t.row \in Nat /\ t.cmd_offset \in Nat
  BY <1>1, <1>2
<1>5. Position(t) = Start(t) + t.column
  BY DEF Position
<1> QED BY <1>1, <1>2, <1>3, <1>4, <1>5

(* What terminal_putcharat leaves in the cells.                            *)
LEMMA PutCharAtCells ==
  ASSUME NEW t, Typed(t), NEW c, NEW x \in Nat
  PROVE  LET u == PutCharAt(t, c, x)
             p == Start(t) + x
         IN  /\ Typed(u)
             /\ u.row = t.row /\ u.column = t.column
             /\ u.cmd_offset = t.cmd_offset /\ u.line_wrap = t.line_wrap
             /\ p \in DOMAIN u.screen => c # BLANK
             /\ DOMAIN u.screen \subseteq DOMAIN t.screen \cup {p}
             /\ Cell(u, p) = c
             /\ \A i \in Nat : i # p => Cell(u, i) = Cell(t, i)
<1> DEFINE u == PutCharAt(t, c, x)
           p == Start(t) + x
           others == DOMAIN t.screen \ {p}
           cell == [j \in IF c = BLANK THEN others ELSE others \cup {p} |->
                      IF j = p THEN c ELSE t.screen[j]]
<1>1. u = [t EXCEPT !.screen = cell]
  BY DEF PutCharAt, Show, Start
<1>2. p \in Nat
  BY RowStart DEF Typed, Start
<1>3. /\ u.row = t.row /\ u.column = t.column /\ u.cmd_offset = t.cmd_offset
      /\ u.line_wrap = t.line_wrap /\ u.screen = cell /\ u.low = t.low /\ DOMAIN u = DOMAIN t
  BY <1>1 DEF Typed
<1>4. DOMAIN cell = IF c = BLANK THEN others ELSE others \cup {p}
  OBVIOUS
<1>5. Typed(u)
  BY <1>2, <1>3, <1>4 DEF Typed
<1>6. Cell(u, p) = c
  BY <1>3, <1>4 DEF Cell
<1>7. \A i \in Nat : i # p => Cell(u, i) = Cell(t, i)
  BY <1>3, <1>4 DEF Cell
<1> QED BY <1>3, <1>4, <1>5, <1>6, <1>7

(* A scroll moves what the screen shows up by a row.                       *)
LEMMA ScrollCells ==
  ASSUME NEW t, Typed(t)
  PROVE  LET u == ScrollTerminal(t)
         IN  /\ Typed(u)
             /\ u.row = t.row /\ u.column = t.column
             /\ u.cmd_offset = t.cmd_offset /\ u.line_wrap = t.line_wrap
             /\ \A i \in DOMAIN u.screen :
                  i < SCREEN => i < SCREEN - VGA_WIDTH /\ i + VGA_WIDTH \in DOMAIN t.screen
             /\ \A i \in Nat : i < SCREEN - VGA_WIDTH => Cell(u, i) = Cell(t, i + VGA_WIDTH)
<1> DEFINE u == ScrollTerminal(t)
           Above(i) == IF i < SCREEN THEN i + VGA_WIDTH ELSE i
           shown == {i \in 0..SCREEN - VGA_WIDTH - 1 : i + VGA_WIDTH \in DOMAIN t.screen}
           behind == {j \in DOMAIN t.screen : j >= SCREEN}
           cell == [i \in shown \cup behind |-> t.screen[Above(i)]]
<1>1. u = [t EXCEPT !.screen = cell]
  BY DEF ScrollTerminal, Show
<1>2. SCREEN \in Nat /\ VGA_WIDTH \in Nat
  BY RowStart, Constants DEF Typed
<1>3. /\ u.row = t.row /\ u.column = t.column /\ u.cmd_offset = t.cmd_offset
      /\ u.line_wrap = t.line_wrap /\ u.screen = cell /\ u.low = t.low /\ DOMAIN u = DOMAIN t
  BY <1>1 DEF Typed
<1>4. DOMAIN cell = shown \cup behind
  OBVIOUS
<1>5. Typed(u)
  <2>1. DOMAIN cell \subseteq Nat
    BY <1>2, <1>4 DEF Typed
  <2> QED BY <1>3, <2>1 DEF Typed
<1>6. ASSUME NEW i \in DOMAIN u.screen, i < SCREEN
      PROVE  i < SCREEN - VGA_WIDTH /\ i + VGA_WIDTH \in DOMAIN t.screen
  <2>1. i \in shown \cup behind /\ i \notin behind
    BY <1>2, <1>3, <1>4, <1>6 DEF Typed
  <2>2. i \in shown
    BY <2>1
  <2>3. i \in 0..SCREEN - VGA_WIDTH - 1 /\ i + VGA_WIDTH \in DOMAIN t.screen
    BY <2>2
  <2> QED BY <1>2, <2>3
<1>7. ASSUME NEW i \in Nat, i < SCREEN - VGA_WIDTH
      PROVE  Cell(u, i) = Cell(t, i + VGA_WIDTH)
  <2>1. i < SCREEN /\ i \notin behind
    BY <1>2, <1>7
  <2>2. i \in DOMAIN cell <=> i + VGA_WIDTH \in DOMAIN t.screen
    BY <1>2, <1>4, <1>7, <2>1
  <2>3. i \in DOMAIN cell => cell[i] = t.screen[i + VGA_WIDTH]
    BY <2>1
  <2> QED BY <1>3, <2>2, <2>3 DEF Cell
<1> HIDE DEF u, cell, shown, behind, Above
<1> QED BY <1>3, <1>5, <1>6, <1>7 DEF u

(* A newline: the row behind the cursor is blank, and what is above it is  *)
(* what was above it, by Lift(t, u) cells further down.                    *)
Lift(t, u) == Start(t) + VGA_WIDTH - Start(u)
Lowered(t, u) ==
  /\ Typed(u)
  /\ u.column = t.column /\ u.cmd_offset = t.cmd_offset /\ u.line_wrap = t.line_wrap
  /\ Start(u) \in Nat /\ Lift(t, u) \in Nat
  /\ BlankFrom(t, Start(t) + VGA_WIDTH) => BlankFrom(u, Start(u))
  /\ \A i \in Nat : i < Start(u) => Cell(u, i) = Cell(t, i + Lift(t, u))

(* down: the cursor a row lower, or the screen a row higher.               *)
LEMMA DownCells == ASSUME NEW t, Typed(t) PROVE Lowered(t, Down(t))
<1>1. CASE t.row = VGA_HEIGHT - 1
  <2> DEFINE u == ScrollTerminal(t)
  <2>1. u = Down(t)
    BY <1>1 DEF Down
  <2>2. Start(t) = SCREEN - VGA_WIDTH /\ Start(t) \in Nat /\ SCREEN \in Nat /\ VGA_WIDTH \in Nat
    BY <1>1, RowStart, Constants DEF Typed, Start
  <2>3. Start(u) = Start(t) /\ Lift(t, u) = VGA_WIDTH
    BY <2>2, ScrollCells DEF Start, Lift
  <2>4. ASSUME NEW i \in DOMAIN u.screen, i < SCREEN
        PROVE  i < Start(u)
    BY <2>2, <2>3, <2>4, ScrollCells
  <2>5. ASSUME NEW i \in Nat, i < Start(u)
        PROVE  Cell(u, i) = Cell(t, i + Lift(t, u))
    BY <2>2, <2>3, <2>5, ScrollCells
  <2>6. /\ Typed(u) /\ u.column = t.column /\ u.cmd_offset = t.cmd_offset
        /\ u.line_wrap = t.line_wrap
    BY ScrollCells
  <2> HIDE DEF u
  <2> QED BY <2>1, <2>2, <2>3, <2>4, <2>5, <2>6 DEF Lowered, BlankFrom
<1>2. CASE t.row # VGA_HEIGHT - 1
  <2> DEFINE u == [t EXCEPT !.row = @ + 1]
  <2>1. u = Down(t)
    BY <1>2 DEF Down
  <2>2. /\ DOMAIN u = DOMAIN t /\ u.row = t.row + 1 /\ u.column = t.column
        /\ u.cmd_offset = t.cmd_offset /\ u.line_wrap = t.line_wrap /\ u.screen = t.screen
        /\ u.low = t.low
    BY DEF Typed
  <2>3. Typed(u)
    BY <1>2, <2>2, Constants DEF Typed
  <2>4. Start(u) = Start(t) + VGA_WIDTH /\ Start(t) \in Nat /\ VGA_WIDTH \in Nat
    BY <2>2, RowStart, Constants DEF Typed, Start
  <2>5. Lift(t, u) = 0
    BY <2>4 DEF Lift
  <2>6. \A i \in Nat : Cell(u, i) = Cell(t, i)
    BY <2>2 DEF Cell
  <2>7. \A i \in Nat : i + 0 = i
    OBVIOUS
  <2>8. BlankFrom(t, Start(t) + VGA_WIDTH) => BlankFrom(u, Start(u))
    BY <2>2, <2>4 DEF BlankFrom
  <2>9. Start(u) \in Nat
    BY <2>4
  <2> HIDE DEF u
  <2> QED BY <2>1, <2>2, <2>3, <2>5, <2>6, <2>7, <2>8, <2>9 DEF Lowered
<1> QED BY <1>1, <1>2

(* The cursor's row is blank.                                              *)
Fresh(t) == Typed(t) /\ BlankFrom(t, Start(t))

(* Behind the end of the text the rest of the row is blank.                *)
LEMMA AtEndBlank ==
  ASSUME NEW t, Typed(t), AtEnd(t)
  PROVE  BlankFrom(t, Start(t) + VGA_WIDTH)
<1>1. Start(t) \in Nat /\ t.column \in Nat /\ VGA_WIDTH \in Nat /\ SCREEN \in Nat
  BY RowStart, Constants DEF Typed, Start
<1> QED BY <1>1 DEF AtEnd, BlankFrom, Position, Typed

(* A row on which nothing lies is blank from the cursor on.                *)
LEMMA FreshAtEnd ==
  ASSUME NEW t, Fresh(t)
  PROVE  BlankFrom(t, Position(t)) /\ BlankFrom(t, Start(t) + VGA_WIDTH)
<1>1. Start(t) \in Nat /\ t.column \in Nat /\ VGA_WIDTH \in Nat /\ SCREEN \in Nat
  BY RowStart, Constants DEF Typed, Start, Fresh
<1> QED BY <1>1 DEF Fresh, BlankFrom, Position, Typed

(* What lies on the screen does not depend on the column or the modes.     *)
LEMMA SameScreen ==
  ASSUME NEW t, Typed(t), NEW u, u.row = t.row, u.screen = t.screen
  PROVE  /\ Start(u) = Start(t)
         /\ \A i \in Nat : Cell(u, i) = Cell(t, i)
         /\ \A p \in Nat : BlankFrom(t, p) => BlankFrom(u, p)
         /\ Typed(u) /\ Fresh(t) => Fresh(u)
<1>1. Start(u) = Start(t)
  BY DEF Start
<1>2. \A i \in Nat : Cell(u, i) = Cell(t, i)
  BY DEF Cell
<1>3. \A p \in Nat : BlankFrom(t, p) => BlankFrom(u, p)
  BY DEF BlankFrom
<1>4. Start(t) \in Nat
  BY RowStart DEF Typed, Start
<1> QED BY <1>1, <1>2, <1>3, <1>4 DEF Fresh

(* A string written from the beginning of a blank row on stands there, and *)
(* the rest of the row is blank.                                           *)
Written(t, s, u) ==
  /\ Typed(u)
  /\ u.row = t.row /\ u.column = Len(s)
  /\ u.cmd_offset = t.cmd_offset /\ u.line_wrap = t.line_wrap
  /\ Fresh(t) => BlankFrom(u, Start(t) + Len(s))
  /\ \A j \in 1..Len(s) : Cell(u, Start(t) + j - 1) = s[j]
  /\ \A i \in Nat : i >= Start(t) + Len(s) => Cell(u, i) = Cell(t, i)
  /\ \A q \in Nat : q >= Start(t) + Len(s) /\ BlankFrom(t, q) => BlankFrom(u, q)

(* A text is written cell by cell from the cursor on, and nothing else is. *)
LEMMA WriteCells ==
  ASSUME NEW t, Typed(t), NEW S, NEW s \in Seq(S)
  PROVE  Written(t, s, Write(t, s))
<1> DEFINE at == Start(t)
           here == at..at + Len(s) - 1
           shown == {i \in here : s[i - at + 1] # BLANK}
           cell == [i \in (DOMAIN t.screen \ here) \cup shown |->
                      IF i \in here THEN s[i - at + 1] ELSE t.screen[i]]
           u == Write(t, s)
<1>1. u = [[t EXCEPT !.screen = cell] EXCEPT !.column = Len(s)]
  BY DEF Write, Show, Start
<1>2. at \in Nat /\ Len(s) \in Nat /\ SCREEN \in Nat
  BY RowStart, LenProperties DEF Typed, Start
<1>3. /\ u.row = t.row /\ u.column = Len(s) /\ u.cmd_offset = t.cmd_offset
      /\ u.line_wrap = t.line_wrap /\ u.screen = cell /\ u.low = t.low /\ DOMAIN u = DOMAIN t
  BY <1>1 DEF Typed
<1>4. DOMAIN cell = (DOMAIN t.screen \ here) \cup shown
  OBVIOUS
<1>5. here \subseteq Nat
  BY <1>2
<1>6. Typed(u)
  <2>1. DOMAIN cell \subseteq Nat
    BY <1>4, <1>5 DEF Typed
  <2> QED BY <1>2, <1>3, <2>1 DEF Typed
<1>7. ASSUME Fresh(t), NEW i \in DOMAIN u.screen, i < SCREEN
      PROVE  i < at + Len(s)
  <2>1. CASE i \in here
    BY <1>2, <2>1
  <2>2. CASE i \notin here
    <3>1. i \in DOMAIN t.screen
      BY <1>3, <1>4, <2>2
    <3>2. i < at /\ i \in Nat
      BY <1>7, <3>1 DEF Fresh, BlankFrom, Typed
    <3> QED BY <1>2, <3>2
  <2> QED BY <2>1, <2>2
<1>8. ASSUME NEW j \in 1..Len(s)
      PROVE  Cell(u, at + j - 1) = s[j]
  <2> DEFINE i == at + j - 1
  <2>1. i \in here /\ i - at + 1 = j
    BY <1>2
  <2>2. i \in DOMAIN cell <=> s[j] # BLANK
    BY <1>4, <2>1
  <2>3. i \in DOMAIN cell => cell[i] = s[j]
    BY <2>1
  <2> QED BY <1>3, <2>2, <2>3 DEF Cell
<1>9. ASSUME NEW i \in Nat, i >= at + Len(s)
      PROVE  Cell(u, i) = Cell(t, i)
  <2>1. i \notin here
    BY <1>2, <1>9
  <2> QED BY <1>3, <1>4, <2>1 DEF Cell
<1>10. ASSUME NEW q \in Nat, q >= at + Len(s), BlankFrom(t, q), NEW i \in DOMAIN u.screen,
              i < SCREEN
       PROVE  i < q
  <2>1. CASE i \in here
    BY <1>2, <1>10, <2>1
  <2>2. CASE i \notin here
    BY <1>3, <1>4, <1>10, <2>2 DEF BlankFrom
  <2> QED BY <2>1, <2>2
<1> HIDE DEF at, here, shown, cell, u
<1> QED BY <1>3, <1>6, <1>7, <1>8, <1>9, <1>10 DEF Written, BlankFrom, at, u

(* The cells of a label.                                                   *)
LEMMA LabelSeq ==
  ASSUME NEW c, NEW len \in Nat
  PROVE  LET s == [i \in 1..len |-> c]
         IN  s \in Seq({c}) /\ Len(s) = len /\ \A i \in 1..len : s[i] = c
OBVIOUS

(* The prompt of an empty line.                                            *)
Labelled(t) == t.column = CMD_LABEL /\ LineEnds(t, <<>>, {"cmd:"})

(* cmd_label: the prompt on the cursor's row, and the cursor behind it.    *)
LEMMA CmdLabelCells ==
  ASSUME NEW t, Typed(t)
  PROVE  LET u == CmdLabel(t)
         IN  /\ Typed(u) /\ Labelled(u)
             /\ u.cmd_offset = t.cmd_offset /\ u.line_wrap = t.line_wrap
             /\ Fresh(t) => AtEnd(u)
             /\ Start(u) = Start(t)
             /\ \A i \in Nat : i >= Start(t) + CMD_LABEL => Cell(u, i) = Cell(t, i)
             /\ \A q \in Nat : q >= Start(t) + CMD_LABEL /\ BlankFrom(t, q) => BlankFrom(u, q)
<1> DEFINE s == [i \in 1..CMD_LABEL |-> "cmd:"]
           u == CmdLabel(t)
<1>1. s \in Seq({"cmd:"}) /\ Len(s) = CMD_LABEL /\ \A i \in 1..CMD_LABEL : s[i] = "cmd:"
  BY LabelSeq, Constants
<1>2. u = Write(t, s)
  BY DEF CmdLabel, EmitLabel
<1> HIDE DEF s
<1>3. Written(t, s, u)
  BY <1>1, <1>2, WriteCells
<1>4. Start(t) \in Nat /\ CMD_LABEL \in Nat /\ VGA_WIDTH \in Nat /\ CMD_LABEL <= VGA_WIDTH
  BY RowStart, Constants DEF Typed, Start
<1>5. Start(u) = Start(t) /\ u.column = CMD_LABEL
  BY <1>1, <1>3 DEF Written, Start
<1>6. Position(u) = Start(t) + CMD_LABEL
  BY <1>5 DEF Position
<1>7. LineEnds(u, <<>>, {"cmd:"})
  <2> SUFFICES ASSUME NEW j \in 1..CMD_LABEL
               PROVE  Cell(u, Position(u) - CMD_LABEL + j - 1) \in Shown(<<>>, j, {"cmd:"})
    BY <1>4 DEF LineEnds, EndsAt
  <2>1. Position(u) - CMD_LABEL + j - 1 = Start(t) + j - 1
    BY <1>4, <1>6
  <2>2. Cell(u, Start(t) + j - 1) = "cmd:"
    BY <1>1, <1>3 DEF Written
  <2>3. Shown(<<>>, j, {"cmd:"}) = {"cmd:"}
    BY <1>4 DEF Shown
  <2> QED BY <2>1, <2>2, <2>3
<1>8. Fresh(t) => AtEnd(u)
  BY <1>1, <1>3, <1>4, <1>5, <1>6 DEF Written, AtEnd
<1>9. /\ \A i \in Nat : i >= Start(t) + CMD_LABEL => Cell(u, i) = Cell(t, i)
      /\ \A q \in Nat : q >= Start(t) + CMD_LABEL /\ BlankFrom(t, q) => BlankFrom(u, q)
  BY <1>1, <1>3 DEF Written
<1> QED BY <1>3, <1>5, <1>7, <1>8, <1>9 DEF Written, Labelled

(* clear_terminal: nothing is left, and the cursor is where the mode has   *)
(* it.                                                                     *)
LEMMA ClearCells ==
  ASSUME NEW t, Typed(t)
  PROVE  LET u == ClearTerminal(t)
         IN  /\ Fresh(u) /\ u.row = 0 /\ u.column = t.cmd_offset
             /\ u.cmd_offset = t.cmd_offset /\ u.line_wrap = t.line_wrap
<1> DEFINE behind == {i \in DOMAIN t.screen : i >= SCREEN}
           cell == [i \in behind |-> t.screen[i]]
           u == ClearTerminal(t)
<1>1. u = [[t EXCEPT !.screen = cell] EXCEPT !.row = 0, !.column = t.cmd_offset]
  BY DEF ClearTerminal, Home, Show
<1>2. /\ u.row = 0 /\ u.column = t.cmd_offset /\ u.cmd_offset = t.cmd_offset
      /\ u.line_wrap = t.line_wrap /\ u.screen = cell /\ u.low = t.low /\ DOMAIN u = DOMAIN t
  BY <1>1 DEF Typed
<1>3. Typed(u)
  BY <1>2, Constants DEF Typed
<1>4. SCREEN \in Nat
  BY RowStart DEF Typed
<1>5. BlankFrom(u, Start(u))
  BY <1>2, <1>4 DEF BlankFrom, Typed
<1> QED BY <1>2, <1>3, <1>5 DEF Fresh

(* A switch of modes moves nothing.                                        *)
LEMMA Modes ==
  ASSUME NEW t, Typed(t), NEW u, u \in {TextMode(t), CmdMode(t)}
  PROVE  /\ Typed(u) /\ u.row = t.row /\ u.column = t.column
         /\ u.line_wrap = t.line_wrap /\ u.screen = t.screen
         /\ Fresh(t) => Fresh(u)
         /\ AtEnd(t) => AtEnd(u)
         /\ u.cmd_offset = IF u = TextMode(t) THEN 0 ELSE CMD_LABEL
<1>1. /\ Typed(u) /\ u.row = t.row /\ u.column = t.column
      /\ u.line_wrap = t.line_wrap /\ u.screen = t.screen
      /\ u.cmd_offset = IF u = TextMode(t) THEN 0 ELSE CMD_LABEL
  <2>1. PICK x \in {0, CMD_LABEL} : u = [t EXCEPT !.cmd_offset = x]
    BY DEF TextMode, CmdMode
  <2>2. u.cmd_offset = x /\ TextMode(t).cmd_offset = 0 /\ CmdMode(t).cmd_offset = CMD_LABEL
    BY <2>1 DEF TextMode, CmdMode, Typed
  <2>3. /\ DOMAIN u = DOMAIN t /\ u.row = t.row /\ u.column = t.column
        /\ u.line_wrap = t.line_wrap /\ u.screen = t.screen /\ u.low = t.low
    BY <2>1 DEF Typed
  <2>4. Typed(u)
    BY <2>2, <2>3 DEF Typed
  <2> QED BY <2>2, <2>3, <2>4
<1>2. Start(u) = Start(t) /\ Position(u) = Position(t)
  BY <1>1 DEF Position, Start
<1> QED BY <1>1, <1>2 DEF Fresh, AtEnd, BlankFrom

(* text_mode.                                                              *)
LEMMA TextModeFields ==
  ASSUME NEW t, Typed(t)
  PROVE  LET u == TextMode(t)
         IN  /\ Typed(u) /\ u.cmd_offset = 0 /\ u.column = t.column
             /\ Fresh(t) => Fresh(u)
BY Modes

(* cmd_mode.                                                               *)
LEMMA CmdModeFields ==
  ASSUME NEW t, Typed(t)
  PROVE  LET u == CmdMode(t)
         IN  /\ Typed(u) /\ u.cmd_offset = CMD_LABEL /\ u.column = t.column
             /\ u.line_wrap = t.line_wrap
             /\ u.row = t.row /\ u.screen = t.screen
             /\ Fresh(t) => Fresh(u)
             /\ AtEnd(t) => AtEnd(u)
<1>1. CmdMode(t).cmd_offset = CMD_LABEL
  BY DEF CmdMode, Typed
<1> QED BY <1>1, Modes

(* terminal_putchar: the character is at the cursor's place, which is one  *)
(* further, or at the beginning of the next row.                           *)
Next1(t, c) == [PutCharAt(t, c, t.column) EXCEPT !.column = @ + 1]
Wrapped(t, c) ==
  [Next1(t, c) EXCEPT !.column = 0, !.line_wrap = (@ + 1) % 256]

(* A character within a row.                                               *)
LEMMA Next1Cells ==
  ASSUME NEW t, Typed(t), NEW c
  PROVE  LET u == Next1(t, c)
         IN  /\ Typed(u) /\ u.row = t.row /\ Start(u) = Start(t)
             /\ u.column = t.column + 1 /\ Position(u) = Position(t) + 1
             /\ u.cmd_offset = t.cmd_offset /\ u.line_wrap = t.line_wrap
             /\ \A q \in Nat : q > Position(t) /\ BlankFrom(t, q) => BlankFrom(u, q)
             /\ Cell(u, Position(t)) = c
             /\ \A i \in Nat : i # Position(t) => Cell(u, i) = Cell(t, i)
<1> DEFINE v == PutCharAt(t, c, t.column)
           u == Next1(t, c)
<1>1. t.column \in Nat /\ Start(t) \in Nat /\ Position(t) \in Nat /\ SCREEN \in Nat
  BY RowStart DEF Typed, Start, Position
<1>2. /\ Typed(v) /\ v.row = t.row /\ v.column = t.column
      /\ v.cmd_offset = t.cmd_offset /\ v.line_wrap = t.line_wrap
      /\ DOMAIN v.screen \subseteq DOMAIN t.screen \cup {Position(t)}
      /\ Cell(v, Position(t)) = c
      /\ \A i \in Nat : i # Position(t) => Cell(v, i) = Cell(t, i)
  BY <1>1, PutCharAtCells DEF Position
<1>3. u = [v EXCEPT !.column = v.column + 1]
  BY DEF Next1
<1> HIDE DEF v, u
<1>4. /\ DOMAIN u = DOMAIN v /\ u.row = t.row /\ u.column = t.column + 1
      /\ u.cmd_offset = t.cmd_offset /\ u.line_wrap = t.line_wrap /\ u.screen = v.screen
      /\ u.low = v.low
  BY <1>2, <1>3 DEF Typed
<1>5. Typed(u)
  BY <1>1, <1>2, <1>4 DEF Typed
<1>6. Start(u) = Start(t) /\ Position(u) = Position(t) + 1
  BY <1>1, <1>4 DEF Start, Position
<1>7. \A i \in Nat : Cell(u, i) = Cell(v, i)
  BY <1>4 DEF Cell
<1>8. ASSUME NEW q \in Nat, q > Position(t), BlankFrom(t, q), NEW i \in DOMAIN u.screen,
             i < SCREEN
      PROVE  i < q
  <2>1. i \in DOMAIN t.screen \/ i = Position(t)
    BY <1>2, <1>4, <1>8
  <2>2. i \in DOMAIN t.screen => i < q
    BY <1>8 DEF BlankFrom
  <2> QED BY <1>1, <1>8, <2>1, <2>2
<1>9. \A q \in Nat : q > Position(t) /\ BlankFrom(t, q) => BlankFrom(u, q)
  BY <1>8 DEF BlankFrom
<1> QED BY <1>1, <1>2, <1>4, <1>5, <1>6, <1>7, <1>9 DEF u

(* A character in the last column, before the cursor goes down.            *)
LEMMA WrappedCells ==
  ASSUME NEW t, Typed(t), NEW c
  PROVE  LET u == Wrapped(t, c)
         IN  /\ Typed(u) /\ u.row = t.row /\ Start(u) = Start(t) /\ u.column = 0
             /\ u.cmd_offset = t.cmd_offset /\ u.line_wrap = (t.line_wrap + 1) % 256
             /\ \A q \in Nat : q > Position(t) /\ BlankFrom(t, q) => BlankFrom(u, q)
             /\ Cell(u, Position(t)) = c
             /\ \A i \in Nat : i # Position(t) => Cell(u, i) = Cell(t, i)
<1> DEFINE v == Next1(t, c)
           u == Wrapped(t, c)
<1>1. u = [v EXCEPT !.column = 0, !.line_wrap = (v.line_wrap + 1) % 256]
  BY DEF Wrapped
<1>2. /\ Typed(v) /\ v.row = t.row /\ v.cmd_offset = t.cmd_offset
      /\ v.line_wrap = t.line_wrap
      /\ \A q \in Nat : q > Position(t) /\ BlankFrom(t, q) => BlankFrom(v, q)
      /\ Cell(v, Position(t)) = c
      /\ \A i \in Nat : i # Position(t) => Cell(v, i) = Cell(t, i)
  BY Next1Cells
<1> HIDE DEF v, u
<1>3. /\ DOMAIN u = DOMAIN v /\ u.row = t.row /\ u.column = 0
      /\ u.cmd_offset = t.cmd_offset /\ u.line_wrap = (t.line_wrap + 1) % 256
      /\ u.screen = v.screen /\ u.low = v.low
  BY <1>1, <1>2 DEF Typed
<1>4. (t.line_wrap + 1) % 256 \in 0..255
  <2>1. t.line_wrap \in Nat
    BY DEF Typed
  <2>2. \A k \in Nat : (k + 1) % 256 \in 0..255
    OBVIOUS
  <2> QED BY <2>1, <2>2
<1>5. Typed(u)
  BY <1>2, <1>3, <1>4 DEF Typed
<1>6. Start(u) = Start(t)
  BY <1>3 DEF Start
<1>7. \A i : Cell(u, i) = Cell(v, i)
  BY <1>3 DEF Cell
<1>8. \A p : BlankFrom(v, p) => BlankFrom(u, p)
  BY <1>3 DEF BlankFrom
<1> QED BY <1>2, <1>3, <1>5, <1>6, <1>7, <1>8 DEF u

(* terminal_putchar wraps in the last column only.                         *)
LEMMA PutCharCases ==
  ASSUME NEW t, Typed(t), NEW c
  PROVE  PutChar(t, c) = IF t.column + 1 = VGA_WIDTH THEN Down(Wrapped(t, c)) ELSE Next1(t, c)
<1>1. Next1(t, c).column = t.column + 1
  BY Next1Cells
<1> QED BY <1>1 DEF PutChar, Next1, Wrapped

(* A screen that is blank from somewhere on is blank from further on.      *)
LEMMA BlankFurther ==
  ASSUME NEW t, Typed(t), NEW p \in Nat, NEW q \in Nat, q >= p, BlankFrom(t, p)
  PROVE  BlankFrom(t, q)
<1>1. SCREEN \in Nat
  BY RowStart DEF Typed
<1> QED BY <1>1 DEF BlankFrom, Typed

(* With nothing behind the cursor, it is at the end.                       *)
LEMMA AheadNothing ==
  ASSUME NEW t, Typed(t)
  PROVE  Ahead(t, <<>>) <=> AtEnd(t)
<1>1. t.column \in Nat /\ Start(t) \in Nat /\ Position(t) \in Nat /\ VGA_WIDTH \in Nat
  BY RowStart, Constants DEF Typed, Start, Position
<1>2. t.column + 0 = t.column /\ Position(t) + 0 = Position(t) /\ Len(<<>>) = 0
  BY <1>1
<1> QED BY <1>2 DEF Ahead, AtEnd

(* The characters behind the cursor, without the first.                    *)
Rest(a) == IF a = <<>> THEN <<>> ELSE Tail(a)
LEMMA RestSeq ==
  ASSUME NEW S, NEW a \in Seq(S)
  PROVE  /\ Rest(a) \in Seq(S) /\ Len(a) \in Nat
         /\ Len(Rest(a)) = IF a = <<>> THEN 0 ELSE Len(a) - 1
         /\ a = <<>> <=> Len(a) = 0
         /\ \A j \in 1..Len(Rest(a)) : Rest(a)[j] = a[j + 1]
<1>1. Len(a) \in Nat /\ (a = <<>> <=> Len(a) = 0)
  BY LenProperties, EmptySeq
<1>2. CASE a = <<>>
  BY <1>1, <1>2 DEF Rest
<1>3. CASE a # <<>>
  <2>1. /\ Tail(a) \in Seq(S) /\ Len(Tail(a)) = Len(a) - 1
        /\ \A j \in 1..Len(Tail(a)) : Tail(a)[j] = a[j + 1]
    BY <1>3, HeadTailProperties
  <2> QED BY <1>1, <1>3, <2>1 DEF Rest
<1> QED BY <1>2, <1>3

(* terminal_putchar puts the character over the first of those behind the  *)
(* cursor, which stays on its row if there are more.                       *)
LEMMA PutCharAhead ==
  ASSUME NEW t, Typed(t), NEW c, NEW S, NEW a \in Seq(S)
  PROVE  LET u == PutChar(t, c)
         IN  /\ Typed(u) /\ u.cmd_offset = t.cmd_offset
             /\ Ahead(t, a) /\ t.column < VGA_WIDTH =>
                  Ahead(u, Rest(a)) /\ (Rest(a) # <<>> => u.line_wrap = t.line_wrap)
<1>1. t.column \in Nat /\ Start(t) \in Nat /\ Position(t) \in Nat /\ VGA_WIDTH \in Nat
  <2>1. VGA_WIDTH \in Nat
    BY Constants
  <2>2. t.column \in Nat /\ Start(t) \in Nat
    BY RowStart DEF Typed, Start
  <2> QED BY <2>1, <2>2 DEF Position
<1>2. /\ Rest(a) \in Seq(S) /\ Len(a) \in Nat /\ (a = <<>> <=> Len(a) = 0)
      /\ Len(Rest(a)) = IF a = <<>> THEN 0 ELSE Len(a) - 1
      /\ \A j \in 1..Len(Rest(a)) : Rest(a)[j] = a[j + 1]
  BY RestSeq
<1>3. CASE t.column + 1 = VGA_WIDTH
  <2> DEFINE v == Wrapped(t, c)
             u == Down(v)
  <2>1. PutChar(t, c) = u
    BY <1>3, PutCharCases
  <2>2. /\ Typed(v) /\ v.column = 0 /\ v.cmd_offset = t.cmd_offset /\ Start(v) = Start(t)
        /\ \A q \in Nat : q > Position(t) /\ BlankFrom(t, q) => BlankFrom(v, q)
    BY WrappedCells
  <2>3. Lowered(v, u)
    BY <2>2, DownCells
  <2>4. Position(t) + 1 = Start(v) + VGA_WIDTH
    BY <1>1, <1>3, <2>2 DEF Position
  <2> HIDE DEF v, u
  <2>5. u.column = 0 /\ Position(u) = Start(u) /\ Typed(u) /\ u.cmd_offset = t.cmd_offset
    BY <2>2, <2>3 DEF Lowered, Position
  <2>6. ASSUME Ahead(t, a)
        PROVE  AtEnd(u) /\ Rest(a) = <<>>
    <3>1. Len(a) <= 1 /\ BlankFrom(t, Position(t) + Len(a))
      BY <1>1, <1>2, <1>3, <2>6 DEF Ahead
    <3>2. BlankFrom(t, Position(t) + 1)
      <4>1. Position(t) + Len(a) \in Nat /\ Position(t) + 1 \in Nat
            /\ Position(t) + 1 >= Position(t) + Len(a)
        BY <1>1, <1>2, <3>1
      <4> QED BY <3>1, <4>1, BlankFurther
    <3>3. BlankFrom(v, Position(t) + 1)
      BY <1>1, <2>2, <3>2
    <3>4. BlankFrom(u, Start(u))
      BY <2>3, <2>4, <3>3 DEF Lowered
    <3>5. Len(Rest(a)) = 0
      <4>1. CASE a = <<>>
        BY <1>2, <4>1
      <4>2. CASE a # <<>>
        <5>1. Len(Rest(a)) = Len(a) - 1 /\ Len(a) # 0
          BY <1>2, <4>2
        <5> QED BY <1>2, <3>1, <5>1
      <4> QED BY <4>1, <4>2
    <3>6. Rest(a) = <<>>
      BY <1>2, <3>5, EmptySeq
    <3>7. AtEnd(u)
      BY <1>1, <2>5, <3>4 DEF AtEnd
    <3> QED BY <3>6, <3>7
  <2>7. Ahead(t, a) => Ahead(u, Rest(a)) /\ Rest(a) = <<>>
    BY <2>5, <2>6, AheadNothing
  <2> QED BY <2>1, <2>5, <2>7
<1>4. CASE t.column + 1 # VGA_WIDTH
  <2> DEFINE u == Next1(t, c)
  <2>1. PutChar(t, c) = u
    BY <1>4, PutCharCases
  <2>2. /\ Typed(u) /\ u.cmd_offset = t.cmd_offset /\ u.column = t.column + 1
        /\ u.line_wrap = t.line_wrap /\ Position(u) = Position(t) + 1
        /\ \A q \in Nat : q > Position(t) /\ BlankFrom(t, q) => BlankFrom(u, q)
        /\ \A i \in Nat : i # Position(t) => Cell(u, i) = Cell(t, i)
    BY Next1Cells
  <2> HIDE DEF u
  <2>3. ASSUME Ahead(t, a), t.column < VGA_WIDTH
        PROVE  Ahead(u, Rest(a))
    <3> DEFINE q == Position(u) + Len(Rest(a))
    <3>1. /\ t.column + Len(a) <= VGA_WIDTH /\ BlankFrom(t, Position(t) + Len(a))
          /\ \A j \in 1..Len(a) : Cell(t, Position(t) + j - 1) = a[j]
      BY <2>3 DEF Ahead
    <3>2. q \in Nat /\ q > Position(t) /\ q >= Position(t) + Len(a)
      BY <1>1, <1>2, <2>2
    <3>3. BlankFrom(t, q)
      <4>1. Position(t) + Len(a) \in Nat
        BY <1>1, <1>2
      <4> QED BY <3>1, <3>2, <4>1, BlankFurther
    <3>4. BlankFrom(u, q)
      BY <2>2, <3>2, <3>3
    <3>5. ASSUME NEW j \in 1..Len(Rest(a))
          PROVE  Cell(u, Position(u) + j - 1) = Rest(a)[j]
      <4>1. /\ Position(u) + j - 1 = Position(t) + (j + 1) - 1
            /\ Position(u) + j - 1 \in Nat /\ Position(u) + j - 1 # Position(t)
            /\ j + 1 \in 1..Len(a)
        BY <1>1, <1>2, <2>2
      <4> QED BY <1>2, <2>2, <3>1, <4>1
    <3>6. u.column + Len(Rest(a)) <= VGA_WIDTH
      BY <1>1, <1>2, <1>4, <2>2, <2>3, <3>1
    <3> QED BY <3>4, <3>5, <3>6 DEF Ahead
  <2> QED BY <2>1, <2>2, <2>3
<1> QED BY <1>3, <1>4

(* terminal_putchar leaves the cursor at the end of the text.              *)
LEMMA PutCharCells ==
  ASSUME NEW t, Typed(t), NEW c
  PROVE  LET u == PutChar(t, c)
         IN  /\ Typed(u) /\ u.cmd_offset = t.cmd_offset
             /\ AtEnd(t) /\ t.column < VGA_WIDTH => AtEnd(u)
<1>1. <<>> \in Seq({}) /\ Rest(<<>>) = <<>>
  BY DEF Rest
<1> QED BY <1>1, PutCharAhead, AheadNothing

-----------------------------------------------------------------------------
(* The commands.                                                           *)

(* A newline in text mode.                                                 *)
LEMMA TextNewlineCells ==
  ASSUME NEW t, Typed(t)
  PROVE  LET u == TextNewline(t)
         IN  /\ Typed(u) /\ u.column = 0
             /\ u.cmd_offset = t.cmd_offset /\ u.line_wrap = t.line_wrap
             /\ BlankFrom(t, Start(t) + VGA_WIDTH) => Fresh(u)
<1> DEFINE v == Down(t)
           u == TextNewline(t)
<1>1. Lowered(t, v)
  BY DownCells
<1>2. u = [v EXCEPT !.column = 0]
  BY DEF TextNewline
<1> HIDE DEF v, u
<1>3. /\ DOMAIN u = DOMAIN v /\ u.row = v.row /\ u.column = 0
      /\ u.cmd_offset = v.cmd_offset /\ u.line_wrap = v.line_wrap /\ u.screen = v.screen
      /\ u.low = v.low
  BY <1>1, <1>2 DEF Typed, Lowered
<1>4. Typed(u)
  BY <1>1, <1>3 DEF Typed, Lowered
<1>5. BlankFrom(v, Start(v)) => Fresh(u)
  BY <1>1, <1>3, <1>4, SameScreen DEF Fresh, Lowered
<1> QED BY <1>1, <1>3, <1>4, <1>5 DEF Lowered, u

(* A line of text printed from the first column on.                        *)
Printed(t, u) ==
  /\ Typed(u) /\ u.column = 0
  /\ u.cmd_offset = t.cmd_offset
  /\ Fresh(t) => Fresh(u)

(* A line printed from column 0 stays above the cursor.                    *)
LEMMA PrintLineCells ==
  ASSUME NEW t, Typed(t), t.column = 0
  PROVE  Printed(t, PrintLine(t))
<1> DEFINE v == PutChar(t, MESSAGE)
<1>1. t.column + 1 # VGA_WIDTH
  BY Constants
<1>2. v = Next1(t, MESSAGE)
  BY <1>1, PutCharCases
<1>3. /\ Typed(v) /\ v.cmd_offset = t.cmd_offset /\ Start(v) = Start(t)
      /\ \A q \in Nat : q > Position(t) /\ BlankFrom(t, q) => BlankFrom(v, q)
  BY <1>2, Next1Cells
<1>4. Start(t) \in Nat /\ Position(t) = Start(t) /\ VGA_WIDTH \in Nat /\ VGA_WIDTH > 1
  BY RowStart, Constants DEF Typed, Start, Position
<1> HIDE DEF v
<1>5. Fresh(t) => BlankFrom(v, Start(v) + VGA_WIDTH)
  <2>1. Start(t) + VGA_WIDTH \in Nat /\ Start(t) + VGA_WIDTH > Position(t)
    BY <1>4
  <2> QED BY <1>3, <2>1, FreshAtEnd
<1>6. PrintLine(t) = TextNewline(v)
  BY DEF PrintLine, v
<1> QED BY <1>3, <1>5, <1>6, TextNewlineCells DEF Printed

(* The lines of help do too.                                               *)
LEMMA HelpCells ==
  ASSUME NEW t, Typed(t), t.column = 0
  PROVE  Printed(t, Help(t))
<1>1. ASSUME NEW v, Typed(v), v.column = 0
      PROVE  Printed(v, PrintThree(v))
  <2>1. Printed(v, PrintLine(v))
    BY <1>1, PrintLineCells
  <2>2. Printed(v, PrintLine(PrintLine(v)))
    BY <2>1, PrintLineCells DEF Printed
  <2> QED BY <2>2, PrintLineCells DEF Printed, PrintThree
<1>2. Printed(t, PrintThree(t))
  BY <1>1
<1>3. Printed(t, PrintThree(PrintThree(t)))
  BY <1>1, <1>2 DEF Printed
<1> QED BY <1>3, PrintLineCells DEF Printed, Help

(* What a newline or End leaves: where the next characters go is blank,    *)
(* and if the cursor stands behind the place of a label, it is there.      *)
Outcome(u, blank) ==
  /\ Typed(u)
  /\ blank => AtEnd(u)
  /\ u.cmd_offset # 0 /\ u.column = CMD_LABEL => Labelled(u)

(* A command that prompts again leaves a line with nothing typed on it.    *)
LEMMA PromptOutcome ==
  ASSUME NEW t, Typed(t), NEW blank \in BOOLEAN, blank => Fresh(t)
  PROVE  Outcome(CmdLabel(CmdMode(t)), blank)
<1>1. Typed(CmdMode(t)) /\ (Fresh(t) => Fresh(CmdMode(t)))
  BY CmdModeFields
<1> QED BY <1>1, CmdLabelCells DEF Outcome

(* Without a prompt, nothing is claimed of the line.                       *)
LEMMA NoLabelOutcome ==
  ASSUME NEW t, Typed(t), t.cmd_offset = 0 \/ t.column = 0,
         NEW blank \in BOOLEAN, blank => AtEnd(t)
  PROVE  Outcome(t, blank)
BY Constants DEF Outcome

(* On a row on which nothing lies the cursor is at the end.                *)
LEMMA FreshColumn ==
  ASSUME NEW t, Fresh(t), t.column <= VGA_WIDTH
  PROVE  AtEnd(t)
BY FreshAtEnd DEF AtEnd

ClearingCmds == {"clear", "text", "pong"}

(* execute_cmd, command by command.                                        *)
LEMMA ExecuteOutcome ==
  ASSUME NEW t, Typed(t), t.column = 0, NEW name \in cmd_list,
         NEW S, NEW args \in Seq(S), Len(args) <= VGA_WIDTH,
         NEW clean0 \in BOOLEAN, clean0 => Fresh(t)
  PROVE  Outcome(ExecuteCmd(t, name, args), clean0 \/ name \in ClearingCmds)
<1> DEFINE u == ExecuteCmd(t, name, args)
           text == TextMode(t)
<1>0. /\ Typed(text) /\ text.cmd_offset = 0 /\ text.column = 0
      /\ Fresh(t) => Fresh(text)
  BY TextModeFields
<1>1. CASE name = "help"
  <2>1. Printed(text, Help(text))
    BY <1>0, HelpCells
  <2>2. u = CmdLabel(CmdMode(Help(text)))
    BY <1>1 DEF ExecuteCmd
  <2> QED BY <1>0, <1>1, <2>1, <2>2, PromptOutcome DEF Printed, ClearingCmds
<1>2. CASE name = "clear"
  <2>1. Fresh(ClearTerminal(t))
    BY ClearCells
  <2>2. u = CmdLabel(CmdMode(ClearTerminal(t)))
    BY <1>2 DEF ExecuteCmd
  <2> QED BY <2>1, <2>2, PromptOutcome DEF Fresh
<1>3. CASE name = "text"
  <2>1. /\ Fresh(ClearTerminal(text)) /\ ClearTerminal(text).cmd_offset = 0
        /\ ClearTerminal(text).column = 0
    BY <1>0, ClearCells
  <2>2. u = ClearTerminal(text)
    BY <1>3 DEF ExecuteCmd
  <2>3. AtEnd(ClearTerminal(text))
    BY <2>1, FreshColumn, Constants
  <2> QED BY <2>1, <2>2, <2>3, NoLabelOutcome DEF Fresh
<1>4. CASE name = "pong"
  <2> DEFINE v == ClearTerminal(text)
             w == PrintLine(v)
  <2>1. Fresh(v) /\ Typed(v) /\ v.cmd_offset = 0 /\ v.column = 0
    BY <1>0, ClearCells DEF Fresh
  <2>2. Printed(v, w)
    BY <2>1, PrintLineCells
  <2>3. u = PutChar(w, MESSAGE)
    BY <1>4 DEF ExecuteCmd
  <2> HIDE DEF v, w
  <2>4. Typed(w) /\ w.cmd_offset = 0 /\ w.column = 0 /\ AtEnd(w)
    BY <2>1, <2>2, FreshColumn, Constants DEF Printed
  <2>5. Typed(u) /\ u.cmd_offset = 0 /\ AtEnd(u)
    BY <2>3, <2>4, PutCharCells, Constants
  <2> QED BY <2>5, NoLabelOutcome
<1>5. CASE name = "echo"
  <2> DEFINE v == Write(text, args)
             w == TextNewline(v)
  <2>1. Written(text, args, v)
    BY <1>0, WriteCells
  <2>2. u = CmdLabel(CmdMode(w))
    BY <1>5 DEF ExecuteCmd
  <2>3. Start(text) \in Nat /\ Len(args) \in Nat /\ VGA_WIDTH \in Nat /\ SCREEN \in Nat
    BY <1>0, RowStart, LenProperties, Constants DEF Typed, Start
  <2> HIDE DEF v, w
  <2>4. Typed(v) /\ Start(v) = Start(text)
    BY <2>1 DEF Written, Start
  <2>5. Fresh(text) => BlankFrom(v, Start(v) + VGA_WIDTH)
    BY <2>1, <2>3, <2>4 DEF Written, BlankFrom, Typed
  <2>6. Typed(w) /\ (Fresh(text) => Fresh(w))
    BY <2>4, <2>5, TextNewlineCells DEF w
  <2> QED BY <1>0, <1>5, <2>2, <2>6, PromptOutcome DEF ClearingCmds
<1>6. CASE name = "exit"
  <2>1. u = t
    BY <1>6 DEF ExecuteCmd
  <2>2. clean0 => AtEnd(t)
    BY FreshColumn, Constants
  <2> QED BY <1>6, <2>1, <2>2, NoLabelOutcome DEF ClearingCmds
<1> QED BY <1>1, <1>2, <1>3, <1>4, <1>5, <1>6 DEF cmd_list

-----------------------------------------------------------------------------
(* The line that a newline reads.                                          *)

(* extract_char copies the row up to the first cell without a character.   *)
LEMMA ExtractedCells ==
  ASSUME NEW t, Typed(t)
  PROVE  /\ Min(Stops(t)) \in Stops(t) /\ Min(Stops(t)) \in 0..VGA_WIDTH - 1
         /\ \A i \in Stops(t) : Min(Stops(t)) <= i
         /\ Min(Ends(t)) \in Ends(t) /\ Min(Ends(t)) \in t.cmd_offset..VGA_WIDTH
         /\ \A i \in Ends(t) : Min(Ends(t)) <= i
<1>1. VGA_WIDTH \in Nat /\ VGA_WIDTH >= 1 /\ t.cmd_offset \in Nat /\ t.cmd_offset <= VGA_WIDTH
  BY Constants DEF Typed
<1>2. Stops(t) \subseteq Nat /\ VGA_WIDTH - 1 \in Stops(t) /\ Stops(t) \subseteq 0..VGA_WIDTH - 1
  BY <1>1 DEF Stops
<1>3. Ends(t) \subseteq Nat /\ VGA_WIDTH \in Ends(t) /\ Ends(t) \subseteq t.cmd_offset..VGA_WIDTH
  BY <1>1 DEF Ends
<1> QED BY <1>2, <1>3, LeastNumber

(* The arguments are a part of the row, or of an earlier one.              *)
LEMMA ArgsLength ==
  ASSUME NEW t, Typed(t)
  PROVE  LET S == {Extracted(t)[i] : i \in 0..VGA_WIDTH - 1}
             args == SubSeq(Line(t), 3, Len(Line(t)))
         IN  args \in Seq(S) /\ Len(args) <= VGA_WIDTH
<1> DEFINE S == {Extracted(t)[i] : i \in 0..VGA_WIDTH - 1}
           args == SubSeq(Line(t), 3, Len(Line(t)))
           n == Min(Ends(t)) - t.cmd_offset
<1>1. VGA_WIDTH \in Nat /\ t.cmd_offset \in Nat
  BY Constants DEF Typed
<1>2. Min(Ends(t)) \in t.cmd_offset..VGA_WIDTH
  BY ExtractedCells
<1>3. n \in 0..VGA_WIDTH
  BY <1>1, <1>2
<1>4. \A i \in 1..n : t.cmd_offset + i - 1 \in 0..VGA_WIDTH - 1
  BY <1>1, <1>2
<1>5. \A i \in 1..n : Extracted(t)[t.cmd_offset + i - 1] \in S
  BY <1>4
<1>6. Line(t) = [i \in 1..n |-> Extracted(t)[t.cmd_offset + i - 1]]
  BY DEF Line
<1> HIDE DEF S, n
<1>7. Line(t) \in Seq(S) /\ Len(Line(t)) = n
  BY <1>3, <1>5, <1>6
<1>8. \A i \in 3..Len(Line(t)) : Line(t)[i] \in S
  BY <1>1, <1>3, <1>7, ElementOfSeq
<1>9. args \in Seq(S) /\ Len(args) = IF 3 <= Len(Line(t)) THEN Len(Line(t)) - 3 + 1 ELSE 0
  BY <1>1, <1>3, <1>7, <1>8, SubSeqProperties
<1> QED BY <1>1, <1>3, <1>7, <1>9 DEF S

(* What cmd_parser tells apart.                                            *)
LEMMA CommandNames ==
  ASSUME NEW t, Typed(t)
  PROVE  /\ Command(t) \in {"", "nothing", "unknown"} \cup cmd_list
         /\ Command(t) = "" <=> t.cmd_offset = 0
BY DEF Command, CmdParser, cmd_list

(* The newline key: the command is run and the line begins anew.           *)
LEMMA NewlineOutcome ==
  ASSUME NEW t, Typed(t), NEW clean0 \in BOOLEAN,
         clean0 => BlankFrom(t, Start(t) + VGA_WIDTH)
  PROVE  Outcome(Newline(t), clean0 \/ Command(t) \in ClearingCmds)
<1> DEFINE name == Command(t)
           u == [ExtractChar(t) EXCEPT !.line_wrap = 0]
           v == Down(u)
<1>1. /\ DOMAIN u = DOMAIN t /\ u.row = t.row /\ u.column = t.column
      /\ u.cmd_offset = t.cmd_offset /\ u.line_wrap = 0 /\ u.screen = t.screen
      /\ u.low = Extracted(t)
  BY DEF ExtractChar, Typed
<1>2. Typed(u)
  <2>1. LowMemory(Extracted(t))
    BY DEF LowMemory, Extracted
  <2> QED BY <1>1, <2>1 DEF Typed
<1>3. Start(t) \in Nat /\ VGA_WIDTH \in Nat
  BY RowStart, Constants DEF Typed, Start
<1>4. clean0 => BlankFrom(t, Start(t) + VGA_WIDTH) /\ BlankFrom(u, Start(u) + VGA_WIDTH)
  <2>2. Start(u) = Start(t) /\ Start(t) + VGA_WIDTH \in Nat
    BY <1>1, <1>3 DEF Start
  <2>3. \A p \in Nat : BlankFrom(t, p) => BlankFrom(u, p)
    BY <1>1, SameScreen
  <2> QED BY <2>2, <2>3
<1>5. Lowered(u, v)
  BY <1>2, DownCells
<1> HIDE DEF u, v
<1>6. Typed(v) /\ (clean0 => Fresh(v))
  BY <1>4, <1>5 DEF Lowered, Fresh
<1>7. CASE name = ""
  <2>1. Newline(t) = TextNewline(t)
    BY <1>7 DEF Newline, cmd_list
  <2>2. /\ Typed(TextNewline(t)) /\ TextNewline(t).column = 0
        /\ clean0 => Fresh(TextNewline(t))
    BY <1>4, TextNewlineCells
  <2>3. clean0 => AtEnd(TextNewline(t))
    BY <2>2, FreshColumn, Constants
  <2> QED BY <1>7, <2>1, <2>2, <2>3, NoLabelOutcome DEF ClearingCmds
<1>8. CASE name = "nothing"
  <2>1. Newline(t) = CmdLabel(v)
    BY <1>8 DEF Newline, v, u, cmd_list
  <2> QED BY <1>6, <1>8, <2>1, CmdLabelCells DEF Outcome, ClearingCmds
<1>9. CASE name = "unknown"
  <2> DEFINE s == [i \in 1..ERROR_LABEL |-> "error"]
             w == Write(v, s)
  <2>1. Newline(t) = CmdLabel(Down(w))
    BY <1>9 DEF Newline, v, u, EmitLabel, cmd_list
  <2>2. s \in Seq({"error"}) /\ Len(s) = ERROR_LABEL
    BY LabelSeq, Constants
  <2> HIDE DEF s
  <2>3. Written(v, s, w)
    BY <1>6, <2>2, WriteCells
  <2> HIDE DEF w
  <2>4. Start(v) \in Nat /\ ERROR_LABEL \in Nat /\ ERROR_LABEL < VGA_WIDTH /\ SCREEN \in Nat
    BY <1>6, RowStart, Constants DEF Typed, Start
  <2>5. Typed(w) /\ Start(w) = Start(v)
    BY <2>3 DEF Written, Start
  <2>6. clean0 => BlankFrom(w, Start(w) + VGA_WIDTH)
    BY <1>3, <1>6, <2>2, <2>3, <2>4, <2>5 DEF Written, BlankFrom, Typed
  <2>7. Lowered(w, Down(w))
    BY <2>5, DownCells
  <2>8. Typed(Down(w)) /\ (clean0 => Fresh(Down(w)))
    BY <2>6, <2>7 DEF Lowered, Fresh
  <2> QED BY <1>9, <2>1, <2>8, CmdLabelCells DEF Outcome, ClearingCmds
<1>10. CASE name \in cmd_list
  <2> DEFINE w == [v EXCEPT !.column = 0]
             args == SubSeq(Line(t), 3, Len(Line(t)))
  <2>1. Newline(t) = ExecuteCmd(w, name, args)
    BY <1>10 DEF Newline, v, u, cmd_list
  <2>2. /\ DOMAIN w = DOMAIN v /\ w.row = v.row /\ w.column = 0
        /\ w.cmd_offset = v.cmd_offset /\ w.line_wrap = v.line_wrap /\ w.screen = v.screen
        /\ w.low = v.low
    BY <1>6 DEF Typed
  <2>3. Typed(w)
    BY <1>6, <2>2 DEF Typed
  <2>4. clean0 => Fresh(w)
    BY <1>6, <2>2, <2>3, SameScreen
  <2> HIDE DEF w, args
  <2>5. args \in Seq({Extracted(t)[i] : i \in 0..VGA_WIDTH - 1}) /\ Len(args) <= VGA_WIDTH
    BY ArgsLength DEF args
  <2>6. w.column = 0
    BY <2>2
  <2> HIDE DEF name
  <2> QED BY <1>10, <2>1, <2>3, <2>4, <2>5, <2>6, ExecuteOutcome DEF name
<1> QED BY <1>7, <1>8, <1>9, <1>10, CommandNames

(* The End key clears the screen and changes the mode.                     *)
LEMMA EndKeyOutcome ==
  ASSUME NEW t, Typed(t)
  PROVE  Outcome(EndKey(t), TRUE)
<1> DEFINE v == CmdMode(ClearTerminal(t))
           w == CmdLabel(v)
           u == CmdMode(w)
<1>1. EndKey(t) = u
  BY DEF EndKey, ExecuteCmd
<1>2. Fresh(ClearTerminal(t)) /\ Typed(ClearTerminal(t))
  BY ClearCells DEF Fresh
<1>3. Fresh(v) /\ Typed(v)
  BY <1>2, CmdModeFields
<1> HIDE DEF v
<1>4. Typed(w) /\ Labelled(w) /\ AtEnd(w)
  BY <1>3, CmdLabelCells
<1> HIDE DEF w
<1>5. /\ Typed(u) /\ u.cmd_offset = CMD_LABEL /\ u.column = w.column
      /\ u.row = w.row /\ u.screen = w.screen /\ AtEnd(u)
  BY <1>4, CmdModeFields
<1> HIDE DEF u
<1>6. Position(u) = Position(w) /\ \A i : Cell(u, i) = Cell(w, i)
  BY <1>5 DEF Position, Start, Cell
<1>7. Labelled(u)
  BY <1>4, <1>5, <1>6 DEF Labelled, LineEnds, EndsAt
<1> QED BY <1>1, <1>5, <1>7 DEF Outcome

-----------------------------------------------------------------------------
(* What is typed, and taken back.                                          *)

(* A tab keeps the terminal's type; where it leaves the cursor, clean says.*)
LEMMA PutTabCells ==
  ASSUME NEW t, Typed(t)
  PROVE  Typed(PutTab(t)) /\ PutTab(t).cmd_offset = t.cmd_offset
<1> DEFINE rem == VGA_WIDTH - t.column
           x == IF 0 <= rem /\ rem < TAB THEN TAB - rem ELSE t.column + TAB
<1>1. PutTab(t) = [t EXCEPT !.column = x]
  BY DEF PutTab
<1>2. x \in Nat
  BY Constants DEF Typed
<1> HIDE DEF x
<1> QED BY <1>1, <1>2 DEF Typed

Typing(t, s, L) == Typed(t) /\ Prompt(t, s, L)

(* A character put behind the line becomes its last.                       *)
LEMMA AppendEnds ==
  ASSUME NEW t, NEW S, NEW s \in Seq(S), NEW c \in S, NEW p \in Nat, NEW L,
         EndsAt(t, s, p, L),
         NEW u, Cell(u, p) = c, \A i \in Nat : i # p => Cell(u, i) = Cell(t, i)
  PROVE  EndsAt(u, Append(s, c), p + 1, L)
<1> DEFINE r == Append(s, c)
           n == CMD_LABEL + Len(s)
<1>1. CMD_LABEL \in Nat /\ Len(s) \in Nat
  BY Constants, LenProperties
<1>2. Len(r) = Len(s) + 1 /\ r[Len(s) + 1] = c /\ \A j \in 1..Len(s) : r[j] = s[j]
  BY <1>1, AppendProperties
<1> HIDE DEF r
<1> SUFFICES ASSUME NEW j \in 1..n + 1, p - n + j - 1 >= 0
             PROVE  Cell(u, p - n + j - 1) \in Shown(r, j, L)
  <2>1. CMD_LABEL + Len(r) = n + 1
    BY <1>1, <1>2
  <2>2. \A j \in 1..n + 1 : (p + 1) - (n + 1) + j - 1 = p - n + j - 1
    BY <1>1
  <2> QED BY <2>1, <2>2 DEF EndsAt, r
<1> DEFINE i == p - n + j - 1
<1>3. i \in Nat
  BY <1>1
<1>4. CASE j = n + 1
  <2>1. i = p /\ j - CMD_LABEL = Len(s) + 1 /\ ~ (j <= CMD_LABEL)
    BY <1>1, <1>4
  <2> QED BY <1>2, <2>1 DEF Shown
<1>5. CASE j # n + 1
  <2>1. j \in 1..n /\ i # p
    BY <1>1, <1>5
  <2>2. Cell(t, i) \in Shown(s, j, L)
    BY <2>1 DEF EndsAt
  <2>3. ~ (j <= CMD_LABEL) => j - CMD_LABEL \in 1..Len(s)
    BY <1>1, <2>1
  <2>4. Shown(r, j, L) = Shown(s, j, L)
    BY <1>2, <2>3 DEF Shown
  <2> QED BY <1>3, <2>1, <2>2, <2>4
<1> QED BY <1>4, <1>5

(* A character on the row of the cursor.                                   *)
LEMMA Next1Line ==
  ASSUME NEW t, NEW S, NEW s \in Seq(S), NEW c \in S, NEW L, Typing(t, s, L)
  PROVE  Prompt(Next1(t, c), Append(s, c), L)
<1> DEFINE u == Next1(t, c)
           r == Append(s, c)
<1>0. Typed(t) /\ Len(s) \in Nat /\ VGA_WIDTH \in Nat /\ CMD_LABEL \in Nat
  BY Constants, LenProperties DEF Typing
<1>1. Position(t) \in Nat /\ t.column \in Nat
  BY <1>0, RowStart, SMTT(30) DEF Typed, Start, Position
<1>2. /\ u.column = t.column + 1 /\ Position(u) = Position(t) + 1
      /\ u.cmd_offset = t.cmd_offset /\ u.line_wrap = t.line_wrap
      /\ Cell(u, Position(t)) = c
      /\ \A i \in Nat : i # Position(t) => Cell(u, i) = Cell(t, i)
  BY Next1Cells DEF Typing
<1>3. Len(r) = Len(s) + 1
  BY AppendProperties
<1> HIDE DEF u, r
<1>4. Wraps(u, r)
  <2>1. PICK k \in Nat : /\ t.column + k * VGA_WIDTH = CMD_LABEL + Len(s)
                         /\ t.line_wrap = k % 256
    BY DEF Typing, Prompt, Wraps
  <2>2. k * VGA_WIDTH \in Nat
    BY <1>0
  <2>3. t.column + 1 + k * VGA_WIDTH = CMD_LABEL + (Len(s) + 1)
    BY <1>0, <1>1, <2>1, <2>2
  <2> QED BY <1>2, <1>3, <2>1, <2>3 DEF Wraps
<1>5. EndsAt(t, s, Position(t), L)
  BY DEF Typing, Prompt, LineEnds
<1>6. LineEnds(u, r, L)
  BY <1>1, <1>2, <1>5, AppendEnds DEF LineEnds, r
<1> QED BY <1>2, <1>4, <1>6 DEF Prompt, Typing, u, r

(* And the one that fills the row: the cursor goes to the next.            *)
LEMMA WrappedLine ==
  ASSUME NEW t, NEW S, NEW s \in Seq(S), NEW c \in S, NEW L, Typing(t, s, L), t.column + 1 = VGA_WIDTH
  PROVE  Prompt(Down(Wrapped(t, c)), Append(s, c), L)
<1> DEFINE w == Wrapped(t, c)
           u == Down(w)
           r == Append(s, c)
           n == CMD_LABEL + Len(r)
<1>0. Typed(t) /\ Len(s) \in Nat /\ VGA_WIDTH \in Nat /\ CMD_LABEL \in Nat
  BY Constants, LenProperties DEF Typing
<1>1. Position(t) \in Nat /\ t.column \in Nat /\ Start(t) \in Nat
  BY <1>0, RowStart DEF Typed, Start, Position
<1>2. /\ Typed(w) /\ w.column = 0 /\ Start(w) = Start(t)
      /\ w.cmd_offset = t.cmd_offset /\ w.line_wrap = (t.line_wrap + 1) % 256
      /\ Cell(w, Position(t)) = c
      /\ \A i \in Nat : i # Position(t) => Cell(w, i) = Cell(t, i)
  BY <1>0, WrappedCells
<1>3. Lowered(w, u)
  BY <1>2, DownCells
<1>4. Len(r) = Len(s) + 1
  BY AppendProperties
<1>5. EndsAt(t, s, Position(t), L)
  BY DEF Typing, Prompt, LineEnds
<1> HIDE DEF w
<1>6. EndsAt(w, r, Position(t) + 1, L)
  BY <1>1, <1>2, <1>5, AppendEnds
<1> HIDE DEF u, r
<1>7. /\ u.column = 0 /\ u.cmd_offset = t.cmd_offset /\ u.line_wrap = (t.line_wrap + 1) % 256
      /\ Start(u) \in Nat /\ Lift(w, u) \in Nat
  BY <1>2, <1>3 DEF Lowered
<1> DEFINE q == Position(t) + 1
<1>8. Position(u) = Start(u) /\ q = Start(u) + Lift(w, u) /\ q \in Nat
  <2>1. Position(u) = Start(u)
    BY <1>7 DEF Position
  <2>2. q = Start(t) + VGA_WIDTH
    BY <1>0, <1>1 DEF Position
  <2>3. Lift(w, u) = Start(t) + VGA_WIDTH - Start(u)
    BY <1>2 DEF Lift
  <2>4. q \in Nat
    BY <1>1
  <2> HIDE DEF q
  <2>5. q = Start(u) + Lift(w, u)
    BY <1>0, <1>1, <1>7, <2>2, <2>3
  <2> QED BY <2>1, <2>4, <2>5
<1> HIDE DEF q
<1>9. LineEnds(u, r, L)
  <2> SUFFICES ASSUME NEW j \in 1..n, Start(u) - n + j - 1 >= 0
               PROVE  Cell(u, Start(u) - n + j - 1) \in Shown(r, j, L)
    BY <1>8 DEF LineEnds, EndsAt
  <2> DEFINE i == Start(u) - n + j - 1
  <2>1. n \in Nat
    BY <1>0, <1>4
  <2>2. i \in Nat /\ i < Start(u)
    BY <1>7, <2>1
  <2>3. Cell(u, i) = Cell(w, i + Lift(w, u))
    BY <1>3, <2>2 DEF Lowered
  <2>4. i + Lift(w, u) = q - n + j - 1 /\ q - n + j - 1 >= 0
    BY <1>7, <1>8, <2>1, <2>2, SMTT(30)
  <2>5. Cell(w, q - n + j - 1) \in Shown(r, j, L)
    BY <1>6, <2>4 DEF EndsAt, q
  <2> QED BY <2>3, <2>4, <2>5
<1>10. Wraps(u, r)
  <2>1. PICK k \in Nat : /\ t.column + k * VGA_WIDTH = CMD_LABEL + Len(s)
                         /\ t.line_wrap = k % 256
    BY DEF Typing, Prompt, Wraps
  <2>2. (k + 1) * VGA_WIDTH = k * VGA_WIDTH + VGA_WIDTH /\ k * VGA_WIDTH \in Nat
    BY <1>0
  <2>3. u.column + (k + 1) * VGA_WIDTH = CMD_LABEL + Len(r)
    BY <1>0, <1>1, <1>4, <1>7, <2>1, <2>2, SMTT(30)
  <2>4. ((k % 256) + 1) % 256 = (k + 1) % 256
    OBVIOUS
  <2> QED BY <1>7, <2>1, <2>3, <2>4 DEF Wraps
<1> QED BY <1>7, <1>9, <1>10 DEF Prompt, Typing, u, r, w

(* A character typed comes behind the others on the prompt's line.         *)
LEMMA PutCharLine ==
  ASSUME NEW t, NEW S, NEW s \in Seq(S), NEW c \in S, NEW L, Typing(t, s, L)
  PROVE  Prompt(PutChar(t, c), Append(s, c), L)
<1>1. Typed(t)
  BY DEF Typing
<1> QED BY <1>1, PutCharCases, Next1Line, WrappedLine

(* backspace goes up, goes left or stays, and blanks the cell it comes to. *)
Free(t) == t.cmd_offset = 0 \/ t.line_wrap # 0
GoesUp(t, v) ==
  /\ Free(t) /\ t.column = 0 /\ t.row # 0
  /\ v.row = t.row - 1 /\ v.column = VGA_WIDTH
  /\ v.line_wrap = IF t.cmd_offset # 0 THEN t.line_wrap - 1 ELSE t.line_wrap
  /\ Position(v) = Position(t)
GoesLeft(t, v) ==
  /\ t.column > IF Free(t) THEN 0 ELSE t.cmd_offset
  /\ v.row = t.row /\ v.column = t.column - 1 /\ v.line_wrap = t.line_wrap
  /\ Position(v) = Position(t) - 1
Stays(t, v) ==
  /\ v.row = t.row /\ v.column = t.column /\ v.line_wrap = t.line_wrap
  /\ Position(v) = Position(t)

(* backspace goes up a row, or left, or stays at the prompt, and blanks the*)
(* cell it comes to.                                                       *)
LEMMA BackspaceCells ==
  ASSUME NEW t, Typed(t)
  PROVE  LET v == Backspace(t)
         IN  /\ Typed(v) /\ v.cmd_offset = t.cmd_offset
             /\ GoesUp(t, v) \/ GoesLeft(t, v) \/ Stays(t, v)
             /\ DOMAIN v.screen \subseteq DOMAIN t.screen \ {Position(v)}
             /\ \A i \in Nat : i # Position(v) => Cell(v, i) = Cell(t, i)
<1> DEFINE free == Free(t)
           up   == free /\ t.column = 0 /\ t.row # 0
           left == IF free THEN t.column > 0 ELSE t.column > t.cmd_offset
           u == [t EXCEPT
                 !.row       = IF up THEN t.row - 1 ELSE t.row,
                 !.line_wrap = IF up /\ t.cmd_offset # 0 THEN t.line_wrap - 1 ELSE t.line_wrap,
                 !.column    = IF up THEN VGA_WIDTH ELSE IF left THEN t.column - 1 ELSE t.column]
           v == Backspace(t)
<1>1. v = PutCharAt(u, BLANK, u.column)
  BY DEF Backspace, Free
<1>2. /\ DOMAIN u = DOMAIN t /\ u.screen = t.screen /\ u.cmd_offset = t.cmd_offset
      /\ u.low = t.low
      /\ u.row = IF up THEN t.row - 1 ELSE t.row
      /\ u.line_wrap = IF up /\ t.cmd_offset # 0 THEN t.line_wrap - 1 ELSE t.line_wrap
      /\ u.column = IF up THEN VGA_WIDTH ELSE IF left THEN t.column - 1 ELSE t.column
  BY DEF Typed
<1> HIDE DEF u, v
<1>3. u.row \in 0..VGA_HEIGHT - 1
  BY <1>2, Constants DEF Typed
<1>4. u.line_wrap \in 0..255
  BY <1>2 DEF Typed, Free
<1>5. u.column \in Nat
  BY <1>2, Constants DEF Typed
<1>6. Typed(u)
  BY <1>2, <1>3, <1>4, <1>5 DEF Typed
<1>7. /\ Typed(v) /\ v.row = u.row /\ v.column = u.column
      /\ v.cmd_offset = u.cmd_offset /\ v.line_wrap = u.line_wrap
      /\ Start(u) + u.column \notin DOMAIN v.screen
      /\ DOMAIN v.screen \subseteq DOMAIN u.screen \cup {Start(u) + u.column}
      /\ \A i \in Nat : i # Start(u) + u.column => Cell(v, i) = Cell(u, i)
  BY <1>1, <1>5, <1>6, PutCharAtCells
<1>8. Position(v) = Start(u) + u.column /\ Position(v) = v.row * VGA_WIDTH + v.column
  BY <1>7 DEF Position, Start
<1>9. \A i : Cell(u, i) = Cell(t, i)
  BY <1>2 DEF Cell
<1>10. GoesUp(t, v) \/ GoesLeft(t, v) \/ Stays(t, v)
  <2>1. /\ Start(t) \in Nat /\ t.column \in Nat /\ VGA_WIDTH \in Nat /\ t.row \in Nat
        /\ (t.row - 1) * VGA_WIDTH = Start(t) - VGA_WIDTH
        /\ t.cmd_offset \in Nat
    BY Cursor
  <2>2. Position(t) = Start(t) + t.column /\ Start(t) = t.row * VGA_WIDTH
    BY DEF Position, Start
  <2>3. CASE up
    <3>1. /\ v.row = t.row - 1 /\ v.column = VGA_WIDTH
          /\ v.line_wrap = IF t.cmd_offset # 0 THEN t.line_wrap - 1 ELSE t.line_wrap
      BY <1>2, <1>7, <2>3
    <3>2. Position(v) = Position(t)
      BY <1>8, <2>1, <2>2, <2>3, <3>1
    <3> QED BY <2>3, <3>1, <3>2 DEF GoesUp
  <2>4. CASE ~ up /\ left
    <3>1. v.row = t.row /\ v.column = t.column - 1 /\ v.line_wrap = t.line_wrap
      BY <1>2, <1>7, <2>4
    <3>2. Position(v) = Position(t) - 1
      BY <1>8, <2>1, <2>2, <3>1
    <3>3. t.column > IF Free(t) THEN 0 ELSE t.cmd_offset
      BY <2>4
    <3> QED BY <3>1, <3>2, <3>3 DEF GoesLeft
  <2>5. CASE ~ up /\ ~ left
    <3>1. v.row = t.row /\ v.column = t.column /\ v.line_wrap = t.line_wrap
      BY <1>2, <1>7, <2>5
    <3> QED BY <1>8, <2>2, <3>1 DEF Stays
  <2> QED BY <2>3, <2>4, <2>5
<1> QED BY <1>2, <1>7, <1>8, <1>9, <1>10 DEF v

(* What is deleted is the end of the text.                                 *)
LEMMA BackspaceAtEnd ==
  ASSUME NEW t, Typed(t), AtEnd(t)
  PROVE  AtEnd(Backspace(t))
<1> DEFINE v == Backspace(t)
<1>1. /\ Typed(v)
      /\ GoesUp(t, v) \/ GoesLeft(t, v) \/ Stays(t, v)
      /\ DOMAIN v.screen \subseteq DOMAIN t.screen \ {Position(v)}
  BY BackspaceCells
<1> HIDE DEF v
<1>2. Position(t) \in Nat /\ t.column \in Nat /\ VGA_WIDTH \in Nat /\ v.column \in Nat
  BY <1>1, RowStart, Constants DEF Typed, Start, Position
<1>3. v.column <= VGA_WIDTH
  BY <1>1, <1>2 DEF GoesUp, GoesLeft, Stays, AtEnd
<1>4. Position(v) \in {Position(t), Position(t) - 1}
  BY <1>1 DEF GoesUp, GoesLeft, Stays
<1>5. ASSUME NEW i \in DOMAIN v.screen, i < SCREEN
      PROVE  i < Position(v)
  <2>1. i \in Nat /\ i < Position(t) /\ i # Position(v)
    BY <1>1, <1>5 DEF Typed, AtEnd, BlankFrom
  <2> QED BY <1>2, <1>4, <2>1
<1> QED BY <1>3, <1>5 DEF AtEnd, BlankFrom, v

(* A sequence without its last element.                                    *)
LEMMA FrontSeq ==
  ASSUME NEW S, NEW s \in Seq(S), s # <<>>
  PROVE  LET r == Front(s)
         IN  /\ r \in Seq(S) /\ Len(r) = Len(s) - 1 /\ Len(r) \in Nat
             /\ \A j \in 1..Len(s) - 1 : r[j] = s[j]
<1> DEFINE r == Front(s)
           d == Len(s) - 1
<1>1. Len(s) \in Nat /\ d \in Nat
  BY LenProperties, EmptySeq
<1>2. \A i \in 1..d : s[i] \in S
  BY <1>1, ElementOfSeq
<1>3. r = SubSeq(s, 1, d)
  BY DEF Front
<1> HIDE DEF r, d
<1>4. /\ r \in Seq(S)
      /\ Len(r) = IF 1 <= d THEN d - 1 + 1 ELSE 0
      /\ \A j \in 1..d - 1 + 1 : r[j] = s[1 + j - 1]
  BY <1>1, <1>2, <1>3, SubSeqProperties
<1>5. Len(r) = d /\ d - 1 + 1 = d
  BY <1>1, <1>4
<1>6. \A j \in 1..d : r[j] = s[j]
  BY <1>1, <1>4
<1> QED BY <1>1, <1>4, <1>5, <1>6 DEF r, d

(* The line loses its last character exactly when the cursor goes left.    *)
Edited(t, v, s) == IF s # <<>> /\ v.column < t.column THEN Front(s) ELSE s

(* The cursor does not go left when nothing is typed.                      *)
LEMMA LeftOfNothing ==
  ASSUME NEW t, Typed(t), NEW s, NEW L, Prompt(t, s, L), NEW v, GoesLeft(t, v)
  PROVE  s # <<>>
<1> SUFFICES ASSUME s = <<>> PROVE FALSE
  OBVIOUS
<1>1. Len(s) = 0
  OBVIOUS
<1>2. t.column \in Nat /\ VGA_WIDTH \in Nat /\ CMD_LABEL \in Nat /\ CMD_LABEL < VGA_WIDTH
      /\ CMD_LABEL # 0
  BY Constants DEF Typed
<1>3. PICK k \in Nat : t.column + k * VGA_WIDTH = CMD_LABEL + Len(s) /\ t.line_wrap = k % 256
  BY DEF Prompt, Wraps
<1>4. k * VGA_WIDTH \in Nat /\ (k >= 1 => k * VGA_WIDTH >= VGA_WIDTH) /\ 0 * VGA_WIDTH = 0
  BY <1>2
<1>5. k = 0
  BY <1>1, <1>2, <1>3, <1>4
<1>6. t.column = CMD_LABEL /\ t.line_wrap = 0 /\ t.cmd_offset = CMD_LABEL
  BY <1>1, <1>2, <1>3, <1>4, <1>5 DEF Prompt
<1> QED BY <1>2, <1>6 DEF GoesLeft, Free

(* backspace takes the last character typed, if there is one.              *)
LEMMA BackspaceLine ==
  ASSUME NEW t, Typed(t), NEW S, NEW s \in Seq(S), NEW L, Prompt(t, s, L)
  PROVE  Prompt(Backspace(t), Edited(t, Backspace(t), s), L)
<1> DEFINE v == Backspace(t)
           n == CMD_LABEL + Len(s)
<1>1. /\ Typed(v) /\ v.cmd_offset = t.cmd_offset
      /\ GoesUp(t, v) \/ GoesLeft(t, v) \/ Stays(t, v)
      /\ \A i \in Nat : i # Position(v) => Cell(v, i) = Cell(t, i)
  BY BackspaceCells
<1> HIDE DEF v
<1>2. Position(t) \in Nat /\ t.column \in Nat
  BY Cursor
<1>3. /\ VGA_WIDTH \in Nat /\ CMD_LABEL \in Nat /\ CMD_LABEL < VGA_WIDTH /\ CMD_LABEL # 0
      /\ Len(s) \in Nat
  BY Constants, LenProperties
<1>4. t.cmd_offset = CMD_LABEL /\ EndsAt(t, s, Position(t), L)
  BY DEF Prompt, LineEnds
<1>5. PICK k \in Nat : t.column + k * VGA_WIDTH = n /\ t.line_wrap = k % 256
  BY DEF Prompt, Wraps
<1>6. k * VGA_WIDTH \in Nat /\ (k - 1) * VGA_WIDTH = k * VGA_WIDTH - VGA_WIDTH
  BY <1>3
<1>7. ASSUME Position(v) = Position(t)
      PROVE  EndsAt(v, s, Position(v), L)
  <2> SUFFICES ASSUME NEW j \in 1..n, Position(t) - n + j - 1 >= 0
               PROVE  Cell(v, Position(t) - n + j - 1) \in Shown(s, j, L)
    BY <1>7 DEF EndsAt
  <2>1. Position(t) - n + j - 1 \in Nat /\ Position(t) - n + j - 1 # Position(v)
    BY <1>2, <1>3, <1>7
  <2>2. Cell(t, Position(t) - n + j - 1) \in Shown(s, j, L)
    BY <1>4 DEF EndsAt
  <2> QED BY <1>1, <2>1, <2>2
<1>8. CASE GoesUp(t, v)
  <2>1. v.column = VGA_WIDTH /\ Position(v) = Position(t) /\ v.line_wrap = t.line_wrap - 1
        /\ t.line_wrap # 0 /\ t.column = 0
    BY <1>3, <1>4, <1>8 DEF GoesUp, Free
  <2>2. Edited(t, v, s) = s
    BY <1>3, <2>1 DEF Edited
  <2>3. k # 0
    BY <1>5, <2>1
  <2>4. k - 1 \in Nat /\ (k % 256) - 1 = (k - 1) % 256
    BY <1>5, <2>1, <2>3
  <2>5. v.column + (k - 1) * VGA_WIDTH = n
    BY <1>3, <1>5, <1>6, <2>1
  <2>6. Wraps(v, s)
    BY <1>5, <2>1, <2>4, <2>5 DEF Wraps
  <2> QED BY <1>1, <1>4, <1>7, <2>1, <2>2, <2>6 DEF Prompt, LineEnds, v
<1>9. CASE Stays(t, v)
  <2>1. Edited(t, v, s) = s
    BY <1>2, <1>9 DEF Stays, Edited
  <2>2. Wraps(v, s)
    BY <1>5, <1>9 DEF Stays, Wraps
  <2> QED BY <1>1, <1>4, <1>7, <1>9, <2>1, <2>2 DEF Prompt, LineEnds, Stays, v
<1>10. CASE GoesLeft(t, v)
  <2> DEFINE r == Front(s)
  <2>1. v.column = t.column - 1 /\ Position(v) = Position(t) - 1 /\ v.line_wrap = t.line_wrap
    BY <1>10 DEF GoesLeft
  <2>2. s # <<>>
    BY <1>10, LeftOfNothing
  <2>3. Edited(t, v, s) = r
    BY <1>2, <2>1, <2>2 DEF Edited
  <2>4. /\ r \in Seq(S) /\ Len(r) = Len(s) - 1 /\ Len(r) \in Nat
        /\ \A j \in 1..Len(s) - 1 : r[j] = s[j]
    BY <2>2, FrontSeq
  <2> HIDE DEF r
  <2>5. Wraps(v, r)
    <3>1. t.column - 1 + k * VGA_WIDTH = CMD_LABEL + (Len(s) - 1)
      BY <1>2, <1>3, <1>5, <1>6
    <3> QED BY <1>5, <2>1, <2>4, <3>1 DEF Wraps
  <2>6. EndsAt(v, r, Position(v), L)
    <3> DEFINE m == n - 1
    <3>1. CMD_LABEL + Len(r) = m /\ m \in Nat
      BY <1>3, <2>4
    <3> SUFFICES ASSUME NEW j \in 1..m, Position(v) - m + j - 1 >= 0
                 PROVE  Cell(v, Position(v) - m + j - 1) \in Shown(r, j, L)
      BY <3>1 DEF EndsAt
    <3>2. /\ Position(v) - m + j - 1 = Position(t) - n + j - 1
          /\ Position(t) - n + j - 1 >= 0
          /\ Position(v) - m + j - 1 \in Nat /\ Position(v) - m + j - 1 # Position(v)
          /\ j \in 1..n
      BY <1>2, <1>3, <2>1, <3>1
    <3>3. Cell(t, Position(t) - n + j - 1) \in Shown(s, j, L)
      BY <1>4, <3>2 DEF EndsAt
    <3>4. Shown(r, j, L) = Shown(s, j, L)
      <4>1. ~ (j <= CMD_LABEL) => j - CMD_LABEL \in 1..Len(s) - 1
        BY <1>3, <3>1
      <4>2. ~ (j <= CMD_LABEL) => r[j - CMD_LABEL] = s[j - CMD_LABEL]
        BY <2>4, <4>1
      <4> QED BY <4>2 DEF Shown
    <3> QED BY <1>1, <3>2, <3>3, <3>4
  <2> QED BY <1>1, <1>4, <2>3, <2>5, <2>6 DEF Prompt, LineEnds, v, r
<1> QED BY <1>1, <1>8, <1>9, <1>10

(* And what lies at the cursor and behind it: a blank comes before it, or  *)
(* in the place of its first.                                              *)
Kept(t, v, s, a) ==
  IF a = <<>> THEN <<>>
  ELSE <<BLANK>> \o (IF s # <<>> /\ v.column < t.column THEN a ELSE Rest(a))

(* A blank before a sequence.                                              *)
LEMMA BlankBefore ==
  ASSUME NEW S, NEW b \in Seq(S)
  PROVE  LET r == <<BLANK>> \o b
         IN  /\ r \in Seq(S \cup {BLANK}) /\ Len(r) = Len(b) + 1 /\ r # <<>>
             /\ r[1] = BLANK /\ \A j \in 1..Len(b) : r[j + 1] = b[j]
<1> DEFINE r == <<BLANK>> \o b
           T == S \cup {BLANK}
<1>1. Len(b) \in Nat /\ \A j \in 1..Len(b) : b[j] \in T
  BY LenProperties, ElementOfSeq
<1>2. b \in Seq(T)
  BY <1>1
<1>3. <<BLANK>> \in Seq(T) /\ Len(<<BLANK>>) = 1 /\ <<BLANK>>[1] = BLANK
  OBVIOUS
<1> HIDE DEF T
<1>4. /\ r \in Seq(T) /\ Len(r) = 1 + Len(b)
      /\ \A i \in 1..1 + Len(b) : r[i] = IF i <= 1 THEN <<BLANK>>[i] ELSE b[i - 1]
  BY <1>2, <1>3, ConcatProperties
<1> HIDE DEF r
<1>5. r[1] = BLANK
  BY <1>1, <1>3, <1>4
<1>6. ASSUME NEW j \in 1..Len(b) PROVE r[j + 1] = b[j]
  <2>1. j + 1 \in 1..1 + Len(b) /\ ~ (j + 1 <= 1) /\ (j + 1) - 1 = j
    BY <1>1
  <2> QED BY <1>4, <2>1
<1>7. r # <<>>
  BY <1>1, <1>4, EmptySeq
<1> QED BY <1>1, <1>4, <1>5, <1>6, <1>7 DEF r, T

(* backspace moves nothing that lies behind the cursor.                    *)
LEMMA BackspaceAhead ==
  ASSUME NEW t, Typed(t), NEW s, NEW L, NEW A, NEW a \in Seq(A), Ahead(t, a),
         a # <<>> => Prompt(t, s, L) /\ t.line_wrap = 0
  PROVE  LET v == Backspace(t)
         IN  Ahead(v, Kept(t, v, s, a)) /\ (a # <<>> => v.line_wrap = t.line_wrap)
<1> DEFINE v == Backspace(t)
<1>1. CASE a = <<>>
  <2>1. AtEnd(t)
    BY <1>1, AheadNothing
  <2>2. Typed(v) /\ AtEnd(v)
    BY <2>1, BackspaceAtEnd, BackspaceCells
  <2> HIDE DEF v
  <2>3. Ahead(v, <<>>)
    BY <2>2, AheadNothing
  <2> QED BY <1>1, <2>3 DEF Kept, v
<1>2. CASE a # <<>>
  <2> DEFINE b == IF s # <<>> /\ v.column < t.column THEN a ELSE Rest(a)
             r == <<BLANK>> \o b
  <2>1. /\ Typed(v)
        /\ GoesUp(t, v) \/ GoesLeft(t, v) \/ Stays(t, v)
        /\ DOMAIN v.screen \subseteq DOMAIN t.screen \ {Position(v)}
        /\ \A i \in Nat : i # Position(v) => Cell(v, i) = Cell(t, i)
    BY BackspaceCells
  <2> HIDE DEF v
  <2>2. t.column \in Nat /\ Position(t) \in Nat /\ VGA_WIDTH \in Nat /\ CMD_LABEL # 0
    BY Cursor, Constants
  <2>3. v.column \in Nat /\ Position(v) \in Nat
    BY <2>1, Cursor
  <2>4. ~ Free(t)
    BY <1>2, <2>2 DEF Prompt, Free
  <2>5. /\ Rest(a) \in Seq(A) /\ Len(a) \in Nat /\ Len(a) >= 1 /\ Len(Rest(a)) = Len(a) - 1
        /\ \A j \in 1..Len(a) - 1 : Rest(a)[j] = a[j + 1]
    <3>1. /\ Rest(a) \in Seq(A) /\ Len(a) \in Nat /\ Len(a) # 0 /\ Len(Rest(a)) = Len(a) - 1
          /\ \A j \in 1..Len(Rest(a)) : Rest(a)[j] = a[j + 1]
      BY <1>2, RestSeq
    <3> QED BY <3>1
  <2>6. /\ t.column + Len(a) <= VGA_WIDTH /\ BlankFrom(t, Position(t) + Len(a))
        /\ \A j \in 1..Len(a) : Cell(t, Position(t) + j - 1) = a[j]
    BY DEF Ahead
  <2> DEFINE moved == IF GoesLeft(t, v) THEN 1 ELSE 0
  <2>7. /\ b \in Seq(A) /\ Len(b) = Len(a) - 1 + moved
        /\ v.column = t.column - moved /\ Position(v) = Position(t) - moved
        /\ v.line_wrap = t.line_wrap
        /\ \A j \in 1..Len(b) : Cell(t, Position(v) + j) = b[j]
    <3>1. CASE GoesLeft(t, v)
      <4>1. s # <<>>
        BY <1>2, <3>1, LeftOfNothing
      <4>2. v.column = t.column - 1 /\ Position(v) = Position(t) - 1 /\ v.line_wrap = t.line_wrap
        BY <3>1 DEF GoesLeft
      <4>3. b = a
        BY <2>2, <4>1, <4>2
      <4>4. ASSUME NEW j \in 1..Len(a) PROVE Cell(t, Position(v) + j) = a[j]
        <5>1. Position(v) + j = Position(t) + j - 1
          BY <2>2, <2>5, <4>2
        <5> QED BY <2>6, <5>1
      <4>5. Len(a) = Len(a) - 1 + 1
        BY <2>5
      <4> QED BY <3>1, <4>2, <4>3, <4>4, <4>5
    <3>2. CASE ~ GoesLeft(t, v)
      <4>1. Stays(t, v)
        BY <2>1, <2>4, <3>2 DEF GoesUp
      <4>2. v.column = t.column /\ Position(v) = Position(t) /\ v.line_wrap = t.line_wrap
        BY <4>1 DEF Stays
      <4>3. b = Rest(a)
        BY <2>2, <4>2
      <4>4. ASSUME NEW j \in 1..Len(a) - 1 PROVE Cell(t, Position(v) + j) = Rest(a)[j]
        <5>1. Position(v) + j = Position(t) + (j + 1) - 1 /\ j + 1 \in 1..Len(a)
          BY <2>2, <2>5, <4>2
        <5> QED BY <2>5, <2>6, <5>1
      <4>5. /\ Len(Rest(a)) = Len(a) - 1 + 0 /\ t.column = t.column - 0
            /\ Position(t) = Position(t) - 0 /\ Len(Rest(a)) = Len(a) - 1
        BY <2>2, <2>5
      <4> QED BY <2>5, <3>2, <4>2, <4>3, <4>4, <4>5
    <3> QED BY <3>1, <3>2
  <2>8. moved \in {0, 1}
    OBVIOUS
  <2> HIDE DEF b, moved
  <2>9. /\ Len(r) = Len(b) + 1 /\ r[1] = BLANK /\ \A j \in 1..Len(b) : r[j + 1] = b[j]
    BY <2>7, BlankBefore
  <2> HIDE DEF r
  <2>10. Len(r) = Len(a) + moved /\ Len(b) \in Nat
    BY <2>5, <2>7, <2>8, <2>9, LenProperties
  <2>11. /\ v.column + Len(r) = t.column + Len(a)
         /\ Position(v) + Len(r) = Position(t) + Len(a)
    <3>1. /\ v.column = t.column - moved /\ Position(v) = Position(t) - moved
          /\ Len(r) = Len(a) + moved /\ Len(a) \in Nat /\ moved \in Nat
      BY <2>5, <2>7, <2>8, <2>10
    <3>2. \A x, y, m \in Nat : (x - m) + (y + m) = x + y
      OBVIOUS
    <3> QED BY <2>2, <3>1, <3>2
  <2>12. BlankFrom(v, Position(v) + Len(r))
    BY <2>1, <2>6, <2>11 DEF BlankFrom
  <2>13. ASSUME NEW j \in 1..Len(r)
         PROVE  Cell(v, Position(v) + j - 1) = r[j]
    <3>1. CASE j = 1
      <4>1. Position(v) + j - 1 = Position(v)
        BY <2>3, <3>1
      <4>2. Position(v) \notin DOMAIN v.screen
        BY <2>1
      <4> QED BY <2>9, <3>1, <4>1, <4>2 DEF Cell
    <3>2. CASE j # 1
      <4> DEFINE i == j - 1
      <4>1. i \in 1..Len(b) /\ j = i + 1
        BY <2>9, <2>10, <3>2
      <4>2. /\ Position(v) + j - 1 = Position(v) + i /\ Position(v) + i \in Nat
            /\ Position(v) + i # Position(v)
        BY <2>3, <2>10, <4>1
      <4> HIDE DEF i
      <4>3. Cell(v, Position(v) + i) = b[i]
        BY <2>1, <2>7, <4>1, <4>2
      <4>4. r[j] = b[i]
        BY <2>9, <4>1
      <4> QED BY <4>2, <4>3, <4>4
    <3> QED BY <3>1, <3>2
  <2>14. v.column + Len(r) <= VGA_WIDTH
    BY <2>6, <2>11
  <2>15. Kept(t, v, s, a) = r
    BY <1>2 DEF Kept, r, b
  <2> QED BY <2>7, <2>12, <2>13, <2>14, <2>15 DEF Ahead, v
<1> QED BY <1>1, <1>2

-----------------------------------------------------------------------------
(* The invariant.                                                          *)

(* A new prompt.                                                           *)
LEMMA PromptEmpty ==
  ASSUME NEW t, Typed(t), Labelled(t), t.cmd_offset # 0, t.line_wrap = 0,
         NEW L, "cmd:" \in L
  PROVE  Prompt(t, <<>>, L)
<1>1. t.column + 0 * VGA_WIDTH = CMD_LABEL + Len(<<>>) /\ 0 % 256 = 0
  BY Constants DEF Labelled
<1>2. Wraps(t, <<>>)
  BY <1>1 DEF Wraps
<1>3. LineEnds(t, <<>>, L)
  <2> SUFFICES ASSUME NEW j \in 1..CMD_LABEL, Position(t) - CMD_LABEL + j - 1 >= 0
               PROVE  Cell(t, Position(t) - CMD_LABEL + j - 1) \in Shown(<<>>, j, L)
    BY Constants DEF LineEnds, EndsAt
  <2>1. CMD_LABEL + Len(<<>>) = CMD_LABEL
    BY Constants
  <2>2. Cell(t, Position(t) - CMD_LABEL + j - 1) \in Shown(<<>>, j, {"cmd:"})
    BY <2>1 DEF Labelled, LineEnds, EndsAt
  <2>3. j <= CMD_LABEL
    BY Constants
  <2> QED BY <2>2, <2>3 DEF Shown
<1> QED BY <1>2, <1>3 DEF Prompt, Typed

(* The rest of the row is blank.                                           *)
LEMMA AheadBlank ==
  ASSUME NEW t, Typed(t), NEW S, NEW a \in Seq(S), Ahead(t, a)
  PROVE  BlankFrom(t, Start(t) + VGA_WIDTH)
<1>1. Len(a) \in Nat
  BY LenProperties
<1>2. /\ t.column \in Nat /\ VGA_WIDTH \in Nat /\ Start(t) \in Nat
      /\ Position(t) = Start(t) + t.column
  BY Cursor
<1>3. t.column + Len(a) <= VGA_WIDTH /\ BlankFrom(t, Position(t) + Len(a))
  BY DEF Ahead
<1>4. /\ Position(t) + Len(a) \in Nat /\ Start(t) + VGA_WIDTH \in Nat
      /\ Start(t) + VGA_WIDTH >= Position(t) + Len(a)
  BY <1>1, <1>2, <1>3
<1> QED BY <1>3, <1>4, BlankFurther

HistoryTyped ==
  /\ typed \in Seq(Keys \cup {MESSAGE}) /\ ahead \in Seq(Keys \cup {MESSAGE, BLANK})
  /\ prompted \in BOOLEAN /\ clean \in BOOLEAN

(* A newline or End, as a key or printed.                                  *)
LEMMA NewLineStep ==
  ASSUME NEW blank \in BOOLEAN, Outcome(terminal', blank),
         typed' = <<>>, ahead' = <<>>, clean' => blank, clean' => ~ Clearing',
         prompted' => /\ terminal'.cmd_offset # 0 /\ terminal'.column = CMD_LABEL
                      /\ terminal'.line_wrap = 0
  PROVE  ScreenInv'
<1>1. Typed(terminal')
  BY DEF Outcome
<1>2. clean' => Ahead(terminal', ahead')
  BY <1>1, AheadNothing DEF Outcome
<1>3. "cmd:" \in Labels'
  BY DEF Labels
<1>4. prompted' => Prompt(terminal', typed', Labels')
  <2> SUFFICES ASSUME prompted' PROVE Prompt(terminal', <<>>, Labels')
    OBVIOUS
  <2>1. Labelled(terminal') /\ terminal'.cmd_offset # 0 /\ terminal'.line_wrap = 0
    BY DEF Outcome
  <2> QED BY <1>1, <1>3, <2>1, PromptEmpty
<1> QED BY <1>1, <1>2, <1>4 DEF ScreenInv

(* The history of a newline.                                               *)
LEMMA ObeyNewline ==
  ASSUME HistoryTyped, NEW t, Typed(t), Obey(t, "newline"),
         clean /\ ~ Clearing /\ t.column <= VGA_WIDTH => BlankFrom(t, Start(t) + VGA_WIDTH),
         ~ Clearing => ~ Clearing'
  PROVE  ScreenInv' /\ HistoryTyped'
<1> DEFINE blank0 == clean /\ ~ Clearing /\ t.column <= VGA_WIDTH
           blank == blank0 \/ Command(t) \in ClearingCmds
<1>1. terminal' = Newline(t)
  BY DEF Obey, Pressed
<1>2. blank0 \in BOOLEAN
  BY DEF HistoryTyped
<1>3. Outcome(Newline(t), blank)
  <2> HIDE DEF blank0
  <2>1. blank0 => BlankFrom(t, Start(t) + VGA_WIDTH)
    BY DEF blank0
  <2> QED BY <1>2, <2>1, NewlineOutcome
<1>4. /\ typed' = <<>> /\ ahead' = <<>>
      /\ prompted' => /\ terminal'.cmd_offset # 0 /\ terminal'.column = CMD_LABEL
                      /\ terminal'.line_wrap = 0
      /\ prompted' \in BOOLEAN /\ clean' \in BOOLEAN
  BY DEF Obey
<1>5. clean' => blank /\ ~ Clearing
  BY DEF Obey, Clears, ClearingCmds
<1>6. blank \in BOOLEAN
  BY <1>2
<1> HIDE DEF blank
<1>7. Outcome(terminal', blank)
  BY <1>1, <1>3
<1>8. ScreenInv'
  BY <1>4, <1>5, <1>6, <1>7, NewLineStep
<1> QED BY <1>4, <1>8 DEF HistoryTyped

(* One character obeyed: a key, or one that the main thread prints.        *)
LEMMA ObeyStep ==
  ASSUME ScreenInv, HistoryTyped, NEW key \in Keys \cup Editing \cup {MESSAGE},
         Obey(terminal, key), Clearing' = Clearing, Labels' = Labels
  PROVE  ScreenInv' /\ HistoryTyped'
<1> DEFINE t == terminal
           u == Pressed(t, key)
           up == clean /\ ~ Clearing
<1>1. /\ Typed(t)
      /\ up => /\ Ahead(t, ahead) /\ (ahead # <<>> => prompted /\ t.line_wrap = 0)
               /\ prompted => Prompt(t, typed, Labels)
      /\ typed \in Seq(Keys \cup {MESSAGE}) /\ ahead \in Seq(Keys \cup {MESSAGE, BLANK})
      /\ prompted \in BOOLEAN /\ clean \in BOOLEAN
  BY DEF ScreenInv, HistoryTyped
<1>2. terminal' = u
  BY DEF Obey
<1>3. CASE key = "newline"
  <2>1. up => BlankFrom(t, Start(t) + VGA_WIDTH)
    BY <1>1, AheadBlank
  <2> QED BY <1>1, <1>3, <2>1, ObeyNewline
<1>4. CASE key = "end"
  <2>1. u = EndKey(t)
    BY <1>4 DEF Pressed
  <2>2. Outcome(u, TRUE)
    BY <1>1, <2>1, EndKeyOutcome
  <2>3. /\ typed' = <<>> /\ ahead' = <<>> /\ (clean' => ~ Clearing)
        /\ prompted' => /\ terminal'.cmd_offset # 0 /\ terminal'.column = CMD_LABEL
                        /\ terminal'.line_wrap = 0
        /\ prompted' \in BOOLEAN /\ clean' \in BOOLEAN
    BY <1>4 DEF Obey
  <2> HIDE DEF u
  <2>4. Outcome(terminal', TRUE)
    BY <1>2, <2>2
  <2>5. ScreenInv'
    BY <2>3, <2>4, NewLineStep
  <2> QED BY <2>3, <2>5 DEF HistoryTyped
<1>5. CASE key = "tab"
  <2>1. u = PutTab(t)
    BY <1>5 DEF Pressed
  <2>2. Typed(u)
    BY <1>1, <2>1, PutTabCells
  <2>3. typed' = typed /\ ahead' = ahead /\ prompted' = prompted /\ clean' = FALSE
    BY <1>5 DEF Obey, Clears
  <2> HIDE DEF u
  <2> QED BY <1>1, <1>2, <2>2, <2>3 DEF ScreenInv, HistoryTyped
<1>6. CASE key = "backspace"
  <2>1. u = Backspace(t)
    BY <1>6 DEF Pressed
  <2>2. Typed(u)
    BY <1>1, <2>1, BackspaceCells
  <2>3. /\ typed' = Edited(t, u, typed) /\ ahead' = Kept(t, u, typed, ahead)
        /\ prompted' = prompted /\ clean' \in BOOLEAN /\ (clean' => up)
    BY <1>2, <1>6 DEF Obey, Clears, Edited, Kept, Rest
  <2>4. prompted /\ up => Prompt(u, typed', Labels)
    BY <1>1, <2>1, <2>3, BackspaceLine
  <2>5. up => Ahead(u, ahead') /\ (ahead # <<>> => u.line_wrap = t.line_wrap)
    <3> SUFFICES ASSUME up PROVE Ahead(u, ahead') /\ (ahead # <<>> => u.line_wrap = t.line_wrap)
      OBVIOUS
    <3> DEFINE L == Labels
    <3>1. ahead # <<>> => Prompt(t, typed, L) /\ t.line_wrap = 0
      BY <1>1
    <3> HIDE DEF L
    <3> QED BY <1>1, <2>1, <2>3, <3>1, BackspaceAhead
  <2>6. Edited(t, u, typed) \in Seq(Keys \cup {MESSAGE})
    BY <1>1, FrontSeq DEF Edited
  <2>7. ahead' \in Seq(Keys \cup {MESSAGE, BLANK}) /\ (ahead' # <<>> => ahead # <<>>)
    <3> DEFINE A == Keys \cup {MESSAGE, BLANK}
    <3>1. A \cup {BLANK} = A
      OBVIOUS
    <3> HIDE DEF A
    <3>2. ahead \in Seq(A) /\ Rest(ahead) \in Seq(A)
      BY <1>1, RestSeq DEF A
    <3>3. \A b \in Seq(A) : <<BLANK>> \o b \in Seq(A)
      BY <3>1, BlankBefore
    <3>4. Kept(t, u, typed, ahead) \in Seq(A)
      BY <3>2, <3>3 DEF Kept
    <3>5. ahead = <<>> => Kept(t, u, typed, ahead) = <<>>
      BY DEF Kept
    <3> QED BY <2>3, <3>4, <3>5 DEF A
  <2> HIDE DEF u
  <2>8. HistoryTyped'
    BY <1>1, <2>3, <2>6, <2>7 DEF HistoryTyped
  <2>9. clean' => /\ Ahead(u, ahead') /\ (ahead' # <<>> => prompted' /\ u.line_wrap = 0)
                  /\ prompted' => Prompt(u, typed', Labels')
    BY <1>1, <2>3, <2>4, <2>5, <2>7
  <2> QED BY <1>2, <2>2, <2>3, <2>8, <2>9 DEF ScreenInv
<1>7. CASE key \notin Editing
  <2>1. u = PutChar(t, key) /\ key \in Keys \cup {MESSAGE}
    BY <1>7 DEF Pressed, Editing
  <2>2. /\ Typed(u)
        /\ Ahead(t, ahead) /\ t.column < VGA_WIDTH =>
             Ahead(u, Rest(ahead)) /\ (Rest(ahead) # <<>> => u.line_wrap = t.line_wrap)
    BY <1>1, <2>1, PutCharAhead
  <2>3. /\ typed' = Append(typed, key) /\ prompted' = prompted /\ ahead' = Rest(ahead)
        /\ clean' \in BOOLEAN /\ (clean' => up /\ t.column < VGA_WIDTH)
    BY <1>7 DEF Obey, Clears, Editing, Rest
  <2>4. prompted /\ up => Prompt(u, typed', Labels)
    BY <1>1, <2>1, <2>3, PutCharLine DEF Typing
  <2>5. Rest(ahead) \in Seq(Keys \cup {MESSAGE, BLANK}) /\ (Rest(ahead) # <<>> => ahead # <<>>)
    BY <1>1, RestSeq DEF Rest
  <2>6. Append(typed, key) \in Seq(Keys \cup {MESSAGE})
    BY <1>1, <2>1, AppendProperties
  <2> HIDE DEF u
  <2>7. HistoryTyped'
    BY <1>1, <2>3, <2>5, <2>6 DEF HistoryTyped
  <2>8. clean' => /\ Ahead(u, ahead') /\ (ahead' # <<>> => prompted' /\ u.line_wrap = 0)
                  /\ prompted' => Prompt(u, typed', Labels')
    BY <1>1, <2>2, <2>3, <2>4, <2>5
  <2> QED BY <1>2, <2>2, <2>3, <2>7, <2>8 DEF ScreenInv
<1> QED BY <1>3, <1>4, <1>5, <1>6, <1>7 DEF Editing

(* The line that a newline will parse is the prompt and what was written   *)
(* since, as edited by backspace, with what the label left behind it.      *)
LEMMA LineIsWrittenInv == ScreenInv /\ HistoryTyped => LineIsWritten
<1> DEFINE t == terminal
           line == typed \o ahead
           n == CMD_LABEL + Len(typed)
<1> SUFFICES ASSUME ScreenInv, HistoryTyped, OneRow
             PROVE  /\ t.column = n /\ CMD_LABEL + Len(line) <= VGA_WIDTH
                    /\ \A i \in 0..VGA_WIDTH - 1 :
                         \/ i < CMD_LABEL /\ RowCell(t, i) = "cmd:"
                         \/ i < CMD_LABEL /\ RowCell(t, i) = BLANK /\ LabelPending
                         \/ /\ i >= CMD_LABEL /\ i < CMD_LABEL + Len(line)
                            /\ RowCell(t, i) = line[i - CMD_LABEL + 1]
                         \/ i >= CMD_LABEL + Len(line) /\ RowCell(t, i) = BLANK
  BY DEF LineIsWritten
<1>1. /\ Typed(t) /\ Ahead(t, ahead) /\ Prompt(t, typed, Labels)
      /\ t.line_wrap = 0 /\ n <= VGA_WIDTH
  BY DEF ScreenInv, OneRow, OneLine
<1>2. /\ VGA_WIDTH \in Nat /\ CMD_LABEL \in Nat /\ VGA_WIDTH # 0
      /\ Len(typed) \in Nat /\ Len(ahead) \in Nat /\ Len(line) = Len(typed) + Len(ahead)
      /\ \A i \in 1..Len(typed) + Len(ahead) :
           line[i] = IF i <= Len(typed) THEN typed[i] ELSE ahead[i - Len(typed)]
  <2> DEFINE S == Keys \cup {MESSAGE, BLANK}
  <2>1. /\ typed \in Seq(Keys \cup {MESSAGE}) /\ ahead \in Seq(S)
    BY DEF HistoryTyped
  <2>2. Len(typed) \in Nat /\ Len(ahead) \in Nat /\ \A i \in 1..Len(typed) : typed[i] \in S
    BY <2>1, LenProperties, ElementOfSeq
  <2>3. typed \in Seq(S)
    BY <2>1, <2>2
  <2> HIDE DEF S
  <2>4. /\ Len(line) = Len(typed) + Len(ahead)
        /\ \A i \in 1..Len(typed) + Len(ahead) :
             line[i] = IF i <= Len(typed) THEN typed[i] ELSE ahead[i - Len(typed)]
    BY <2>1, <2>3, ConcatProperties
  <2> HIDE DEF line
  <2> QED BY <2>2, <2>4, Constants
<1> HIDE DEF line
<1>3. /\ Start(t) \in Nat /\ t.column \in Nat /\ SCREEN \in Nat
      /\ Start(t) + VGA_WIDTH <= SCREEN /\ Position(t) = Start(t) + t.column
  BY <1>1, Cursor
<1>a. VGA_WIDTH \in Nat /\ VGA_WIDTH # 0 /\ n \in Nat /\ n <= VGA_WIDTH /\ t.column \in Nat
  BY <1>1, <1>2, <1>3
<1>4. t.column = n
  <2>1. PICK k \in Nat : t.column + k * VGA_WIDTH = n /\ t.line_wrap = k % 256
    BY <1>1 DEF Prompt, Wraps
  <2>2. k # 1
    BY <1>1, <2>1
  <2>3. (k >= 2 => k * VGA_WIDTH >= 2 * VGA_WIDTH) /\ k * VGA_WIDTH \in Nat
    BY <1>a
  <2> HIDE DEF n
  <2>4. k = 0
    BY <1>a, <2>1, <2>2, <2>3
  <2>5. 0 * VGA_WIDTH = 0
    BY <1>a
  <2> QED BY <1>a, <2>1, <2>4, <2>5
<1>5. Position(t) = Start(t) + n
  BY <1>3, <1>4
<1>6. /\ CMD_LABEL + Len(line) = n + Len(ahead) /\ n + Len(ahead) <= VGA_WIDTH
      /\ BlankFrom(t, Position(t) + Len(ahead))
      /\ \A j \in 1..Len(ahead) : Cell(t, Position(t) + j - 1) = ahead[j]
  BY <1>1, <1>2, <1>4 DEF Ahead
<1>7. ASSUME NEW i \in 0..VGA_WIDTH - 1
      PROVE  \/ i < CMD_LABEL /\ RowCell(t, i) = "cmd:"
             \/ i < CMD_LABEL /\ RowCell(t, i) = BLANK /\ LabelPending
             \/ /\ i >= CMD_LABEL /\ i < CMD_LABEL + Len(line)
                /\ RowCell(t, i) = line[i - CMD_LABEL + 1]
             \/ i >= CMD_LABEL + Len(line) /\ RowCell(t, i) = BLANK
  <2>0. RowCell(t, i) = Cell(t, Start(t) + i)
    BY DEF RowCell, Start
  <2>1. CASE i < n
    <3> DEFINE j == i + 1
    <3>1. j \in 1..n /\ Position(t) - n + j - 1 = Start(t) + i /\ Start(t) + i >= 0
      <4>1. Start(t) \in Nat /\ i \in Nat
        BY <1>a, <1>3
      <4> HIDE DEF n
      <4> QED BY <1>a, <1>5, <2>1, <4>1
    <3>2. EndsAt(t, typed, Position(t), Labels)
      BY <1>1 DEF Prompt, LineEnds
    <3>3. RowCell(t, i) \in Shown(typed, j, Labels)
      BY <2>0, <3>1, <3>2 DEF EndsAt
    <3>4. CASE i < CMD_LABEL
      <4>1. j <= CMD_LABEL
        BY <1>2, <3>4
      <4>2. RowCell(t, i) \in Labels
        BY <3>3, <4>1 DEF Shown
      <4> QED BY <3>4, <4>2 DEF Labels
    <3>5. CASE ~ (i < CMD_LABEL)
      <4>1. ~ (j <= CMD_LABEL) /\ j - CMD_LABEL = i - CMD_LABEL + 1 /\ i >= CMD_LABEL
            /\ i < CMD_LABEL + Len(line) /\ i - CMD_LABEL + 1 \in 1..Len(typed) + Len(ahead)
            /\ i - CMD_LABEL + 1 <= Len(typed)
        BY <1>2, <1>6, <2>1, <3>5
      <4>2. RowCell(t, i) = typed[i - CMD_LABEL + 1]
        BY <3>3, <4>1 DEF Shown
      <4>3. line[i - CMD_LABEL + 1] = typed[i - CMD_LABEL + 1]
        BY <1>2, <4>1
      <4> QED BY <4>1, <4>2, <4>3
    <3> QED BY <3>4, <3>5
  <2>2. CASE i >= n /\ i < n + Len(ahead)
    <3> DEFINE j == i - n + 1
    <3>1. j \in 1..Len(ahead) /\ Position(t) + j - 1 = Start(t) + i
      BY <1>2, <1>3, <1>5, <2>2
    <3>2. RowCell(t, i) = ahead[j]
      BY <1>6, <2>0, <3>1
    <3>3. /\ i - CMD_LABEL + 1 \in 1..Len(typed) + Len(ahead)
          /\ ~ (i - CMD_LABEL + 1 <= Len(typed)) /\ i - CMD_LABEL + 1 - Len(typed) = j
          /\ i >= CMD_LABEL /\ i < CMD_LABEL + Len(line)
      BY <1>2, <1>6, <2>2
    <3>4. line[i - CMD_LABEL + 1] = ahead[j]
      BY <1>2, <3>3
    <3> QED BY <3>2, <3>3, <3>4
  <2>3. CASE i >= n + Len(ahead)
    <3>1. /\ Start(t) + i \in Nat /\ Start(t) + i < SCREEN
          /\ ~ (Start(t) + i < Position(t) + Len(ahead))
      BY <1>2, <1>3, <1>5, <2>3
    <3>2. Start(t) + i \notin DOMAIN t.screen
      BY <1>6, <3>1 DEF BlankFrom
    <3>3. RowCell(t, i) = BLANK
      BY <2>0, <3>2 DEF Cell
    <3> QED BY <1>6, <2>3, <3>3
  <2> QED BY <1>2, <2>1, <2>2, <2>3
<1> QED BY <1>4, <1>6, <1>7

(* The message of an interrupt without a driver, and its newline.          *)
LEMMA UnhandledIrqStep ==
  ASSUME ScreenInv, HistoryTyped, UnhandledIrq
  PROVE  ScreenInv' /\ HistoryTyped'
<1> DEFINE t == terminal
           u == PutChar(t, MESSAGE)
<1>1. Typed(t) /\ (clean /\ ~ Clearing => Ahead(t, ahead))
  BY DEF ScreenInv
<1>2. ahead \in Seq(Keys \cup {MESSAGE, BLANK})
  BY DEF HistoryTyped
<1>3. Typed(u) /\ (Ahead(t, ahead) /\ t.column < VGA_WIDTH => Ahead(u, Rest(ahead)))
  BY <1>1, <1>2, PutCharAhead
<1>4. Obey(u, "newline") /\ Clearing' = Clearing
  BY DEF UnhandledIrq, Interrupt, Clearing
<1>5. ASSUME clean, ~ Clearing, u.column <= VGA_WIDTH
      PROVE  BlankFrom(u, Start(u) + VGA_WIDTH)
  <2>1. /\ t.column \in Nat /\ VGA_WIDTH \in Nat /\ Len(ahead) \in Nat
        /\ Rest(ahead) \in Seq(Keys \cup {MESSAGE, BLANK})
    BY <1>1, <1>2, Cursor, RestSeq
  <2>2. t.column <= VGA_WIDTH
    BY <1>1, <1>5, <2>1 DEF Ahead
  <2>3. t.column # VGA_WIDTH
    <3> SUFFICES ASSUME t.column = VGA_WIDTH PROVE FALSE
      OBVIOUS
    <3>1. t.column + 1 # VGA_WIDTH
      BY <2>1
    <3>2. u = Next1(t, MESSAGE)
      BY <1>1, <3>1, PutCharCases
    <3>3. u.column = t.column + 1
      BY <1>1, <3>2, Next1Cells
    <3> QED BY <1>5, <2>1, <3>3
  <2>4. Ahead(u, Rest(ahead))
    BY <1>1, <1>3, <1>5, <2>1, <2>2, <2>3
  <2> HIDE DEF u
  <2> QED BY <1>3, <2>1, <2>4, AheadBlank
<1> HIDE DEF u
<1> QED BY <1>3, <1>4, <1>5, ObeyNewline

(* splash_screen clears a row.                                             *)
LEMMA SplashClearLineStep ==
  ASSUME ScreenInv, HistoryTyped, next \in Nat, SplashClearLine
  PROVE  ScreenInv' /\ HistoryTyped'
<1> DEFINE t == terminal
           others == {i \in DOMAIN t.screen : i < next * VGA_WIDTH \/ i >= (next + 1) * VGA_WIDTH}
           cell == [i \in others |-> t.screen[i]]
           u == [t EXCEPT !.screen = cell]
<1>1. /\ terminal' = u /\ prompted' = FALSE /\ clean' = (next = 0 \/ clean)
      /\ typed' = typed /\ ahead' = ahead /\ main' = main /\ next' = next + 1
      /\ main \in {"clear", "clear again"} /\ next < VGA_HEIGHT
  BY DEF SplashClearLine, ClearLine, Show, Goto
<1>2. Typed(t) /\ (clean /\ Clearing => ClearedTo(t, next))
  BY DEF ScreenInv
<1>3. /\ u.row = t.row /\ u.column = t.column /\ u.cmd_offset = t.cmd_offset
      /\ u.line_wrap = t.line_wrap /\ u.screen = cell /\ u.low = t.low /\ DOMAIN u = DOMAIN t
  BY <1>2 DEF Typed
<1>4. DOMAIN cell = others /\ others \subseteq DOMAIN t.screen
  OBVIOUS
<1>5. Typed(u)
  BY <1>2, <1>3, <1>4 DEF Typed
<1>6. Clearing'
  <2>1. next + 1 > 0
    OBVIOUS
  <2> QED BY <1>1, <2>1 DEF Clearing
<1>7. next = 0 \/ clean => ClearedTo(u, next + 1)
  <2> SUFFICES ASSUME next = 0 \/ clean, NEW i \in DOMAIN u.screen, i < SCREEN
               PROVE  i >= (next + 1) * VGA_WIDTH
    BY DEF ClearedTo
  <2>1. i \in DOMAIN t.screen /\ (i < next * VGA_WIDTH \/ i >= (next + 1) * VGA_WIDTH)
    BY <1>3, <1>4
  <2>2. i \in Nat /\ VGA_WIDTH \in Nat /\ next * VGA_WIDTH \in Nat /\ 0 * VGA_WIDTH = 0
    BY <1>2, <2>1, Constants DEF Typed
  <2>3. CASE next = 0
    BY <2>1, <2>2, <2>3
  <2>4. CASE next # 0
    <3>1. Clearing
      <4>1. next > 0
        BY <2>4
      <4> QED BY <1>1, <4>1 DEF Clearing
    <3>2. i >= next * VGA_WIDTH
      BY <1>2, <2>1, <2>4, <3>1 DEF ClearedTo
    <3> QED BY <2>1, <2>2, <3>2
  <2> QED BY <2>3, <2>4
<1> HIDE DEF u
<1>8. HistoryTyped'
  BY <1>1 DEF HistoryTyped
<1> QED BY <1>1, <1>5, <1>6, <1>7, <1>8 DEF ScreenInv

(* And puts the cursor on the cleared screen.                              *)
LEMMA SplashHomeStep ==
  ASSUME ScreenInv, HistoryTyped, SplashHome
  PROVE  ScreenInv' /\ HistoryTyped'
<1> DEFINE t == terminal
           u == Home(t)
<1>1. /\ terminal' = u /\ typed' = <<>> /\ ahead' = <<>> /\ clean' = clean
      /\ prompted' = (t.cmd_offset # 0 /\ t.line_wrap = 0)
      /\ main \in {"clear", "clear again"} /\ main' \in {"text_mode", "label"}
      /\ next = VGA_HEIGHT
  BY DEF SplashHome, Goto
<1>2. Clearing /\ ~ Clearing' /\ LabelPending'
  <2>1. next = VGA_HEIGHT
    BY <1>1
  <2>2. next > 0
    BY <2>1, Constants
  <2> QED BY <1>1, <2>2 DEF Clearing, LabelPending
<1>3. Typed(t) /\ (clean => ClearedTo(t, VGA_HEIGHT))
  BY <1>1, <1>2 DEF ScreenInv
<1>4. /\ u.row = 0 /\ u.column = t.cmd_offset /\ u.cmd_offset = t.cmd_offset
      /\ u.line_wrap = t.line_wrap /\ u.screen = t.screen /\ u.low = t.low
      /\ DOMAIN u = DOMAIN t
  BY <1>3 DEF Home, Typed
<1>5. Typed(u)
  BY <1>3, <1>4, Constants DEF Typed
<1> HIDE DEF u
<1>6. /\ VGA_WIDTH \in Nat /\ VGA_HEIGHT \in Nat /\ CMD_LABEL \in Nat /\ CMD_LABEL <= VGA_WIDTH
      /\ SCREEN \in Nat /\ SCREEN = VGA_HEIGHT * VGA_WIDTH
      /\ CMD_LABEL < VGA_WIDTH /\ VGA_WIDTH <= SCREEN
  <2>1. /\ VGA_WIDTH \in Nat /\ VGA_HEIGHT \in Nat /\ CMD_LABEL \in Nat /\ CMD_LABEL < VGA_WIDTH
    BY Constants
  <2>2. SCREEN = VGA_HEIGHT * VGA_WIDTH
    BY <2>1 DEF SCREEN
  <2>3. SCREEN \in Nat /\ 0 + VGA_WIDTH <= SCREEN
    <3>1. Start(u) = 0
      BY <1>4, <2>1 DEF Start
    <3> QED BY <1>5, <3>1, Cursor
  <2> QED BY <2>1, <2>2, <2>3
<1>7. ASSUME clean, NEW i \in DOMAIN u.screen PROVE ~ (i < SCREEN)
  <2>1. i \in Nat /\ (i < SCREEN => i >= VGA_HEIGHT * VGA_WIDTH)
    BY <1>3, <1>4, <1>7 DEF ClearedTo, Typed
  <2> QED BY <1>6, <2>1
<1>8. clean => AtEnd(u)
  <2>1. u.column <= VGA_WIDTH
    BY <1>3, <1>4, <1>6 DEF Typed
  <2> QED BY <1>7, <2>1 DEF AtEnd, BlankFrom
<1>9. clean /\ prompted' => Prompt(u, <<>>, Labels')
  <2> SUFFICES ASSUME clean, prompted' PROVE Prompt(u, <<>>, Labels')
    OBVIOUS
  <2>1. u.cmd_offset = CMD_LABEL /\ u.column = CMD_LABEL /\ u.line_wrap = 0
    BY <1>1, <1>3, <1>4 DEF Typed
  <2>2. Len(<<>>) = 0 /\ CMD_LABEL + 0 = CMD_LABEL /\ CMD_LABEL + 0 * VGA_WIDTH = CMD_LABEL
        /\ 0 % 256 = 0 /\ 0 \in Nat
    BY <1>6
  <2>3. Wraps(u, <<>>)
    BY <2>1, <2>2 DEF Wraps
  <2>4. Position(u) = CMD_LABEL
    BY <1>4, <1>6, <2>1 DEF Position, Start
  <2>5. ASSUME NEW j \in 1..CMD_LABEL
        PROVE  Cell(u, CMD_LABEL - CMD_LABEL + j - 1) \in Shown(<<>>, j, Labels')
    <3> DEFINE i == CMD_LABEL - CMD_LABEL + j - 1
    <3>1. i \in Nat /\ i < SCREEN /\ j <= CMD_LABEL
      BY <1>6
    <3>2. i \notin DOMAIN u.screen
      BY <1>7, <3>1
    <3>3. Cell(u, i) = BLANK
      BY <3>2 DEF Cell
    <3>4. BLANK \in Labels'
      BY <1>2 DEF Labels
    <3> QED BY <3>1, <3>3, <3>4 DEF Shown
  <2>6. LineEnds(u, <<>>, Labels')
    BY <2>2, <2>4, <2>5 DEF LineEnds, EndsAt
  <2> QED BY <2>1, <2>3, <2>6 DEF Prompt
<1>10. clean => Ahead(u, <<>>)
  BY <1>5, <1>8, AheadNothing
<1>11. HistoryTyped'
  <2>1. prompted' \in BOOLEAN /\ typed' = <<>> /\ ahead' = <<>>
    BY <1>1
  <2>2. clean' \in BOOLEAN
    BY <1>1 DEF HistoryTyped
  <2> QED BY <2>1, <2>2 DEF HistoryTyped
<1>12. clean' => Ahead(terminal', ahead') /\ (prompted' => Prompt(terminal', typed', Labels'))
  BY <1>1, <1>9, <1>10
<1>13. Typed(terminal') /\ ahead' = <<>>
  BY <1>1, <1>5
<1> QED BY <1>2, <1>11, <1>12, <1>13 DEF ScreenInv

(* splash_screen changes the mode.                                         *)
LEMMA SplashModeStep ==
  ASSUME ScreenInv, HistoryTyped, LoopInv, SplashMode
  PROVE  ScreenInv' /\ HistoryTyped'
<1>1. /\ terminal' \in {TextMode(terminal), CmdMode(terminal)} /\ prompted' = FALSE
      /\ clean' = clean /\ typed' = typed /\ ahead' = ahead /\ next' = next
      /\ main \in {"text_mode", "cmd_mode"}
  BY DEF SplashMode, Goto
<1>2. ahead = <<>> /\ next = 0 /\ ~ Clearing
  BY <1>1 DEF LoopInv, Clearing
<1>3. ~ Clearing'
  BY <1>1, <1>2 DEF Clearing
<1>4. Typed(terminal) /\ (clean => AtEnd(terminal))
  BY <1>2, AheadNothing DEF ScreenInv
<1>5. Typed(terminal') /\ (AtEnd(terminal) => AtEnd(terminal'))
  BY <1>1, <1>4, Modes
<1>6. clean' => Ahead(terminal', <<>>)
  BY <1>1, <1>4, <1>5, AheadNothing
<1>7. HistoryTyped'
  BY <1>1 DEF HistoryTyped
<1> QED BY <1>1, <1>2, <1>3, <1>5, <1>6, <1>7 DEF ScreenInv

(* splash_screen's label, which may come behind one that End has put there *)
(* and over the beginning of a line: what was written of that lies ahead.  *)
LEMMA SplashLabelStep ==
  ASSUME ScreenInv, HistoryTyped, LoopInv, SplashLabel
  PROVE  ScreenInv' /\ HistoryTyped'
<1> DEFINE t == terminal
           u == CmdLabel(t)
<1>1. /\ terminal' = u /\ typed' = <<>> /\ prompted' = OneLine /\ clean' = (clean /\ OneLine)
      /\ ahead' = IF OneLine THEN typed ELSE <<>>
      /\ main = "label" /\ main' = "bsy_loop"
  BY DEF SplashLabel, Goto
<1>2. ahead = <<>> /\ ~ Clearing /\ ~ Clearing' /\ "cmd:" \in Labels'
  BY <1>1 DEF LoopInv, Clearing, Labels
<1>3. /\ Typed(t)
      /\ clean => Ahead(t, <<>>) /\ (prompted => Prompt(t, typed, Labels))
      /\ typed \in Seq(Keys \cup {MESSAGE}) /\ prompted \in BOOLEAN /\ clean \in BOOLEAN
  BY <1>2 DEF ScreenInv, HistoryTyped
<1>4. /\ Typed(u) /\ Labelled(u) /\ u.cmd_offset = t.cmd_offset /\ u.line_wrap = t.line_wrap
      /\ Start(u) = Start(t)
      /\ \A i \in Nat : i >= Start(t) + CMD_LABEL => Cell(u, i) = Cell(t, i)
      /\ \A q \in Nat : q >= Start(t) + CMD_LABEL /\ BlankFrom(t, q) => BlankFrom(u, q)
  BY <1>3, CmdLabelCells
<1> HIDE DEF u
<1>5. ASSUME clean, OneLine
      PROVE  /\ Ahead(u, typed) /\ u.line_wrap = 0
             /\ Prompt(u, <<>>, Labels')
  <2>1. /\ Prompt(t, typed, Labels) /\ Ahead(t, <<>>) /\ t.line_wrap = 0
        /\ CMD_LABEL + Len(typed) <= VGA_WIDTH
    BY <1>3, <1>5 DEF OneLine
  <2>2. t.cmd_offset # 0
    BY <2>1, Constants DEF Prompt
  <2>3. Prompt(u, <<>>, Labels')
    BY <1>2, <1>4, <2>1, <2>2, PromptEmpty
  <2>4. t.column = CMD_LABEL + Len(typed)
    <3>1. OneRow
      BY <1>5 DEF OneRow
    <3> QED BY <3>1, LineIsWrittenInv DEF LineIsWritten
  <2>5. /\ Start(t) \in Nat /\ CMD_LABEL \in Nat /\ Len(typed) \in Nat
        /\ Position(t) = Start(t) + t.column /\ Position(t) \in Nat
        /\ u.column = CMD_LABEL /\ Position(u) = Start(t) + CMD_LABEL
    <3>1. Start(t) \in Nat /\ Position(t) = Start(t) + t.column /\ Position(t) \in Nat
      BY <1>3, Cursor
    <3>2. u.column = CMD_LABEL
      BY <1>4 DEF Labelled
    <3>3. Position(u) = Start(t) + CMD_LABEL
      BY <1>4, <3>2 DEF Position
    <3>4. CMD_LABEL \in Nat /\ Len(typed) \in Nat
      BY <1>3, Constants, LenProperties
    <3> QED BY <3>1, <3>2, <3>3, <3>4
  <2>6. BlankFrom(t, Position(t))
    BY <1>3, <2>1, AheadNothing DEF AtEnd
  <2>7. BlankFrom(u, Position(u) + Len(typed))
    <3>1. Position(u) + Len(typed) = Position(t) /\ Position(t) >= Start(t) + CMD_LABEL
      BY <2>4, <2>5
    <3> QED BY <1>4, <2>5, <2>6, <3>1
  <2>8. ASSUME NEW j \in 1..Len(typed)
        PROVE  Cell(u, Position(u) + j - 1) = typed[j]
    <3> DEFINE i == Start(t) + CMD_LABEL + j - 1
               n == CMD_LABEL + Len(typed)
               k == CMD_LABEL + j
    <3>1. /\ Position(u) + j - 1 = i /\ i \in Nat /\ i >= Start(t) + CMD_LABEL
          /\ k \in 1..n /\ Position(t) - n + k - 1 = i /\ i >= 0
          /\ ~ (k <= CMD_LABEL) /\ k - CMD_LABEL = j
      BY <2>4, <2>5
    <3>2. EndsAt(t, typed, Position(t), Labels)
      BY <2>1 DEF Prompt, LineEnds
    <3>3. Cell(t, i) \in Shown(typed, k, Labels)
      BY <3>1, <3>2 DEF EndsAt
    <3>4. Cell(t, i) = typed[j]
      BY <3>1, <3>3 DEF Shown
    <3> QED BY <1>4, <3>1, <3>4
  <2> QED BY <1>4, <2>1, <2>3, <2>5, <2>7, <2>8 DEF Ahead
<1>6. HistoryTyped'
  <2>1. typed \in Seq(Keys \cup {MESSAGE, BLANK})
    <3>1. Len(typed) \in Nat /\ \A i \in 1..Len(typed) : typed[i] \in Keys \cup {MESSAGE, BLANK}
      BY <1>3, LenProperties, ElementOfSeq
    <3> QED BY <1>3, <3>1
  <2>2. OneLine \in BOOLEAN
    BY <1>3 DEF OneLine
  <2>3. prompted' \in BOOLEAN /\ clean' \in BOOLEAN
    BY <1>1, <1>3, <2>2
  <2>4. ahead' \in Seq(Keys \cup {MESSAGE, BLANK}) /\ typed' \in Seq(Keys \cup {MESSAGE})
    BY <1>1, <2>1
  <2> QED BY <2>3, <2>4 DEF HistoryTyped
<1>7. clean' => /\ Ahead(terminal', ahead')
                /\ prompted' /\ terminal'.line_wrap = 0
                /\ Prompt(terminal', typed', Labels')
  BY <1>1, <1>5
<1>8. Typed(terminal')
  BY <1>1, <1>4
<1> QED BY <1>2, <1>6, <1>7, <1>8 DEF ScreenInv

(* The invariant from its parts, of a state and of the next one.           *)
Mains == {"fpc_init", "clear", "text_mode", "print", "poll", "cmd_mode", "clear again",
          "label", "bsy_loop"}
LEMMA TInvParts ==
  ASSUME main \in Mains, next \in Nat, irqs \in 0..MaxIrqs, HistoryTyped, ScreenInv, LoopInv
  PROVE  TInv
<1>1. /\ terminal.row \in 0..VGA_HEIGHT - 1 /\ terminal.column \in Nat
      /\ terminal.cmd_offset \in {0, CMD_LABEL} /\ terminal.line_wrap \in 0..255
      /\ DOMAIN terminal.screen \subseteq Nat /\ DOMAIN terminal.low = 0..VGA_WIDTH - 1
  BY DEF ScreenInv, Typed, LowMemory
<1> QED BY <1>1 DEF TInv, TypeOK, HistoryTyped, Mains
LEMMA TInvPartsNext ==
  ASSUME main' \in Mains, next' \in Nat, irqs' \in 0..MaxIrqs, HistoryTyped', ScreenInv', LoopInv'
  PROVE  TInv'
<1>1. /\ terminal'.row \in 0..VGA_HEIGHT - 1 /\ terminal'.column \in Nat
      /\ terminal'.cmd_offset \in {0, CMD_LABEL} /\ terminal'.line_wrap \in 0..255
      /\ DOMAIN terminal'.screen \subseteq Nat /\ DOMAIN terminal'.low = 0..VGA_WIDTH - 1
  BY DEF ScreenInv, Typed, LowMemory
<1> QED BY <1>1 DEF TInv, TypeOK, HistoryTyped, Mains

(* fpc_init has not ended, but keys may have come before.                  *)
LEMMA TInvInit == Init => TInv
<1> SUFFICES ASSUME Init PROVE TInv
  OBVIOUS
<1>1. PICK offset \in {0, CMD_LABEL}, wraps \in EarlyWraps, low \in Lows :
        terminal = [row |-> 0, column |-> offset, cmd_offset |-> offset, line_wrap |-> wraps,
                    screen |-> [i \in 0..SCREEN - 1 |-> MESSAGE], low |-> low]
  BY DEF Init
<1>2. /\ terminal.row = 0 /\ terminal.column = offset /\ terminal.cmd_offset = offset
      /\ terminal.line_wrap = wraps /\ DOMAIN terminal.screen = 0..SCREEN - 1
      /\ terminal.low = low
      /\ DOMAIN terminal = {"row", "column", "cmd_offset", "line_wrap", "screen", "low"}
  BY <1>1
<1>3. wraps \in 0..255 /\ MaxIrqs \in Nat
  BY TerminalAssumption
<1>4. LowMemory(low)
  BY DEF Lows, LowMemory
<1>5. 0..SCREEN - 1 \subseteq Nat
  BY Constants DEF SCREEN
<1>6. offset \in Nat /\ 0 \in 0..VGA_HEIGHT - 1
  BY Constants
<1>7. Typed(terminal)
  <2>1. terminal.row \in 0..VGA_HEIGHT - 1 /\ terminal.column \in Nat
    BY <1>2, <1>6
  <2>2. terminal.cmd_offset \in {0, CMD_LABEL} /\ terminal.line_wrap \in 0..255
    BY <1>2, <1>3
  <2>3. DOMAIN terminal.screen \subseteq Nat
    BY <1>2, <1>5
  <2>4. LowMemory(terminal.low)
    BY <1>2, <1>4
  <2> QED BY <1>2, <2>1, <2>2, <2>3, <2>4 DEF Typed
<1>8. ScreenInv /\ HistoryTyped
  <2>1. prompted = FALSE /\ typed = <<>> /\ ahead = <<>> /\ clean = FALSE
    BY DEF Init
  <2>2. typed \in Seq(Keys \cup {MESSAGE}) /\ ahead \in Seq(Keys \cup {MESSAGE, BLANK})
    BY <2>1, EmptySeq
  <2>3. ScreenInv
    BY <1>7, <2>1 DEF ScreenInv
  <2> QED BY <2>1, <2>2, <2>3 DEF HistoryTyped
<1>9. LoopInv
  BY DEF Init, LoopInv
<1>10. main \in Mains /\ next \in Nat
  BY DEF Init, Mains
<1>11. irqs \in 0..MaxIrqs
  BY <1>3 DEF Init
<1> QED BY <1>8, <1>9, <1>10, <1>11, TInvParts

(* Main does not move.                                                     *)
LEMMA LoopStays ==
  ASSUME LoopInv, main' = main, next' = next, ahead = <<>> => ahead' = <<>>
  PROVE  LoopInv'
<1>1. RowsLeft' = RowsLeft /\ CharactersLeft' = CharactersLeft
  BY DEF RowsLeft, CharactersLeft
<1> QED BY <1>1 DEF LoopInv

(* A character of nothing ahead leaves nothing ahead.                      *)
LEMMA ObeyAhead ==
  ASSUME NEW t, NEW key, Obey(t, key), ahead = <<>>
  PROVE  ahead' = <<>>
BY DEF Obey

(* A key, a message or a call of splash_screen's.                          *)
LEMMA TInvStep == TInv /\ [Next]_vars => TInv'
<1> SUFFICES ASSUME TInv, [Next]_vars PROVE TInv'
  OBVIOUS
<1>0. ScreenInv /\ HistoryTyped /\ LoopInv
  BY DEF TInv, TypeOK, HistoryTyped
<1>main. main \in Mains
  BY DEF TInv, TypeOK, Mains
<1>next. next \in Nat
  BY DEF TInv, TypeOK
<1>irqs. irqs \in 0..MaxIrqs /\ MaxIrqs \in Nat
  BY TerminalAssumption DEF TInv, TypeOK
<1>1. ASSUME Interrupt PROVE main' = main /\ next' = next /\ irqs' \in 0..MaxIrqs
  <2>1. main' = main /\ next' = next /\ irqs' = irqs + 1 /\ irqs < MaxIrqs
    BY <1>1 DEF Interrupt
  <2>2. irqs < MaxIrqs
    BY <2>1
  <2>3. irqs + 1 \in 0..MaxIrqs
    BY <1>irqs, <2>2
  <2> QED BY <2>1, <2>3
<1>2. ASSUME NEW key \in Keys, Key(key) PROVE TInv'
  <2>1. Interrupt /\ Obey(terminal, key)
    BY <1>2 DEF Key
  <2>2. main' = main /\ next' = next /\ irqs' \in 0..MaxIrqs
    BY <1>1, <2>1
  <2>3. Clearing' = Clearing /\ Labels' = Labels
    BY <2>2 DEF Clearing, Labels, LabelPending
  <2>4. ScreenInv' /\ HistoryTyped'
    BY <1>0, <2>1, <2>3, ObeyStep
  <2>5. LoopInv'
    BY <1>0, <2>1, <2>2, ObeyAhead, LoopStays
  <2> QED BY <1>main, <1>next, <2>2, <2>4, <2>5, TInvPartsNext
<1>3. CASE UnhandledIrq
  <2>1. Interrupt /\ Obey(PutChar(terminal, MESSAGE), "newline")
    BY <1>3 DEF UnhandledIrq
  <2>2. main' = main /\ next' = next /\ irqs' \in 0..MaxIrqs
    BY <1>1, <2>1
  <2>3. ScreenInv' /\ HistoryTyped'
    BY <1>0, <1>3, UnhandledIrqStep
  <2>4. LoopInv'
    BY <1>0, <2>1, <2>2, ObeyAhead, LoopStays
  <2> QED BY <1>main, <1>next, <2>2, <2>3, <2>4, TInvPartsNext
<1>4. CASE FpcInitError
  <2>1. /\ Obey(terminal, MESSAGE) /\ main = "fpc_init" /\ main' = "fpc_init"
        /\ next' = next + 1 /\ irqs' = irqs
    BY <1>4 DEF FpcInitError, Goto
  <2>2. Clearing' = Clearing /\ Labels' = Labels
    BY <2>1 DEF Clearing, Labels, LabelPending
  <2>3. ScreenInv' /\ HistoryTyped'
    BY <1>0, <2>1, <2>2, ObeyStep
  <2>4. next' \in Nat
    <3>1. next + 1 \in Nat
      BY <1>next
    <3> QED BY <2>1, <3>1
  <2>5. LoopInv'
    <3>1. ahead' = <<>>
      BY <1>0, <2>1, ObeyAhead DEF LoopInv
    <3> QED BY <2>1, <3>1 DEF LoopInv
  <2> QED BY <1>main, <1>irqs, <2>1, <2>3, <2>4, <2>5, TInvPartsNext
<1>5. CASE FpcInitEnd
  <2>1. /\ main = "fpc_init" /\ main' = "clear" /\ next' = 0 /\ irqs' = irqs
        /\ terminal' = terminal /\ prompted' = prompted /\ typed' = typed
        /\ ahead' = ahead /\ clean' = clean
    BY <1>5 DEF FpcInitEnd, Goto, history
  <2>2. ~ Clearing /\ ~ Clearing' /\ Labels' = Labels
    BY <2>1 DEF Clearing, Labels, LabelPending
  <2>3. ScreenInv' /\ HistoryTyped'
    BY <1>0, <2>1, <2>2 DEF ScreenInv, HistoryTyped
  <2>4. LoopInv'
    <3>1. RowsLeft'
      <4>1. 0 <= VGA_HEIGHT
        BY Constants
      <4> QED BY <2>1, <4>1 DEF RowsLeft
    <3>2. ahead' = <<>>
      BY <1>0, <2>1 DEF LoopInv
    <3> QED BY <2>1, <3>1, <3>2 DEF LoopInv
  <2>5. main' \in Mains /\ next' \in Nat /\ irqs' \in 0..MaxIrqs
    <3>1. main' \in Mains
      BY <2>1 DEF Mains
    <3>2. next' \in Nat
      BY <2>1
    <3>3. irqs' \in 0..MaxIrqs
      BY <1>irqs, <2>1
    <3> QED BY <3>1, <3>2, <3>3
  <2> QED BY <2>3, <2>4, <2>5, TInvPartsNext
<1>6. CASE SplashClearLine
  <2>1. /\ main \in {"clear", "clear again"} /\ main' = main /\ ahead' = ahead /\ irqs' = irqs
        /\ next' = next + 1 /\ next < VGA_HEIGHT
    <3>1. /\ (main = "clear" /\ main' = "clear") \/ (main = "clear again" /\ main' = "clear again")
          /\ ahead' = ahead /\ irqs' = irqs /\ next' = next + 1 /\ next < VGA_HEIGHT
      BY <1>6 DEF SplashClearLine, Goto
    <3>2. main \in {"clear", "clear again"} /\ main' = main
      BY <3>1
    <3> QED BY <3>1, <3>2
  <2>2. ScreenInv' /\ HistoryTyped'
    BY <1>0, <1>next, <1>6, SplashClearLineStep
  <2>3. next' \in Nat /\ RowsLeft'
    <3>1. next \in Nat /\ next < VGA_HEIGHT /\ next' = next + 1
      BY <1>next, <2>1
    <3>2. next + 1 \in Nat /\ next + 1 <= VGA_HEIGHT
      BY <3>1, Constants
    <3> QED BY <3>1, <3>2 DEF RowsLeft
  <2>4. LoopInv'
    <3>1. ahead' = <<>>
      BY <1>0, <2>1 DEF LoopInv
    <3> QED BY <2>1, <2>3, <3>1 DEF LoopInv
  <2> QED BY <1>main, <1>irqs, <2>1, <2>2, <2>3, <2>4, TInvPartsNext
<1>7. CASE SplashHome
  <2>1. /\ main' \in {"text_mode", "label"} /\ next' = 0 /\ ahead' = <<>> /\ irqs' = irqs
    BY <1>7 DEF SplashHome, Goto
  <2>2. ScreenInv' /\ HistoryTyped'
    BY <1>0, <1>7, SplashHomeStep
  <2>3. LoopInv'
    BY <2>1 DEF LoopInv
  <2>4. main' \in Mains /\ next' \in Nat /\ irqs' \in 0..MaxIrqs
    <3>1. main' \in Mains
      BY <2>1 DEF Mains
    <3>2. next' \in Nat
      BY <2>1
    <3>3. irqs' \in 0..MaxIrqs
      BY <1>irqs, <2>1
    <3> QED BY <3>1, <3>2, <3>3
  <2> QED BY <2>2, <2>3, <2>4, TInvPartsNext
<1>8. CASE SplashMode
  <2>1. /\ main \in {"text_mode", "cmd_mode"} /\ main' \in {"print", "clear again"}
        /\ next' = next /\ ahead' = ahead /\ irqs' = irqs
    BY <1>8 DEF SplashMode, Goto
  <2>2. ScreenInv' /\ HistoryTyped'
    BY <1>0, <1>8, SplashModeStep
  <2>3. LoopInv'
    <3>1. next = 0 /\ ahead = <<>>
      BY <1>0, <2>1 DEF LoopInv
    <3>2. Len(Splash) \in Nat /\ Len(Splash) # 0
      BY TerminalAssumption, LenProperties, EmptySeq
    <3>3. 0 <= VGA_HEIGHT /\ 0 < Len(Splash)
      BY <3>2, Constants
    <3>4. next' = 0 /\ ahead' = <<>>
      BY <2>1, <3>1
    <3>5. RowsLeft' /\ CharactersLeft'
      BY <3>3, <3>4 DEF RowsLeft, CharactersLeft
    <3> QED BY <2>1, <3>4, <3>5 DEF LoopInv
  <2>4. main' \in Mains /\ next' \in Nat /\ irqs' \in 0..MaxIrqs
    <3>1. main' \in Mains
      BY <2>1 DEF Mains
    <3>2. next' \in Nat
      BY <1>next, <2>1
    <3>3. irqs' \in 0..MaxIrqs
      BY <1>irqs, <2>1
    <3> QED BY <3>1, <3>2, <3>3
  <2> QED BY <2>2, <2>3, <2>4, TInvPartsNext
<1>9. CASE SplashPrint
  <2> DEFINE key == Splash[next + 1]
             last == next + 1 = Len(Splash)
  <2>1. /\ Obey(terminal, key) /\ main = "print" /\ irqs' = irqs
        /\ main' = IF last THEN "poll" ELSE "print"
        /\ next' = IF last THEN 0 ELSE next + 1
    BY <1>9 DEF SplashPrint, Goto
  <2>2. next < Len(Splash) /\ Len(Splash) \in Nat
    <3>1. CharactersLeft
      BY <1>0, <2>1 DEF LoopInv
    <3> QED BY <3>1, TerminalAssumption, LenProperties DEF CharactersLeft
  <2>3. next + 1 \in 1..Len(Splash)
    BY <1>next, <2>2
  <2>4. key \in Keys \cup Editing \cup {MESSAGE}
    <3>1. key \in {"newline", "tab", MESSAGE}
      BY <2>3, TerminalAssumption, ElementOfSeq
    <3> QED BY <3>1 DEF Editing
  <2> HIDE DEF key
  <2>5. Clearing' = Clearing /\ Labels' = Labels
    BY <2>1 DEF Clearing, Labels, LabelPending
  <2>6. ScreenInv' /\ HistoryTyped'
    BY <1>0, <2>1, <2>4, <2>5, ObeyStep
  <2>7. ahead' = <<>>
    BY <1>0, <2>1, ObeyAhead DEF LoopInv
  <2>8. /\ next' \in Nat /\ main' \in {"print", "poll"}
        /\ main' = "poll" => next' = 0
        /\ main' = "print" => CharactersLeft'
    <3>1. CASE last
      BY <2>1, <3>1
    <3>2. CASE ~ last
      <4>1. next' = next + 1 /\ main' = "print"
        BY <2>1, <3>2
      <4>2. next + 1 # Len(Splash)
        BY <3>2
      <4>3. next + 1 \in Nat /\ next + 1 < Len(Splash)
        BY <1>next, <2>2, <4>2
      <4> QED BY <4>1, <4>3 DEF CharactersLeft
    <3> QED BY <3>1, <3>2
  <2>9. LoopInv'
    BY <2>7, <2>8 DEF LoopInv
  <2>10. main' \in Mains /\ next' \in Nat /\ irqs' \in 0..MaxIrqs
    <3>1. main' \in Mains
      BY <2>8 DEF Mains
    <3>2. next' \in Nat
      BY <2>8
    <3>3. irqs' \in 0..MaxIrqs
      BY <1>irqs, <2>1
    <3> QED BY <3>1, <3>2, <3>3
  <2> QED BY <2>6, <2>9, <2>10, TInvPartsNext
<1>10. CASE SplashPoll
  <2>1. /\ main = "poll" /\ main' = "cmd_mode" /\ next' = next /\ irqs' = irqs
        /\ terminal' = terminal /\ prompted' = prompted /\ typed' = typed
        /\ ahead' = ahead /\ clean' = clean
    BY <1>10 DEF SplashPoll, Goto, history
  <2>2. ~ Clearing /\ ~ Clearing' /\ Labels' = Labels
    BY <2>1 DEF Clearing, Labels, LabelPending
  <2>3. ScreenInv' /\ HistoryTyped'
    BY <1>0, <2>1, <2>2 DEF ScreenInv, HistoryTyped
  <2>4. LoopInv'
    <3>1. next' = 0 /\ ahead' = <<>>
      BY <1>0, <2>1 DEF LoopInv
    <3> QED BY <2>1, <3>1 DEF LoopInv
  <2>5. main' \in Mains /\ next' \in Nat /\ irqs' \in 0..MaxIrqs
    <3>1. main' \in Mains
      BY <2>1 DEF Mains
    <3>2. next' \in Nat
      BY <1>next, <2>1
    <3>3. irqs' \in 0..MaxIrqs
      BY <1>irqs, <2>1
    <3> QED BY <3>1, <3>2, <3>3
  <2> QED BY <2>3, <2>4, <2>5, TInvPartsNext
<1>11. CASE SplashLabel
  <2>1. main = "label" /\ main' = "bsy_loop" /\ next' = next /\ irqs' = irqs
    BY <1>11 DEF SplashLabel, Goto
  <2>2. ScreenInv' /\ HistoryTyped'
    BY <1>0, <1>11, SplashLabelStep
  <2>3. LoopInv'
    <3>1. next' = 0
      BY <1>0, <2>1 DEF LoopInv
    <3> QED BY <2>1, <3>1 DEF LoopInv
  <2>4. main' \in Mains /\ next' \in Nat /\ irqs' \in 0..MaxIrqs
    <3>1. main' \in Mains
      BY <2>1 DEF Mains
    <3>2. next' \in Nat
      BY <1>next, <2>1
    <3>3. irqs' \in 0..MaxIrqs
      BY <1>irqs, <2>1
    <3> QED BY <3>1, <3>2, <3>3
  <2> QED BY <2>2, <2>3, <2>4, TInvPartsNext
<1>12. CASE UNCHANGED vars
  <2>1. /\ main' = main /\ next' = next /\ irqs' = irqs
        /\ terminal' = terminal /\ prompted' = prompted /\ typed' = typed
        /\ ahead' = ahead /\ clean' = clean
    BY <1>12 DEF vars, history
  <2>2. Clearing' = Clearing /\ Labels' = Labels
    BY <2>1 DEF Clearing, Labels, LabelPending
  <2>3. ScreenInv' /\ HistoryTyped'
    BY <1>0, <2>1, <2>2 DEF ScreenInv, HistoryTyped
  <2>4. LoopInv'
    BY <1>0, <2>1, LoopStays
  <2> QED BY <1>main, <1>next, <1>irqs, <2>1, <2>3, <2>4, TInvPartsNext
<1>13. CASE BsyLoop
  BY <1>12, <1>13 DEF BsyLoop
<1> QED BY <1>2, <1>3, <1>4, <1>5, <1>6, <1>7, <1>8, <1>9, <1>10, <1>11, <1>12, <1>13 DEF Next

(* The invariant, for any number of keys and messages.                     *)
LEMMA Invariant == Spec => []TInv
BY TInvInit, TInvStep, PTL DEF Spec

(* However big the screen and however many the keys and the messages, the  *)
(* cursor stays on a row of it and every variable of the terminal keeps    *)
(* its type.                                                               *)
THEOREM TypeCorrect == Spec => []TypeOK
<1>1. TInv => TypeOK
  BY DEF TInv
<1> QED BY <1>1, Invariant, PTL

(* terminal_putchar and backspace: on a line with a prompt that has not    *)
(* wrapped, the prompt's row shows the label, what was written, by keys,   *)
(* by fpc_init and by splash_screen, and what splash_screen's label left   *)
(* behind it, whatever came before: scrolls, commands, other messages.     *)
THEOREM LineShowsWhatWasWritten == Spec => []LineIsWritten
<1>1. TInv => LineIsWritten
  BY LineIsWrittenInv DEF TInv, TypeOK, HistoryTyped
<1> QED BY <1>1, Invariant, PTL

-----------------------------------------------------------------------------
(* The commands.                                                           *)

(* A row shows a line, from cmd_offset on.                                 *)
RowShows(t, line) ==
  \A i \in 0..VGA_WIDTH - 1 :
    /\ i < CMD_LABEL => RowCell(t, i) \in {"cmd:", BLANK}
    /\ i >= CMD_LABEL =>
         RowCell(t, i) = IF i - CMD_LABEL + 1 <= Len(line) THEN line[i - CMD_LABEL + 1] ELSE BLANK

(* extract_char's NUL is the first one behind the label, and usr_cmd is    *)
(* what the row shows before it.                                           *)
LEMMA RowLine ==
  ASSUME NEW t, Typed(t), t.cmd_offset = CMD_LABEL,
         \A i \in 0..CMD_LABEL - 1 : RowCell(t, i) # NUL
  PROVE  LET m == Min(Stops(t))
         IN  /\ m \in CMD_LABEL..VGA_WIDTH - 1
             /\ m = VGA_WIDTH - 1 \/ RowCell(t, m) = NUL
             /\ Line(t) = [i \in 1..m - CMD_LABEL |-> RowCell(t, CMD_LABEL + i - 1)]
<1> DEFINE m == Min(Stops(t))
           e == Min(Ends(t))
<1>1. VGA_WIDTH \in Nat /\ CMD_LABEL \in Nat /\ CMD_LABEL + 3 < VGA_WIDTH
  BY Constants
<1>2. /\ m \in Stops(t) /\ m \in 0..VGA_WIDTH - 1 /\ \A i \in Stops(t) : m <= i
      /\ e \in Ends(t) /\ e \in CMD_LABEL..VGA_WIDTH /\ \A i \in Ends(t) : e <= i
  BY ExtractedCells
<1> HIDE DEF m, e
<1>3. m = VGA_WIDTH - 1 \/ RowCell(t, m) = NUL
  BY <1>2 DEF Stops
<1>4. m \in CMD_LABEL..VGA_WIDTH - 1
  <2>1. m < CMD_LABEL => m \in 0..CMD_LABEL - 1 /\ m # VGA_WIDTH - 1
    BY <1>1, <1>2
  <2>2. ~ (m < CMD_LABEL)
    BY <1>3, <2>1
  <2> QED BY <1>1, <1>2, <2>2
<1>5. \A i \in 0..VGA_WIDTH - 1 :
        Extracted(t)[i] = IF i < m THEN RowCell(t, i) ELSE IF i = m THEN NUL ELSE t.low[i]
  BY DEF Extracted, m
<1>6. e <= m
  <2>1. Extracted(t)[m] = NUL /\ m \in t.cmd_offset..VGA_WIDTH
    BY <1>1, <1>2, <1>4, <1>5
  <2>2. m \in Ends(t)
    BY <2>1 DEF Ends
  <2> QED BY <1>2, <2>2
<1>7. ~ (e < m)
  <2> SUFFICES ASSUME e < m PROVE FALSE
    OBVIOUS
  <2>1. e \in 0..VGA_WIDTH - 1 /\ e # VGA_WIDTH
    BY <1>1, <1>2, <1>4
  <2>2. Extracted(t)[e] = NUL
    BY <1>2, <2>1 DEF Ends
  <2>3. RowCell(t, e) = NUL
    BY <1>5, <2>1, <2>2
  <2>4. e \in Stops(t)
    BY <2>1, <2>3 DEF Stops
  <2>5. m <= e
    BY <1>2, <2>4
  <2> QED BY <1>2, <1>4, <2>5
<1>8. e = m
  BY <1>1, <1>2, <1>4, <1>6, <1>7
<1>9. Line(t) = [i \in 1..m - CMD_LABEL |-> Extracted(t)[CMD_LABEL + i - 1]]
  BY <1>8 DEF Line, e
<1>10. ASSUME NEW i \in 1..m - CMD_LABEL
       PROVE  Extracted(t)[CMD_LABEL + i - 1] = RowCell(t, CMD_LABEL + i - 1)
  <2>1. CMD_LABEL + i - 1 \in 0..VGA_WIDTH - 1 /\ CMD_LABEL + i - 1 < m
    BY <1>1, <1>4, <1>10
  <2> QED BY <1>5, <2>1
<1>11. Line(t) = [i \in 1..m - CMD_LABEL |-> RowCell(t, CMD_LABEL + i - 1)]
  BY <1>9, <1>10
<1> QED BY <1>3, <1>4, <1>11 DEF m

(* cmd_parser: what is run is the first word of the line that is shown.    *)
LEMMA RunsRow ==
  ASSUME NEW t, Typed(t), NEW S, NEW line \in Seq(S), RowShows(t, line)
  PROVE  Runs(t, line)
<1> DEFINE name == Command(t)
           m == Min(Stops(t))
           n == m - CMD_LABEL
<1> SUFFICES ASSUME name \in cmd_list PROVE FirstWordIs(name, line)
  BY DEF Runs
<1>1. /\ VGA_WIDTH \in Nat /\ CMD_LABEL \in Nat /\ CMD_LABEL + 3 < VGA_WIDTH
      /\ Len(line) \in Nat
  BY Constants, LenProperties
<1>2. t.cmd_offset = CMD_LABEL
  <2>1. name # ""
    BY DEF cmd_list
  <2>2. t.cmd_offset # 0
    BY <2>1 DEF Command
  <2> QED BY <2>2 DEF Typed
<1>3. \A i \in 0..CMD_LABEL - 1 : RowCell(t, i) # NUL
  <2> SUFFICES ASSUME NEW i \in 0..CMD_LABEL - 1 PROVE RowCell(t, i) # NUL
    OBVIOUS
  <2>1. i \in 0..VGA_WIDTH - 1 /\ i < CMD_LABEL
    BY <1>1
  <2>2. RowCell(t, i) \in {"cmd:", BLANK}
    BY <2>1 DEF RowShows
  <2> QED BY <2>2 DEF BLANK, NUL
<1>4. /\ m \in CMD_LABEL..VGA_WIDTH - 1 /\ (m = VGA_WIDTH - 1 \/ RowCell(t, m) = NUL)
      /\ Line(t) = [i \in 1..n |-> RowCell(t, CMD_LABEL + i - 1)]
  BY <1>2, <1>3, RowLine
<1>5. /\ Line(t) # <<>> /\ Line(t)[1] = name
      /\ Len(Line(t)) = 1 \/ Line(t)[2] = BLANK
  <2>1. name # "nothing" /\ name # "" /\ name # "unknown"
    BY DEF cmd_list
  <2>2. name = CmdParser(t)
    BY <2>1 DEF Command
  <2> HIDE DEF name
  <2> QED BY <2>1, <2>2 DEF CmdParser
<1> HIDE DEF name, m
<1>6. n \in Nat /\ Len(Line(t)) = n /\ Line(t) \in Seq({RowCell(t, CMD_LABEL + i - 1) : i \in 1..n})
  <2> DEFINE Shows == {RowCell(t, CMD_LABEL + i - 1) : i \in 1..n}
  <2>1. n \in Nat
    BY <1>1, <1>4
  <2>2. \A i \in 1..n : RowCell(t, CMD_LABEL + i - 1) \in Shows
    OBVIOUS
  <2> HIDE DEF n, Shows
  <2>3. Line(t) = [i \in 1..n |-> RowCell(t, CMD_LABEL + i - 1)]
    BY <1>4
  <2>4. Line(t) \in Seq(Shows) /\ Len(Line(t)) = n
    BY <2>1, <2>2, <2>3
  <2> QED BY <2>1, <2>4 DEF Shows
<1>7. n # 0
  <2>1. CASE n = 0
    <3>1. Line(t) = <<>>
      BY <1>6, <2>1, EmptySeq
    <3> QED BY <1>5, <3>1
  <2> QED BY <2>1
<1>8. n >= 1
  BY <1>6, <1>7
<1>9. RowCell(t, CMD_LABEL) = name
  <2>1. 1 \in 1..n /\ CMD_LABEL + 1 - 1 = CMD_LABEL
    BY <1>1, <1>6, <1>8
  <2> HIDE DEF n
  <2> QED BY <1>4, <1>5, <2>1
<1>10. /\ RowCell(t, CMD_LABEL) = IF 1 <= Len(line) THEN line[1] ELSE BLANK
       /\ RowCell(t, CMD_LABEL + 1) = IF 2 <= Len(line) THEN line[2] ELSE BLANK
  <2>1. /\ CMD_LABEL \in 0..VGA_WIDTH - 1 /\ CMD_LABEL + 1 \in 0..VGA_WIDTH - 1
        /\ CMD_LABEL >= CMD_LABEL /\ CMD_LABEL + 1 >= CMD_LABEL
        /\ CMD_LABEL - CMD_LABEL + 1 = 1 /\ CMD_LABEL + 1 - CMD_LABEL + 1 = 2
    BY <1>1
  <2> QED BY <2>1 DEF RowShows
<1>11. name # BLANK
  BY DEF cmd_list, BLANK
<1>12. 1 <= Len(line) /\ line[1] = name
  BY <1>9, <1>10, <1>11
<1>13. line # <<>>
  BY <1>12
<1>14. ASSUME 2 <= Len(line) PROVE line[2] \in {BLANK, NUL}
  <2>1. RowCell(t, CMD_LABEL + 1) = line[2]
    BY <1>10, <1>14
  <2>2. CASE n = 1
    <3>1. m = CMD_LABEL + 1 /\ m # VGA_WIDTH - 1
      BY <1>1, <1>4, <2>2
    <3> QED BY <1>4, <2>1, <3>1
  <2>3. CASE n # 1
    <3>1. 2 \in 1..n /\ CMD_LABEL + 2 - 1 = CMD_LABEL + 1
      BY <1>1, <1>6, <1>8, <2>3
    <3> HIDE DEF n
    <3>2. Line(t)[2] = BLANK
      BY <1>5, <1>6, <2>3
    <3>3. Line(t)[2] = RowCell(t, CMD_LABEL + 1)
      BY <1>4, <3>1
    <3> QED BY <2>1, <3>2, <3>3
  <2> QED BY <2>2, <2>3
<1>15. Len(line) = 1 \/ 2 <= Len(line)
  <2>1. \A k \in Nat : 1 <= k => k = 1 \/ 2 <= k
    OBVIOUS
  <2> QED BY <1>1, <1>12, <2>1
<1> QED BY <1>12, <1>13, <1>14, <1>15 DEF FirstWordIs

(* One sequence behind another, in a few words for the provers.            *)
LEMMA Joined ==
  ASSUME NEW T, NEW a \in Seq(T), NEW b \in Seq(T)
  PROVE  /\ a \o b \in Seq(T) /\ Len(a \o b) = Len(a) + Len(b)
         /\ \A i \in 1..Len(a) + Len(b) :
              (a \o b)[i] = IF i <= Len(a) THEN a[i] ELSE b[i - Len(a)]
  BY ConcatProperties

(* A newline runs what the line shows, and the newline of the message of   *)
(* an interrupt without a driver what it shows with the message on it.     *)
LEMMA RunsInv ==
  ASSUME ScreenInv, HistoryTyped, OneRow
  PROVE  /\ Runs(terminal, typed \o ahead)
         /\ Runs(PutChar(terminal, MESSAGE), typed \o <<MESSAGE>> \o Rest(ahead))
<1> DEFINE t == terminal
           c == t.column
           u == PutChar(t, MESSAGE)
           S == Keys \cup {MESSAGE, BLANK}
           line == typed \o ahead
           longer == typed \o <<MESSAGE>> \o Rest(ahead)
<1> SUFFICES Runs(t, line) /\ Runs(u, longer)
  OBVIOUS
<1>1. Typed(t) /\ Ahead(t, ahead)
  BY DEF ScreenInv, OneRow, OneLine
<1>2. /\ c = CMD_LABEL + Len(typed)
      /\ CMD_LABEL + Len(line) <= VGA_WIDTH
      /\ \A i \in 0..VGA_WIDTH - 1 :
           \/ i < CMD_LABEL /\ RowCell(t, i) = "cmd:"
           \/ i < CMD_LABEL /\ RowCell(t, i) = BLANK /\ LabelPending
           \/ /\ i >= CMD_LABEL /\ i < CMD_LABEL + Len(line)
              /\ RowCell(t, i) = line[i - CMD_LABEL + 1]
           \/ i >= CMD_LABEL + Len(line) /\ RowCell(t, i) = BLANK
  BY LineIsWrittenInv DEF LineIsWritten
<1>3. /\ typed \in Seq(S) /\ ahead \in Seq(S) /\ Rest(ahead) \in Seq(S) /\ <<MESSAGE>> \in Seq(S)
      /\ Len(typed) \in Nat /\ Len(ahead) \in Nat
      /\ Len(Rest(ahead)) = IF ahead = <<>> THEN 0 ELSE Len(ahead) - 1
      /\ \A i \in 1..Len(Rest(ahead)) : Rest(ahead)[i] = ahead[i + 1]
      /\ Len(ahead) = 0 <=> ahead = <<>>
  <2>1. typed \in Seq(Keys \cup {MESSAGE}) /\ ahead \in Seq(S)
    BY DEF HistoryTyped
  <2>2. \A i \in 1..Len(typed) : typed[i] \in S
    BY <2>1, ElementOfSeq
  <2>3. typed \in Seq(S)
    BY <2>1, <2>2
  <2>4. <<MESSAGE>> \in Seq(S)
    OBVIOUS
  <2> HIDE DEF S
  <2>5. Len(typed) \in Nat /\ Len(ahead) \in Nat /\ (Len(ahead) = 0 <=> ahead = <<>>)
    BY <2>1, <2>3, LenProperties, EmptySeq
  <2>6. /\ Rest(ahead) \in Seq(S)
        /\ Len(Rest(ahead)) = IF ahead = <<>> THEN 0 ELSE Len(ahead) - 1
        /\ \A i \in 1..Len(Rest(ahead)) : Rest(ahead)[i] = ahead[i + 1]
    BY <2>1, RestSeq
  <2> QED BY <2>1, <2>3, <2>4, <2>5, <2>6
<1> HIDE DEF S
<1>4. /\ line \in Seq(S) /\ Len(line) = Len(typed) + Len(ahead)
      /\ \A i \in 1..Len(typed) + Len(ahead) :
           line[i] = IF i <= Len(typed) THEN typed[i] ELSE ahead[i - Len(typed)]
  BY <1>3, ConcatProperties
<1>5. /\ longer \in Seq(S) /\ Len(longer) = Len(typed) + 1 + Len(Rest(ahead))
      /\ \A i \in 1..Len(typed) : longer[i] = typed[i]
      /\ longer[Len(typed) + 1] = MESSAGE
      /\ \A i \in 1..Len(Rest(ahead)) : longer[Len(typed) + 1 + i] = Rest(ahead)[i]
  <2> DEFINE a == typed \o <<MESSAGE>>
             b == Rest(ahead)
  <2>1. /\ a \in Seq(S) /\ Len(a) = Len(typed) + 1
        /\ \A i \in 1..Len(typed) + 1 :
             a[i] = IF i <= Len(typed) THEN typed[i] ELSE <<MESSAGE>>[i - Len(typed)]
    BY <1>3, ConcatProperties
  <2>2. (\A i \in 1..Len(typed) : a[i] = typed[i]) /\ a[Len(typed) + 1] = MESSAGE
    <3>1. ~ (Len(typed) + 1 <= Len(typed)) /\ Len(typed) + 1 - Len(typed) = 1
          /\ Len(typed) + 1 \in 1..Len(typed) + 1
      BY <1>3
    <3>2. \A i \in 1..Len(typed) : i \in 1..Len(typed) + 1 /\ i <= Len(typed)
      BY <1>3
    <3>3. <<MESSAGE>>[1] = MESSAGE
      OBVIOUS
    <3> HIDE DEF a
    <3> QED BY <2>1, <3>1, <3>2, <3>3
  <2> HIDE DEF a, b
  <2>3. b \in Seq(S) /\ Len(b) \in Nat
    BY <1>3, LenProperties DEF b
  <2>4. /\ a \o b \in Seq(S) /\ Len(a \o b) = Len(a) + Len(b)
        /\ \A i \in 1..Len(a) + Len(b) :
             (a \o b)[i] = IF i <= Len(a) THEN a[i] ELSE b[i - Len(a)]
    <3>1. a \in Seq(S) /\ b \in Seq(S)
      BY <2>1, <2>3
    <3> QED BY <3>1, Joined, Zenon
  <2>5. longer = a \o b
    BY DEF a, b
  <2>6. Len(longer) = Len(typed) + 1 + Len(b)
    BY <2>1, <2>4, <2>5
  <2>7. ASSUME NEW i \in 1..Len(typed) + 1 PROVE longer[i] = a[i]
    <3>1. i \in 1..Len(a) + Len(b) /\ i <= Len(a)
      BY <1>3, <2>1, <2>3
    <3> QED BY <2>4, <2>5, <3>1
  <2>8. ASSUME NEW i \in 1..Len(b) PROVE longer[Len(typed) + 1 + i] = b[i]
    <3> DEFINE k == Len(typed) + 1 + i
    <3>1. k \in 1..Len(a) + Len(b) /\ ~ (k <= Len(a)) /\ k - Len(a) = i
      BY <1>3, <2>1, <2>3
    <3> HIDE DEF k
    <3>2. longer[k] = b[i]
      BY <2>4, <2>5, <3>1
    <3> QED BY <3>2 DEF k
  <2>9. \A i \in 1..Len(typed) : longer[i] = typed[i]
    <3>1. \A i \in 1..Len(typed) : i \in 1..Len(typed) + 1
      BY <1>3
    <3> QED BY <2>2, <2>7, <3>1
  <2>10. longer[Len(typed) + 1] = MESSAGE
    <3>1. Len(typed) + 1 \in 1..Len(typed) + 1
      BY <1>3
    <3> QED BY <2>2, <2>7, <3>1
  <2> HIDE DEF longer
  <2> QED BY <2>4, <2>5, <2>6, <2>8, <2>9, <2>10 DEF b
<1> HIDE DEF line, longer, u
<1>a. /\ Len(typed) \in Nat /\ Len(ahead) \in Nat /\ Len(Rest(ahead)) \in Nat
      /\ Len(line) = Len(typed) + Len(ahead) /\ Len(longer) = Len(typed) + 1 + Len(Rest(ahead))
  BY <1>3, <1>4, <1>5, LenProperties
<1>6. /\ VGA_WIDTH \in Nat /\ CMD_LABEL \in Nat /\ CMD_LABEL + 3 < VGA_WIDTH
      /\ c \in Nat /\ Start(t) \in Nat /\ SCREEN \in Nat /\ Start(t) + VGA_WIDTH <= SCREEN
      /\ Position(t) = Start(t) + c /\ Position(t) \in Nat
      /\ c + Len(ahead) <= VGA_WIDTH /\ BlankFrom(t, Position(t) + Len(ahead))
  BY <1>1, Constants, Cursor DEF Ahead
<1>c. /\ VGA_WIDTH \in Nat /\ CMD_LABEL \in Nat /\ CMD_LABEL + 3 < VGA_WIDTH
      /\ c \in Nat /\ Start(t) \in Nat /\ SCREEN \in Nat /\ Start(t) + VGA_WIDTH <= SCREEN
      /\ Position(t) = Start(t) + c /\ Position(t) \in Nat /\ c + Len(ahead) <= VGA_WIDTH
  BY <1>6, Zenon
<1>7. RowShows(t, line)
  <2> SUFFICES ASSUME NEW i \in 0..VGA_WIDTH - 1
               PROVE  /\ i < CMD_LABEL => RowCell(t, i) \in {"cmd:", BLANK}
                      /\ i >= CMD_LABEL =>
                           RowCell(t, i) = IF i - CMD_LABEL + 1 <= Len(line)
                                           THEN line[i - CMD_LABEL + 1] ELSE BLANK
    BY DEF RowShows
  <2>1. i \in Nat /\ Len(line) \in Nat
    BY <1>a, <1>c
  <2>2. CASE i < CMD_LABEL
    <3>1. ~ (i >= CMD_LABEL) /\ ~ (i >= CMD_LABEL + Len(line))
      BY <1>c, <2>1, <2>2
    <3> QED BY <1>2, <3>1
  <2>3. CASE ~ (i < CMD_LABEL)
    <3>1. /\ i >= CMD_LABEL
          /\ (i < CMD_LABEL + Len(line)) <=> (i - CMD_LABEL + 1 <= Len(line))
          /\ (i >= CMD_LABEL + Len(line)) <=> ~ (i - CMD_LABEL + 1 <= Len(line))
      BY <1>c, <2>1, <2>3
    <3> QED BY <1>2, <2>3, <3>1
  <2> QED BY <2>2, <2>3
<1>8. Runs(t, line)
  BY <1>1, <1>4, <1>7, RunsRow
<1>9. CASE c + 1 = VGA_WIDTH
  <2> DEFINE w == Wrapped(t, MESSAGE)
  <2>1. u = Down(w)
    BY <1>1, <1>9, PutCharCases DEF u
  <2>2. /\ Typed(w) /\ Start(w) = Start(t)
        /\ \A q \in Nat : q > Position(t) /\ BlankFrom(t, q) => BlankFrom(w, q)
    BY <1>1, WrappedCells
  <2> HIDE DEF w
  <2>3. BlankFrom(t, Start(t) + VGA_WIDTH)
    <3>a. /\ Start(t) \in Nat /\ c \in Nat /\ VGA_WIDTH \in Nat /\ Len(ahead) \in Nat
          /\ Position(t) = Start(t) + c /\ c + Len(ahead) <= VGA_WIDTH
      BY <1>c, <1>a, Zenon
    <3>1. /\ Position(t) + Len(ahead) \in Nat /\ Start(t) + VGA_WIDTH \in Nat
          /\ Start(t) + VGA_WIDTH >= Position(t) + Len(ahead)
      <4> HIDE DEF c, t
      <4> QED BY <3>a
    <3>2. Typed(t) /\ BlankFrom(t, Position(t) + Len(ahead))
      BY <1>1, <1>6
    <3> HIDE DEF t
    <3> QED BY <3>1, <3>2, BlankFurther, Zenon
  <2>4. BlankFrom(w, Start(w) + VGA_WIDTH)
    <3>1. Start(t) + VGA_WIDTH \in Nat /\ Start(t) + VGA_WIDTH > Position(t)
      BY <1>c, <1>9
    <3> QED BY <2>2, <2>3, <3>1
  <2>5. Typed(u) /\ BlankFrom(u, Start(u))
    BY <2>1, <2>2, <2>4, DownCells DEF Lowered
  <2>6. ASSUME NEW i \in 0..VGA_WIDTH - 1 PROVE RowCell(u, i) = BLANK
    <3>1. Start(u) \in Nat /\ Start(u) + VGA_WIDTH <= SCREEN
      BY <2>5, Cursor
    <3>a. SCREEN \in Nat /\ VGA_WIDTH \in Nat
      BY <1>c, Zenon
    <3>2. Start(u) + i \in Nat /\ Start(u) + i < SCREEN /\ ~ (Start(u) + i < Start(u))
      <4> HIDE DEF t, c
      <4> QED BY <3>a, <3>1
    <3>3. Start(u) + i \notin DOMAIN u.screen
      BY <2>5, <3>2 DEF BlankFrom
    <3>4. RowCell(u, i) = Cell(u, Start(u) + i)
      BY DEF RowCell, Start
    <3> QED BY <3>3, <3>4 DEF Cell
  <2>7. RowShows(u, <<>>)
    <3>1. \A i \in 0..VGA_WIDTH - 1 : i >= CMD_LABEL => ~ (i - CMD_LABEL + 1 <= Len(<<>>))
      BY <1>c
    <3> QED BY <2>6, <3>1 DEF RowShows
  <2>8. <<>> \in Seq(S)
    OBVIOUS
  <2>9. Runs(u, <<>>)
    BY <2>5, <2>7, <2>8, RunsRow
  <2>10. Command(u) \notin cmd_list
    BY <2>9 DEF Runs, FirstWordIs
  <2>11. Runs(u, longer)
    BY <2>10 DEF Runs
  <2> QED BY <1>8, <2>11
<1>10. CASE c + 1 # VGA_WIDTH
  <2>1. u = Next1(t, MESSAGE)
    BY <1>1, <1>10, PutCharCases DEF u
  <2>2. /\ Typed(u) /\ Start(u) = Start(t) /\ Cell(u, Position(t)) = MESSAGE
        /\ \A i \in Nat : i # Position(t) => Cell(u, i) = Cell(t, i)
    BY <1>1, <2>1, Next1Cells
  <2>3. ASSUME NEW i \in 0..VGA_WIDTH - 1
        PROVE  RowCell(u, i) = IF i = c THEN MESSAGE ELSE RowCell(t, i)
    <3>1. RowCell(u, i) = Cell(u, Start(t) + i) /\ RowCell(t, i) = Cell(t, Start(t) + i)
      BY <2>2 DEF RowCell, Start
    <3>2. /\ Start(t) + i \in Nat
          /\ i = c => Start(t) + i = Position(t)
          /\ i # c => Start(t) + i # Position(t)
      BY <1>c
    <3> QED BY <2>2, <3>1, <3>2
  <2>4. RowShows(u, longer)
    <3> SUFFICES ASSUME NEW i \in 0..VGA_WIDTH - 1
                 PROVE  /\ i < CMD_LABEL => RowCell(u, i) \in {"cmd:", BLANK}
                        /\ i >= CMD_LABEL =>
                             RowCell(u, i) = IF i - CMD_LABEL + 1 <= Len(longer)
                                             THEN longer[i - CMD_LABEL + 1] ELSE BLANK
      BY DEF RowShows
    <3> DEFINE k == i - CMD_LABEL + 1
               shown == IF k <= Len(line) THEN line[k] ELSE BLANK
    <3>0. i \in Nat /\ c = CMD_LABEL + Len(typed)
      BY <1>2, <1>c
    <3>1. CASE i < CMD_LABEL
      <4>1. i # c /\ ~ (i >= CMD_LABEL)
        BY <1>a, <1>c, <3>0, <3>1
      <4>2. RowCell(t, i) \in {"cmd:", BLANK}
        BY <1>7, <3>1 DEF RowShows
      <4> QED BY <2>3, <4>1, <4>2
    <3>2. CASE ~ (i < CMD_LABEL)
      <4>1. i >= CMD_LABEL /\ k \in Nat /\ k >= 1
        BY <1>c, <3>0, <3>2
      <4>2. RowCell(t, i) = shown
        BY <1>7, <4>1 DEF RowShows
      <4>3. CASE i < c
        <5>1. /\ k \in 1..Len(typed) /\ i # c /\ k \in 1..Len(typed) + Len(ahead)
              /\ k <= Len(typed)
          BY <1>a, <1>c, <3>0, <4>1, <4>3
        <5>2. k <= Len(line) /\ k <= Len(longer)
          <6> HIDE DEF k
          <6> QED BY <1>a, <5>1
        <5> HIDE DEF k
        <5>3. shown = typed[k]
          BY <1>4, <5>1, <5>2
        <5>4. longer[k] = typed[k]
          BY <1>5, <5>1
        <5>5. RowCell(u, i) = longer[k]
          BY <2>3, <4>2, <5>1, <5>3, <5>4
        <5> QED BY <3>2, <5>2, <5>5 DEF k
      <4>4. CASE i = c
        <5>1. k = Len(typed) + 1
          BY <1>a, <1>c, <3>0, <4>4
        <5>2. k <= Len(longer)
          <6> HIDE DEF k
          <6> QED BY <1>a, <5>1
        <5> HIDE DEF k
        <5>3. longer[k] = MESSAGE
          BY <1>5, <5>1
        <5>4. RowCell(u, i) = longer[k]
          BY <2>3, <4>4, <5>3
        <5> QED BY <3>2, <5>2, <5>4 DEF k
      <4>5. CASE i > c
        <5> DEFINE j == k - Len(typed) - 1
        <5>1. /\ j \in Nat /\ j >= 1 /\ k = Len(typed) + 1 + j /\ i # c
              /\ ~ (k <= Len(typed)) /\ k - Len(typed) = j + 1
          BY <1>a, <1>c, <3>0, <4>1, <4>5
        <5>2. RowCell(u, i) = shown
          BY <2>3, <4>2, <5>1
        <5> HIDE DEF k, j
        <5>3. CASE j + 1 <= Len(ahead)
          <6>1. ahead # <<>>
            BY <1>3, <5>1, <5>3
          <6>2. Len(Rest(ahead)) = Len(ahead) - 1
            BY <1>3, <6>1
          <6>3. /\ j \in 1..Len(Rest(ahead)) /\ k \in 1..Len(typed) + Len(ahead)
                /\ k <= Len(line) /\ k <= Len(longer)
            BY <1>a, <5>1, <5>3, <6>2
          <6>4. shown = ahead[j + 1]
            BY <1>4, <5>1, <6>3
          <6>5. longer[k] = ahead[j + 1]
            BY <1>3, <1>5, <5>1, <6>3
          <6> QED BY <3>2, <5>2, <6>3, <6>4, <6>5 DEF k
        <5>4. CASE ~ (j + 1 <= Len(ahead))
          <6>1. Len(Rest(ahead)) \in Nat /\ Len(Rest(ahead)) < j
            <7>1. CASE ahead = <<>>
              BY <1>3, <5>1, <7>1
            <7>2. CASE ahead # <<>>
              <8>1. Len(Rest(ahead)) = Len(ahead) - 1 /\ Len(ahead) # 0
                BY <1>3, <7>2
              <8> QED BY <1>a, <5>1, <5>4, <8>1
            <7> QED BY <7>1, <7>2
          <6>2. ~ (k <= Len(line)) /\ ~ (k <= Len(longer))
            BY <1>a, <5>1, <5>4, <6>1
          <6> QED BY <3>2, <5>2, <6>2 DEF k
        <5> QED BY <5>3, <5>4
      <4> QED BY <1>c, <3>0, <4>3, <4>4, <4>5
    <3> QED BY <3>1, <3>2
  <2>5. Runs(u, longer)
    BY <1>5, <2>2, <2>4, RunsRow
  <2> QED BY <1>8, <2>5
<1> QED BY <1>9, <1>10

(* terminal_putchar and cmd_parser: whatever happened before, a newline at *)
(* such a prompt, typed, of splash_screen or behind the message of an      *)
(* interrupt without a driver, runs a command only if the first word of    *)
(* what was written on the line is its name.                               *)
THEOREM OnlyWrittenCommandsRun == Spec => RunsWhatIsWritten
<1> DEFINE Step ==
      OneRow =>
        /\ Key("newline") \/ SplashPrint => Runs(terminal, typed \o ahead)
        /\ UnhandledIrq =>
             Runs(PutChar(terminal, MESSAGE),
                  typed \o <<MESSAGE>> \o (IF ahead = <<>> THEN <<>> ELSE Tail(ahead)))
<1>1. TInv => Step
  BY RunsInv DEF TInv, TypeOK, HistoryTyped, Rest
<1>2. TInv /\ [Next]_vars => [Step]_vars
  BY <1>1
<1>3. RunsWhatIsWritten <=> [][Step]_vars
  BY PTL DEF RunsWhatIsWritten
<1> HIDE DEF Step
<1> QED BY <1>2, <1>3, Invariant, PTL DEF Spec
=============================================================================
