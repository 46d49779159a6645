------------------------------ MODULE Terminal ------------------------------
(***************************************************************************)
(* The terminal of drivers/terminal.c: the cursor, the screen, the command *)
(* line and the commands, and all that writes to them while the main       *)
(* thread shows its splash screen: the keys, the message of fpc_init, the  *)
(* message for an interrupt without a driver, and the splash screen.  An   *)
(* interrupt is handled whole, between any two characters the main thread  *)
(* prints and any two rows it clears.                                      *)
(*                                                                         *)
(* One cell of the screen holds one character; the name of a command is    *)
(* one character here, and so is a message printed by a handler.  The      *)
(* memory behind the screen is cells as well: a column beyond the end of a *)
(* row is a cell of a later one.                                           *)
(***************************************************************************)
EXTENDS Integers, Sequences, SequencesExt

CONSTANTS
  VGA_WIDTH, VGA_HEIGHT,  \* 80 and 25
  TAB,                    \* 8
  CMD_LABEL, ERROR_LABEL, \* the lengths of "cmd:" and of "unkown command"
  FLOPPY_ERROR,           \* the length of fpc_init's message, 18
  Splash,                 \* the characters splash_screen prints
  EarlyWraps,             \* the values of line_wrap at the start
  Keys,                   \* the keys pressed
  MaxIrqs                 \* bound: keys pressed and interrupts without a driver

cmd_list == {"help", "clear", "text", "pong", "echo", "exit"}
Editing  == {"newline", "tab", "backspace", "end"}
BLANK    == " "
NUL      == "nul"      \* what Ctrl, the function keys and others print

MESSAGE  == "message"  \* printed text that is no command

ASSUME TerminalAssumption ==
  /\ {VGA_WIDTH, VGA_HEIGHT, TAB, CMD_LABEL, ERROR_LABEL, FLOPPY_ERROR} \subseteq Nat \ {0}
  /\ CMD_LABEL + 3 < VGA_WIDTH /\ ERROR_LABEL < VGA_WIDTH /\ TAB < VGA_WIDTH
  /\ Splash \in Seq({"newline", "tab", MESSAGE}) /\ Splash # <<>>
  /\ EarlyWraps \subseteq 0..255 /\ MaxIrqs \in Nat

VARIABLES
  main,     \* where fpc_init or splash_screen is
  next,     \* its loop's counter: characters printed, rows cleared
  terminal, \* row, column, cmd_offset, line_wrap, the screen's cells, and low,
            \* the memory at address 0, that extract_char's NULL points to
  irqs,     \* keys pressed and interrupts without a driver
  prompted, \* history: the line began at a label, and with no wrap behind it
  typed,    \* history: the characters of the line before the cursor, as edited
  ahead,    \* history: those left at the cursor and behind it
  clean     \* history: since the last clear, no tab, nothing written beyond the
            \* end of a row or while splash_screen cleared the rows, and no label
            \* put over a line in text mode or of several rows

history == <<prompted, typed, ahead, clean>>
vars == <<main, next, terminal, irqs, history>>

-----------------------------------------------------------------------------
(* Cells.  Those that hold no character are left out of screen.            *)

SCREEN == VGA_WIDTH * VGA_HEIGHT
Cell(t, i) == IF i \in DOMAIN t.screen THEN t.screen[i] ELSE BLANK
Show(t, cell) == [t EXCEPT !.screen = cell]

PutCharAt(t, c, x) ==
  LET i == t.row * VGA_WIDTH + x
      others == DOMAIN t.screen \ {i}
  IN  Show(t, [j \in IF c = BLANK THEN others ELSE others \cup {i} |->
                 IF j = i THEN c ELSE t.screen[j]])

(* Mutant of ScrollTerminal: the last line is not cleared.                 *)
ScrollLeavesLast(t) ==
  LET Above(i) == IF i < SCREEN - VGA_WIDTH THEN i + VGA_WIDTH ELSE i
      shown == {i \in 0..SCREEN - 1 : Above(i) \in DOMAIN t.screen}
  IN  Show(t, [i \in shown \cup {j \in DOMAIN t.screen : j >= SCREEN} |->
                 t.screen[Above(i)]])

(* What lies behind the screen stays where it is.                          *)
ScrollTerminal(t) ==
  LET Above(i) == IF i < SCREEN THEN i + VGA_WIDTH ELSE i
      shown == {i \in 0..SCREEN - VGA_WIDTH - 1 : i + VGA_WIDTH \in DOMAIN t.screen}
  IN  Show(t, [i \in shown \cup {j \in DOMAIN t.screen : j >= SCREEN} |->
                 t.screen[Above(i)]])

ClearLine(t, y) ==
  LET others == {i \in DOMAIN t.screen : i < y * VGA_WIDTH \/ i >= (y + 1) * VGA_WIDTH}
  IN  Show(t, [i \in others |-> t.screen[i]])

Home(t) == [t EXCEPT !.row = 0, !.column = t.cmd_offset]

ClearTerminal(t) ==
  LET behind == {i \in DOMAIN t.screen : i >= SCREEN}
  IN  Home(Show(t, [i \in behind |-> t.screen[i]]))

(* Mutant of Down: it never scrolls.                                       *)
DownOnly(t) == [t EXCEPT !.row = @ + 1]

Down(t) == IF t.row = VGA_HEIGHT - 1 THEN ScrollTerminal(t) ELSE [t EXCEPT !.row = @ + 1]

(* The characters of s, fewer than a row's, from the row's beginning on.   *)
Write(t, s) ==
  LET at    == t.row * VGA_WIDTH
      here  == at..at + Len(s) - 1
      shown == {i \in here : s[i - at + 1] # BLANK}
  IN  [Show(t, [i \in (DOMAIN t.screen \ here) \cup shown |->
                  IF i \in here THEN s[i - at + 1] ELSE t.screen[i]])
         EXCEPT !.column = Len(s)]

EmitLabel(t, c, len) == Write(t, [i \in 1..len |-> c])

TextMode(t) == [t EXCEPT !.cmd_offset = 0]
CmdMode(t)  == [t EXCEPT !.cmd_offset = CMD_LABEL]
CmdLabel(t) == EmitLabel(t, "cmd:", CMD_LABEL)

-----------------------------------------------------------------------------
(* terminal_putchar                                                        *)

(* The default case: line_wrap has eight bits.                             *)
PutChar(t, c) ==
  LET u == [PutCharAt(t, c, t.column) EXCEPT !.column = @ + 1]
  IN  IF u.column = VGA_WIDTH
      THEN Down([u EXCEPT !.column = 0, !.line_wrap = (@ + 1) % 256]) ELSE u

TextNewline(t) == [Down(t) EXCEPT !.column = 0]

PutTab(t) ==
  LET rem == VGA_WIDTH - t.column
  IN  [t EXCEPT !.column = IF 0 <= rem /\ rem < TAB THEN TAB - rem ELSE @ + TAB]

(* printf with a newline at its end, in text mode.                         *)
PrintLine(t) == TextNewline(PutChar(t, MESSAGE))

(* help: a title and the six names.                                        *)
PrintThree(t) == PrintLine(PrintLine(PrintLine(t)))
Help(t) == PrintLine(PrintThree(PrintThree(t)))

(* extract_char: the row of the cursor from its first column on, all but   *)
(* its last cell, up to a key without a character, copied to address 0.    *)
RowCell(t, i) == Cell(t, t.row * VGA_WIDTH + i)
Stops(t)      == {i \in 0..VGA_WIDTH - 1 : i = VGA_WIDTH - 1 \/ RowCell(t, i) = NUL}
Extracted(t)  == [i \in 0..VGA_WIDTH - 1 |->
                    IF i < Min(Stops(t)) THEN RowCell(t, i)
                    ELSE IF i = Min(Stops(t)) THEN NUL ELSE t.low[i]]
ExtractChar(t) == [t EXCEPT !.low = Extracted(t)]

(* usr_cmd: what lies there from cmd_offset on.                            *)
Ends(t) == {i \in t.cmd_offset..VGA_WIDTH : i = VGA_WIDTH \/ Extracted(t)[i] = NUL}
Line(t) == [i \in 1..Min(Ends(t)) - t.cmd_offset |-> Extracted(t)[t.cmd_offset + i - 1]]

(* Mutant of CmdParser: any line that begins with a name is that command.  *)
CmdParserPrefix(t) ==
  IF Line(t) # <<>> /\ Line(t)[1] \in cmd_list THEN Line(t)[1] ELSE "unknown"

(* A name must be followed by a blank, or by nothing.                      *)
CmdParser(t) ==
  IF Line(t) # <<>> /\ Line(t)[1] \in cmd_list /\ (Len(Line(t)) = 1 \/ Line(t)[2] = BLANK)
  THEN Line(t)[1] ELSE "unknown"

(* What the newline finds on the line, "" in text mode.                    *)
Command(t) ==
  IF t.cmd_offset = 0 THEN ""
  ELSE IF t.column = t.cmd_offset THEN "nothing" ELSE CmdParser(t)

(* help prints what it knows, echo its arguments, from the first column of *)
(* a row on, pong clears the screen and prints what the task and it print, *)
(* exit does nothing.                                                      *)
ExecuteCmd(t, name, args) ==
  CASE name = "help"  -> CmdLabel(CmdMode(Help(TextMode(t))))
    [] name = "clear" -> CmdLabel(CmdMode(ClearTerminal(t)))
    [] name = "text"  -> ClearTerminal(TextMode(t))
    [] name = "pong"  -> PutChar(PrintLine(ClearTerminal(TextMode(t))), MESSAGE)
    [] name = "echo"  -> CmdLabel(CmdMode(TextNewline(Write(TextMode(t), args))))
    [] name = "exit"  -> t

Newline(t) ==
  LET name == Command(t)
      u    == [ExtractChar(t) EXCEPT !.line_wrap = 0]
  IN  CASE name = ""        -> TextNewline(t)
        [] name = "nothing" -> CmdLabel(Down(u))
        [] name = "unknown" -> CmdLabel(Down(EmitLabel(Down(u), "error", ERROR_LABEL)))
        [] name \in cmd_list ->
             ExecuteCmd([Down(u) EXCEPT !.column = 0], name,
                        SubSeq(Line(t), 3, Len(Line(t))))

EndKey(t) == CmdMode(ExecuteCmd(t, "clear", <<>>))

(* Mutant of Backspace: in command mode it goes on over the label.         *)
BackspaceOverLabel(t) ==
  LET up == t.column = 0 /\ t.row # 0
      u  == [t EXCEPT
               !.row       = IF up THEN @ - 1 ELSE @,
               !.column    = IF up THEN VGA_WIDTH ELSE IF @ = 0 THEN 0 ELSE @ - 1]
  IN  PutCharAt(u, BLANK, u.column)

(* backspace: over the label, and up a row, only in text mode and in a     *)
(* line that has wrapped.                                                  *)
Backspace(t) ==
  LET free == t.cmd_offset = 0 \/ t.line_wrap # 0
      up   == free /\ t.column = 0 /\ t.row # 0
      left == IF free THEN t.column > 0 ELSE t.column > t.cmd_offset
      u    == [t EXCEPT
                 !.row       = IF up THEN @ - 1 ELSE @,
                 !.line_wrap = IF up /\ t.cmd_offset # 0 THEN @ - 1 ELSE @,
                 !.column    = IF up THEN VGA_WIDTH ELSE IF left THEN @ - 1 ELSE @]
  IN  PutCharAt(u, BLANK, u.column)

Pressed(t, key) ==
  CASE key = "newline"   -> Newline(t)
    [] key = "tab"       -> PutTab(t)
    [] key = "end"       -> EndKey(t)
    [] key = "backspace" -> Backspace(t)
    [] OTHER             -> PutChar(t, key)

-----------------------------------------------------------------------------
(* What is at address 0 at the start: nothing, or the line of a key that   *)
(* came before terminal_initialize and wrote through a NULL pointer.       *)
Lows == {[i \in 0..VGA_WIDTH - 1 |-> IF i = CMD_LABEL THEN c ELSE NUL] : c \in {NUL, "echo"}}

(* terminal_initialize leaves the screen as it is, full of what the loader *)
(* and the BIOS wrote, and cmd_offset and line_wrap as the keys before it, *)
(* End among them, left them.                                              *)
Init ==
  /\ main = "fpc_init" /\ next = 0
  /\ \E offset \in {0, CMD_LABEL}, wraps \in EarlyWraps, low \in Lows :
       terminal = [row |-> 0, column |-> offset, cmd_offset |-> offset, line_wrap |-> wraps,
                   screen |-> [i \in 0..SCREEN - 1 |-> MESSAGE], low |-> low]
  /\ irqs = 0
  /\ prompted = FALSE /\ typed = <<>> /\ ahead = <<>> /\ clean = FALSE

(* clear_terminal is at its rows.                                          *)
Clearing == main \in {"clear", "clear again"} /\ next > 0

Clears(t, key) ==
  \/ key = "end"
  \/ key = "newline" /\ Command(t) \in {"clear", "text", "pong"}

(* The line written so far, on its first row.                              *)
OneLine == prompted /\ terminal.line_wrap = 0 /\ CMD_LABEL + Len(typed) <= VGA_WIDTH

(* One character, for the terminal t.                                      *)
Obey(t, key) ==
  LET Rest == IF ahead = <<>> THEN <<>> ELSE Tail(ahead)
      back == typed # <<>> /\ terminal'.column < terminal.column
  IN  /\ terminal' = Pressed(t, key)
      /\ prompted' = IF key \in {"newline", "end"}
                     THEN /\ terminal'.cmd_offset # 0 /\ terminal'.column = CMD_LABEL
                          /\ terminal'.line_wrap = 0
                     ELSE prompted
      /\ typed' = CASE key \in {"newline", "end"} -> <<>>
                    [] key = "tab"       -> typed
                    [] key = "backspace" -> IF back THEN Front(typed) ELSE typed
                    [] OTHER             -> Append(typed, key)
      /\ ahead' = CASE key \in {"newline", "end"} -> <<>>
                    [] key = "tab"       -> ahead
                    [] key = "backspace" -> IF ahead = <<>> THEN <<>>
                                            ELSE <<BLANK>> \o (IF back THEN ahead ELSE Rest)
                    [] OTHER             -> Rest
      /\ clean' = /\ ~Clearing
                  /\ \/ Clears(t, key)
                     \/ /\ clean /\ key # "tab" /\ t.column <= VGA_WIDTH
                        /\ key \in Editing \/ t.column < VGA_WIDTH

(* The interrupts.                                                         *)
Interrupt == irqs < MaxIrqs /\ irqs' = irqs + 1 /\ UNCHANGED <<main, next>>

Key(key) == Interrupt /\ Obey(terminal, key)

(* irq_handler_func has no driver to call and prints a line.  Its newline  *)
(* is obeyed as a typed one.                                               *)
UnhandledIrq == Interrupt /\ Obey(PutChar(terminal, MESSAGE), "newline")

(* The main thread: fpc_init and its message, if there is one, and         *)
(* splash_screen, one character, one row or one call of it at a step.  In  *)
(* command mode, where a key may have brought it, a newline it prints is   *)
(* obeyed as a typed one.                                                  *)
Goto(from, to) == main = from /\ main' = to

FpcInitError ==
  /\ Goto("fpc_init", "fpc_init")
  /\ next < FLOPPY_ERROR /\ next' = next + 1
  /\ Obey(terminal, MESSAGE)
  /\ UNCHANGED irqs

FpcInitEnd ==
  /\ Goto("fpc_init", "clear")
  /\ next \in {0, FLOPPY_ERROR} /\ next' = 0
  /\ UNCHANGED <<terminal, irqs, history>>

SplashClearLine ==
  /\ Goto("clear", "clear") \/ Goto("clear again", "clear again")
  /\ next < VGA_HEIGHT /\ next' = next + 1
  /\ terminal' = ClearLine(terminal, next)
  /\ prompted' = FALSE /\ clean' = (next = 0 \/ clean)
  /\ UNCHANGED <<irqs, typed, ahead>>

SplashHome ==
  /\ Goto("clear", "text_mode") \/ Goto("clear again", "label")
  /\ next = VGA_HEIGHT /\ next' = 0
  /\ terminal' = Home(terminal)
  /\ prompted' = (terminal.cmd_offset # 0 /\ terminal.line_wrap = 0)
  /\ typed' = <<>> /\ ahead' = <<>>
  /\ UNCHANGED <<irqs, clean>>

SplashMode ==
  /\ \/ Goto("text_mode", "print") /\ terminal' = TextMode(terminal)
     \/ Goto("cmd_mode", "clear again") /\ terminal' = CmdMode(terminal)
  /\ prompted' = FALSE
  /\ UNCHANGED <<next, irqs, typed, ahead, clean>>

SplashPrint ==
  LET last == next + 1 = Len(Splash)
  IN  /\ Goto("print", IF last THEN "poll" ELSE "print")
      /\ next' = IF last THEN 0 ELSE next + 1
      /\ Obey(terminal, Splash[next + 1])
      /\ UNCHANGED irqs

(* The poll of the keyboard ends when a byte has come (module Interrupts). *)
SplashPoll ==
  /\ Goto("poll", "cmd_mode")
  /\ UNCHANGED <<next, terminal, irqs, history>>

(* What was written between the clear and the label stays, behind the      *)
(* cursor.                                                                 *)
SplashLabel ==
  /\ Goto("label", "bsy_loop")
  /\ terminal' = CmdLabel(terminal)
  /\ prompted' = OneLine
  /\ typed' = <<>> /\ ahead' = IF OneLine THEN typed ELSE <<>>
  /\ clean' = (clean /\ OneLine)
  /\ UNCHANGED <<next, irqs>>

BsyLoop == Goto("bsy_loop", "bsy_loop") /\ UNCHANGED vars

Next ==
  \/ \E key \in Keys : Key(key)
  \/ UnhandledIrq
  \/ FpcInitError \/ FpcInitEnd
  \/ SplashClearLine \/ SplashHome \/ SplashMode \/ SplashPrint \/ SplashPoll \/ SplashLabel
  \/ BsyLoop

Spec == Init /\ [][Next]_vars

-----------------------------------------------------------------------------
(* Properties.                                                             *)

TypeOK ==
  /\ main \in {"fpc_init", "clear", "text_mode", "print", "poll", "cmd_mode", "clear again",
               "label", "bsy_loop"}
  /\ next \in Nat /\ irqs \in 0..MaxIrqs
  /\ terminal.row \in 0..VGA_HEIGHT - 1 /\ terminal.column \in Nat
  /\ terminal.cmd_offset \in {0, CMD_LABEL} /\ terminal.line_wrap \in 0..255
  /\ DOMAIN terminal.screen \subseteq Nat /\ DOMAIN terminal.low = 0..VGA_WIDTH - 1
  /\ prompted \in BOOLEAN /\ clean \in BOOLEAN
  /\ typed \in Seq(Keys \cup {MESSAGE}) /\ ahead \in Seq(Keys \cup {MESSAGE, BLANK})

(* The line that a newline will parse is the label and what was written    *)
(* since, by keys and by messages, as edited by backspace, with the cursor *)
(* where it was left and nothing left over from what the row showed before *)
(* but `ahead`, written before splash_screen put its label.  (Until it     *)
(* does, the label is blank, or that of a line entered meanwhile.  A count *)
(* of wraps that has itself wrapped, at 256, is no count of this line's.)  *)
OneRow == OneLine /\ clean
LabelPending == main \in {"text_mode", "label"}
LineIsWritten ==
  OneRow =>
    LET line == typed \o ahead
    IN  /\ terminal.column = CMD_LABEL + Len(typed)
        /\ CMD_LABEL + Len(line) <= VGA_WIDTH
        /\ \A i \in 0..VGA_WIDTH - 1 :
             \/ i < CMD_LABEL /\ RowCell(terminal, i) = "cmd:"
             \/ i < CMD_LABEL /\ RowCell(terminal, i) = BLANK /\ LabelPending
             \/ /\ i >= CMD_LABEL /\ i < CMD_LABEL + Len(line)
                /\ RowCell(terminal, i) = line[i - CMD_LABEL + 1]
             \/ i >= CMD_LABEL + Len(line) /\ RowCell(terminal, i) = BLANK

(* cmd_parser: "user cmd must end or have param after space".  A newline,  *)
(* typed, of the splash screen or behind the message of an interrupt       *)
(* without a driver, runs a command only if the first word written on the  *)
(* line is its name: nothing that was erased, entered before or lies at    *)
(* address 0 from an earlier line is taken for it.                         *)
FirstWordIs(name, line) ==
  line # <<>> /\ line[1] = name /\ (Len(line) = 1 \/ line[2] \in {BLANK, NUL})
Runs(t, line) == Command(t) \in cmd_list => FirstWordIs(Command(t), line)
RunsWhatIsWritten ==
  [][OneRow =>
       /\ Key("newline") \/ SplashPrint => Runs(terminal, typed \o ahead)
       /\ UnhandledIrq =>
            Runs(PutChar(terminal, MESSAGE),
                 typed \o <<MESSAGE>> \o (IF ahead = <<>> THEN <<>> ELSE Tail(ahead)))]_vars
=============================================================================
