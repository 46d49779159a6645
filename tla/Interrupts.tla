----------------------------- MODULE Interrupts -----------------------------
(***************************************************************************)
(* The interrupt system of PongOS and the boot sequence that sets it up:   *)
(* the CPU's interrupt flag, the IDT, the two chained 8259 controllers,    *)
(* the dispatch isr.s -> isr_handler_func -> irq_handler_func -> driver,   *)
(* and the one main thread that runs init_hal, the splash screen and then  *)
(* kernel_bsy_loop.  Every driver runs inside its interrupt, and whoever   *)
(* hands the terminal a newline there, the keyboard driver or the report   *)
(* of an unhandled IRQ, may run a whole shell command: pong() reads the    *)
(* floppy from inside the interrupt.                                       *)
(*                                                                         *)
(* One CPU runs the main thread and the handlers: the main thread steps    *)
(* only while no handler is active, and an interrupt may be taken between  *)
(* any two of its steps while the interrupt flag is set.                   *)
(***************************************************************************)
EXTENDS Naturals, Sequences, FiniteSets

CONSTANTS
  MaxEvents,  \* bound: how often each other line is raised from outside
  MaxKeys,    \* bound: the bytes that arrive from the keyboard
  Sectors     \* the sectors one pong command reads (load_proc.c reads 8)

ASSUME BoundsAssumption == {MaxEvents, MaxKeys, Sectors} \subseteq Nat

TIMER     == 0
KEYBOARD  == 1
FLOPPY    == 6
SPURIOUS1 == 7    \* the number a controller answers with when the request it
SPURIOUS2 == 15   \* presented is gone again: it puts nothing in service then
ATA       == 14   \* stands for the lines the kernel has no driver for
Devices   == {TIMER, KEYBOARD, FLOPPY, ATA}
Spurious  == {SPURIOUS1, SPURIOUS2}
Lines     == Devices \cup Spurious
Outside   == {TIMER, KEYBOARD, ATA}

VARIABLES
  main,             \* the function the main thread is about to run
  iflag,            \* the CPU's interrupt flag
  idtr,             \* has load_idt given the CPU the table?
  gates,            \* the vectors whose IDT entry is filled and present
  isr_handlers,     \* the vectors registered with irq_handler_func
  irq_handlers,     \* the lines registered with a driver
  remapped,         \* has pic_init moved the lines to vectors 32..47?
  irr,              \* lines latched as pending in the controllers
  isr1, isr2,       \* in-service levels of the master and of the slave
  frames,           \* the interrupt handlers on the stack, the running one last
  obf,              \* the keyboard controller holds a byte (status port bit 0)
  fdc,              \* the floppy controller is "idle" or "busy" with a command
  floppy_irq_done,  \* the driver's flag, set by fpc_irq
  sectors,          \* the sectors pong has still to read
  cmd_mode,         \* cmd_offset # 0: a typed line is parsed as a command
  events            \* how often each line may still be raised from outside

cpu  == <<iflag, frames>>
pic  == <<remapped, irr, isr1, isr2>>
tables == <<idtr, gates, isr_handlers, irq_handlers>>
floppy == <<fdc, floppy_irq_done, sectors>>
vars == <<main, cpu, pic, tables, obf, floppy, cmd_mode, events>>

-----------------------------------------------------------------------------
(* The order of init_hal, splash_screen and kernel_main.  Steps that touch *)
(* no state of this module (the memory manager, terminal_initialize, the   *)
(* printing of the splash text) are part of the step before them.          *)

BeforeSti == {"idt_initialize", "isr_initialize", "pic_init", "isr_register",
              "enable_interrupts"}
Registering == {"register_timer", "register_keyboard", "register_floppy"}
FloppyInit == {"fpc_reset", "fpc_irq_wait", "fpc_recalibrate"}
Splash == {"splash_screen", "splash_poll", "splash_drain", "splash_prompt"}
HandlerSteps == {"panic", "irq_handler_func", "fpc_read", "fpc_read_result",
                 "eoi", "iret"}
MainSteps == BeforeSti \cup Registering \cup FloppyInit \cup Splash \cup {"bsy_loop"}

Goto(from, to) == /\ frames = <<>>
                  /\ main = from
                  /\ main' = to

(* GRUB enters the kernel with interrupts disabled; keys and ticks may be  *)
(* waiting from before.                                                    *)
Init ==
  /\ main = "idt_initialize"
  /\ iflag = FALSE /\ frames = <<>>
  /\ idtr = FALSE /\ gates = {} /\ isr_handlers = {} /\ irq_handlers = {}
  /\ remapped = FALSE
  /\ irr \in SUBSET {TIMER, KEYBOARD} /\ isr1 = {} /\ isr2 = {}
  /\ obf = (KEYBOARD \in irr)
  /\ fdc = "idle" /\ floppy_irq_done = FALSE /\ sectors = 0
  /\ cmd_mode = FALSE
  /\ events = [l \in Outside \cup Spurious |-> IF l = KEYBOARD THEN MaxKeys ELSE MaxEvents]

IdtInitialize ==
  /\ Goto("idt_initialize", "isr_initialize")
  /\ idtr' = TRUE
  /\ UNCHANGED <<cpu, pic, gates, isr_handlers, irq_handlers, obf, floppy,
                 cmd_mode, events>>

(* isr_initialize_gates fills every entry.                                 *)
FilledGates == 0..255

(* isr_initialize marks every entry present, then 0x80 absent.             *)
IsrInitialize ==
  /\ Goto("isr_initialize", "pic_init")
  /\ gates' = FilledGates \ {128}
  /\ UNCHANGED <<cpu, pic, idtr, isr_handlers, irq_handlers, obf, floppy,
                 cmd_mode, events>>

(* Mutant of PicInit: the vectors stay where the BIOS put them.            *)
PicInitSkipsOffsets ==
  /\ Goto("pic_init", "isr_register")
  /\ irr' = {} /\ isr1' = {} /\ isr2' = {}
  /\ UNCHANGED <<remapped, cpu, tables, obf, floppy, cmd_mode, events>>

(* ICW1 restarts both controllers (what was latched is gone), ICW2 gives   *)
(* them their vectors, and the last two writes clear both masks.           *)
PicInit ==
  /\ Goto("pic_init", "isr_register")
  /\ remapped' = TRUE
  /\ irr' = {} /\ isr1' = {} /\ isr2' = {}
  /\ UNCHANGED <<cpu, tables, obf, floppy, cmd_mode, events>>

(* The loop of irq_initialize over the 16 lines.                           *)
IsrRegister ==
  /\ Goto("isr_register", "enable_interrupts")
  /\ isr_handlers' = isr_handlers \cup 32..47
  /\ gates' = gates \cup 32..47
  /\ UNCHANGED <<cpu, pic, idtr, irq_handlers, obf, floppy, cmd_mode, events>>

EnableInterrupts ==
  /\ Goto("enable_interrupts", "register_timer")
  /\ iflag' = TRUE
  /\ UNCHANGED <<frames, pic, tables, obf, floppy, cmd_mode, events>>

(* Mutant of RegisterDriver: the driver is filed under its vector.         *)
RegisterDriverByVector(line, from, to) ==
  /\ Goto(from, to)
  /\ irq_handlers' = irq_handlers \cup {32 + line}
  /\ UNCHANGED <<cpu, pic, idtr, gates, isr_handlers, obf, floppy, cmd_mode, events>>

(* irq_register_handler.                                                   *)
RegisterDriver(line, from, to) ==
  /\ Goto(from, to)
  /\ irq_handlers' = irq_handlers \cup {line}
  /\ UNCHANGED <<cpu, pic, idtr, gates, isr_handlers, obf, floppy, cmd_mode, events>>

(* Mutant of RegisterInterrupts: fpc_irq goes to the wrong line.           *)
RegisterWithoutFloppy ==
  \/ RegisterDriver(TIMER, "register_timer", "register_keyboard")
  \/ RegisterDriver(KEYBOARD, "register_keyboard", "register_floppy")
  \/ RegisterDriver(7, "register_floppy", "fpc_reset")

(* register_interrupts; it also gives vector 14 to pg_fault, which panics  *)
(* as a vector without a handler does.  The terminal is initialized next.  *)
RegisterInterrupts ==
  \/ RegisterDriver(TIMER, "register_timer", "register_keyboard")
  \/ RegisterDriver(KEYBOARD, "register_keyboard", "register_floppy")
  \/ RegisterDriver(FLOPPY, "register_floppy", "fpc_reset")

(* Leaving reset, the controller answers with an interrupt.                *)
FpcReset ==
  /\ Goto("fpc_reset", "fpc_irq_wait")
  /\ fdc' = "busy"
  /\ UNCHANGED <<cpu, pic, tables, obf, floppy_irq_done, sectors, cmd_mode, events>>

(* while(!floppy_irq_done); one step is one look at the flag.              *)
FpcIrqWait ==
  /\ Goto("fpc_irq_wait", IF floppy_irq_done THEN "fpc_recalibrate" ELSE "fpc_irq_wait")
  /\ UNCHANGED <<cpu, pic, tables, obf, floppy, cmd_mode, events>>

(* fpc_configure and the rest of fpc_init; nothing waits for the interrupt *)
(* the recalibration raises.                                               *)
FpcRecalibrate ==
  /\ Goto("fpc_recalibrate", "splash_screen")
  /\ fdc' = "busy"
  /\ UNCHANGED <<cpu, pic, tables, obf, floppy_irq_done, sectors, cmd_mode, events>>

(* splash_screen switches command mode off (a key may have switched it on  *)
(* already), polls the keyboard's status port, reads the data port, all    *)
(* with interrupts on, and then switches command mode on.                  *)
SplashScreen ==
  /\ Goto("splash_screen", "splash_poll")
  /\ cmd_mode' = FALSE
  /\ UNCHANGED <<cpu, pic, tables, obf, floppy, events>>

SplashPoll ==
  /\ Goto("splash_poll", IF obf THEN "splash_drain" ELSE "splash_poll")
  /\ UNCHANGED <<cpu, pic, tables, obf, floppy, cmd_mode, events>>

(* Mutant of SplashDrain: the byte stays in the controller.                *)
SplashSkipsRead ==
  /\ Goto("splash_drain", "splash_prompt")
  /\ UNCHANGED <<cpu, pic, tables, obf, floppy, cmd_mode, events>>

SplashDrain ==
  /\ Goto("splash_drain", "splash_prompt")
  /\ obf' = FALSE
  /\ UNCHANGED <<cpu, pic, tables, floppy, cmd_mode, events>>

SplashPrompt ==
  /\ Goto("splash_prompt", "bsy_loop")
  /\ cmd_mode' = TRUE
  /\ UNCHANGED <<cpu, pic, tables, obf, floppy, events>>

KernelBsyLoop ==
  /\ Goto("bsy_loop", "bsy_loop")
  /\ UNCHANGED <<cpu, pic, tables, obf, floppy, cmd_mode, events>>

MainStep ==
  \/ IdtInitialize \/ IsrInitialize \/ PicInit \/ IsrRegister
  \/ EnableInterrupts \/ RegisterInterrupts
  \/ FpcReset \/ FpcIrqWait \/ FpcRecalibrate
  \/ SplashScreen \/ SplashPoll \/ SplashDrain \/ SplashPrompt \/ KernelBsyLoop

-----------------------------------------------------------------------------
(* Taking an interrupt.                                                    *)

Level(line) == IF line >= 8 THEN 2 ELSE line      \* the slave hangs on IRQ 2
Lowest(S) == CHOOSE x \in S : \A y \in S : x <= y

(* Fully nested priorities: a line interrupts only levels above its own.   *)
(* Two lines of one level do not occur here (one slave line is modelled).  *)
Deliverable(line) ==
  /\ line \in irr
  /\ \A l \in irr : Level(line) <= Level(l)
  /\ \A s \in isr1 : Level(line) < s
  /\ line >= 8 => \A s \in isr2 : line < s

Vector(line) == IF remapped THEN 32 + line
                ELSE IF line < 8 THEN 8 + line ELSE 104 + line

(* isr_handler_func: a registered vector reaches irq_handler_func, another *)
(* one from 32 on is reported and returns without an end of interrupt, an  *)
(* exception vector panics; without a gate the CPU faults.                 *)
Entry(vector) ==
  IF ~idtr \/ vector \notin gates THEN "panic"
  ELSE IF vector \in isr_handlers THEN "irq_handler_func"
  ELSE IF vector >= 32 THEN "iret" ELSE "panic"

(* Mutant of TakeGate: trap gates leave the flag set.                      *)
TakeTrapGate(line) ==
  /\ iflag
  /\ frames' = Append(frames, [irq |-> line, at |-> Entry(Vector(line))])
  /\ UNCHANGED iflag

(* The gates are 32-bit interrupt gates: taking one clears the flag.       *)
TakeGate(line) ==
  /\ iflag
  /\ iflag' = FALSE
  /\ frames' = Append(frames, [irq |-> line, at |-> Entry(Vector(line))])

Deliver(line) ==
  /\ TakeGate(line)
  /\ Deliverable(line)
  /\ irr' = irr \ {line}
  /\ isr1' = isr1 \cup {Level(line)}
  /\ isr2' = IF line >= 8 THEN isr2 \cup {line} ELSE isr2
  /\ UNCHANGED <<main, remapped, tables, obf, floppy, cmd_mode, events>>

(* A request withdrawn before the CPU acknowledged it: the slave's spurious *)
(* number still puts the master's cascade level in service.                *)
DeliverSpurious(line) ==
  /\ TakeGate(line)
  /\ events[line] > 0
  /\ events' = [events EXCEPT ![line] = @ - 1]
  /\ isr1' = IF line = SPURIOUS2 THEN isr1 \cup {2} ELSE isr1
  /\ UNCHANGED <<main, remapped, irr, isr2, tables, obf, floppy, cmd_mode>>

Running(at) == frames # <<>> /\ frames[Len(frames)].at = at
Irq == frames[Len(frames)].irq
Continue(at) == frames' = [frames EXCEPT ![Len(frames)].at = at]

Commands == cmd_mode /\ main \notin BeforeSti \cup Registering

(* What a character given to the terminal may do, its newline included:    *)
(* nothing here, or end what stands at the prompt as a command: text       *)
(* leaves command mode, pong does so too and goes on to read the floppy.   *)
(* No command is known before terminal_initialize, which follows the       *)
(* registration of the floppy.                                             *)
TerminalPutchar ==
  \/ Continue("eoi") /\ UNCHANGED <<cmd_mode, sectors>>
  \/ Continue("eoi") /\ Commands /\ cmd_mode' = FALSE /\ UNCHANGED sectors
  \/ Continue("fpc_read") /\ Commands /\ cmd_mode' = FALSE /\ sectors' = Sectors

(* irq_handler_func calls the driver of the line.  For a line without one  *)
(* it prints a message, and the newline at the end of the message is one   *)
(* the terminal obeys.                                                     *)
UnhandledIrq ==
  /\ Running("irq_handler_func") /\ Irq \notin irq_handlers
  /\ TerminalPutchar
  /\ UNCHANGED <<main, iflag, pic, tables, obf, fdc, floppy_irq_done, events>>

TimerHandle ==
  /\ Running("irq_handler_func") /\ Irq = TIMER /\ TIMER \in irq_handlers
  /\ Continue("eoi")
  /\ UNCHANGED <<main, iflag, pic, tables, obf, floppy, cmd_mode, events>>

FpcIrq ==
  /\ Running("irq_handler_func") /\ Irq = FLOPPY /\ FLOPPY \in irq_handlers
  /\ floppy_irq_done' = TRUE
  /\ Continue("eoi")
  /\ UNCHANGED <<main, iflag, pic, tables, obf, fdc, sectors, cmd_mode, events>>

(* Mutant of KeyboardHandle: it returns before it reads the data port.     *)
KeyboardSkipsRead ==
  /\ Running("irq_handler_func") /\ Irq = KEYBOARD /\ KEYBOARD \in irq_handlers
  /\ Continue("eoi")
  /\ UNCHANGED <<main, iflag, pic, tables, obf, floppy, cmd_mode, events>>

(* keyboard_handle always reads the data port.  The byte is a key for the  *)
(* terminal, or the End key, which switches command mode on.               *)
KeyboardHandle ==
  /\ Running("irq_handler_func") /\ Irq = KEYBOARD /\ KEYBOARD \in irq_handlers
  /\ obf' = FALSE
  /\ \/ TerminalPutchar
     \/ Continue("eoi") /\ cmd_mode' = TRUE /\ UNCHANGED sectors
  /\ UNCHANGED <<main, iflag, pic, tables, fdc, floppy_irq_done, events>>

(* fpc_read, called by load for each sector inside the interrupt: seek and *)
(* read command (one here), the flag cleared, and then the main status     *)
(* register polled for the result.  The call of fpc_irq_wait is commented  *)
(* out there.                                                              *)
FpcReadCommand ==
  /\ Running("fpc_read") /\ sectors > 0
  /\ fdc' = "busy" /\ floppy_irq_done' = FALSE
  /\ Continue("fpc_read_result")
  /\ UNCHANGED <<main, iflag, pic, tables, obf, sectors, cmd_mode, events>>

(* Mutant of FpcReadResult: fpc_read waits for its interrupt.              *)
FpcReadWaitsForIrq ==
  /\ Running("fpc_read_result") /\ fdc = "idle" /\ floppy_irq_done
  /\ sectors' = sectors - 1
  /\ Continue("fpc_read")
  /\ UNCHANGED <<main, iflag, pic, tables, obf, fdc, floppy_irq_done, cmd_mode, events>>

FpcReadResult ==
  /\ Running("fpc_read_result") /\ fdc = "idle"
  /\ sectors' = sectors - 1
  /\ Continue("fpc_read")
  /\ UNCHANGED <<main, iflag, pic, tables, obf, fdc, floppy_irq_done, cmd_mode, events>>

(* The task pong switches to runs with interrupts off and switches back.   *)
PongReturn ==
  /\ Running("fpc_read") /\ sectors = 0
  /\ Continue("eoi")
  /\ UNCHANGED <<main, iflag, pic, tables, obf, floppy, cmd_mode, events>>

(* pic_end_interrupt: a non-specific end of interrupt retires the highest  *)
(* level in service.                                                       *)
Retire(S) == IF S = {} THEN S ELSE S \ {Lowest(S)}

(* Mutant of PicEndInterrupt: the slave is told nothing.                   *)
EoiToMasterOnly ==
  /\ Running("eoi")
  /\ isr1' = Retire(isr1)
  /\ Continue("iret")
  /\ UNCHANGED <<main, iflag, remapped, irr, isr2, tables, obf, floppy, cmd_mode, events>>

PicEndInterrupt ==
  /\ Running("eoi")
  /\ isr1' = Retire(isr1)
  /\ isr2' = IF Irq >= 8 THEN Retire(isr2) ELSE isr2
  /\ Continue("iret")
  /\ UNCHANGED <<main, iflag, remapped, irr, tables, obf, floppy, cmd_mode, events>>

(* iret restores the flags of the interrupted code, which had it set.      *)
Iret ==
  /\ Running("iret")
  /\ frames' = SubSeq(frames, 1, Len(frames) - 1)
  /\ iflag' = TRUE
  /\ UNCHANGED <<main, pic, tables, obf, floppy, cmd_mode, events>>

HandlerStep ==
  \/ UnhandledIrq \/ TimerHandle \/ FpcIrq \/ KeyboardHandle
  \/ FpcReadCommand \/ FpcReadResult \/ PongReturn \/ PicEndInterrupt \/ Iret

-----------------------------------------------------------------------------
(* The devices.                                                            *)

FdcDone ==
  /\ fdc = "busy"
  /\ fdc' = "idle"
  /\ irr' = irr \cup {FLOPPY}
  /\ UNCHANGED <<main, cpu, remapped, isr1, isr2, tables, obf, floppy_irq_done,
                 sectors, cmd_mode, events>>

(* The keyboard controller raises its line when a byte enters its empty    *)
(* output buffer, and not again before the byte is read.                   *)
Raise(line) ==
  /\ events[line] > 0
  /\ events' = [events EXCEPT ![line] = @ - 1]
  /\ line = KEYBOARD => ~obf
  /\ obf' = (obf \/ line = KEYBOARD)
  /\ irr' = irr \cup {line}
  /\ UNCHANGED <<main, cpu, remapped, isr1, isr2, tables, floppy, cmd_mode>>

Next ==
  \/ MainStep
  \/ HandlerStep
  \/ \E line \in Devices : Deliver(line)
  \/ \E line \in Spurious : DeliverSpurious(line)
  \/ FdcDone
  \/ \E line \in Outside : Raise(line)

(* The CPU keeps executing, the controllers keep presenting what is        *)
(* pending, the floppy controller ends what it was told to do.  Keys,      *)
(* ticks and the other lines owe nothing.                                  *)
Fairness ==
  /\ WF_vars(MainStep)
  /\ WF_vars(HandlerStep)
  /\ WF_vars(\E line \in Devices : Deliver(line))
  /\ WF_vars(FdcDone)

Spec == Init /\ [][Next]_vars /\ Fairness

-----------------------------------------------------------------------------
(* Properties.                                                             *)

TypeOK ==
  /\ main \in MainSteps
  /\ iflag \in BOOLEAN /\ idtr \in BOOLEAN /\ remapped \in BOOLEAN
  /\ gates \subseteq 0..255 /\ isr_handlers \subseteq 0..255
  /\ irq_handlers \subseteq Lines
  /\ irr \subseteq Devices /\ isr1 \subseteq 0..7 /\ isr2 \subseteq 8..15
  /\ frames \in Seq([irq : Lines, at : HandlerSteps])
  /\ obf \in BOOLEAN /\ fdc \in {"idle", "busy"} /\ floppy_irq_done \in BOOLEAN
  /\ sectors \in 0..Sectors /\ cmd_mode \in BOOLEAN
  /\ events \in [Outside \cup Spurious -> Nat]

(* No interrupt handler is ever interrupted by another one: the drivers    *)
(* share the terminal, the heap and the floppy controller without a lock,  *)
(* and pong runs a whole program inside IRQ 1.                             *)
OneHandler == Len(frames) <= 1

(* The levels the controllers hold in service are exactly those of the     *)
(* handlers that have not yet sent their end of interrupt.  Otherwise a    *)
(* level stays blocked for ever, or the EOI of one handler retires the     *)
(* level of another; irq_handler_func sends an EOI for spurious numbers too. *)
Unacknowledged(fs) == {fs[i].irq : i \in {j \in DOMAIN fs : fs[j].at # "iret"}}
InService ==
  /\ isr1 = {Level(l) : l \in Unacknowledged(frames) \ {SPURIOUS1}}
  /\ isr2 = {l \in Unacknowledged(frames) : l >= 8 /\ l # SPURIOUS2}

(* Whatever the order of ticks, keys and disk interrupts during the boot,  *)
(* none reaches a missing gate, an exception vector or the panic of        *)
(* isr_handler_func.                                                       *)
NoPanic == \A i \in DOMAIN frames : frames[i].at # "panic"

(* fpc_init spins on floppy_irq_done with no timeout: while it does, the   *)
(* flag is set or the interrupt that will set it is still to come.         *)
FloppyWait ==
  main = "fpc_irq_wait" =>
    \/ floppy_irq_done
    \/ fdc = "busy"
    \/ FLOPPY \in irr
    \/ \E i \in DOMAIN frames : frames[i] = [irq |-> FLOPPY, at |-> "irq_handler_func"]

(* The keyboard controller raises no new interrupt while its byte is       *)
(* unread, so once the kernel idles a byte must have its interrupt still   *)
(* to come, or the keyboard is dead.  Keys taken while no driver was       *)
(* registered leave their byte behind; the splash screen's read saves it.  *)
NoStuckKeyboard ==
  main = "bsy_loop" /\ obf =>
    \/ KEYBOARD \in irr
    \/ \E i \in DOMAIN frames : frames[i] = [irq |-> KEYBOARD, at |-> "irq_handler_func"]

(* The boot always gets to the splash screen: no interrupt order makes     *)
(* fpc_init wait for ever.                                                 *)
BootReachesSplash == <>(main = "splash_poll")

(* A handler that starts also returns, even one that reads the floppy with *)
(* interrupts disabled.                                                    *)
HandlerReturns == frames # <<>> ~> frames = <<>>

(* While the kernel idles, every byte of the keyboard is read.             *)
KeyServiced == main = "bsy_loop" /\ obf ~> ~obf
=============================================================================
