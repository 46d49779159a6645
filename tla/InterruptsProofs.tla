-------------------------- MODULE InterruptsProofs --------------------------
(***************************************************************************)
(* Proofs, for every number of interrupts, keys and sectors, that the      *)
(* interrupt system of PongOS keeps the invariants of module Interrupts.   *)
(* The inductive invariant IInv adds to them what the order of init_hal    *)
(* establishes: by the time the interrupt flag is set the tables are       *)
(* complete, and by the time fpc_init waits its driver is registered.      *)
(***************************************************************************)
EXTENDS Interrupts, SequenceTheorems, TLAPS

(* The flag is set only while no handler is on the stack, and never before *)
(* enable_interrupts has run.                                              *)
Masked ==
  /\ iflag => frames = <<>>
  /\ main \in BeforeSti => ~iflag /\ frames = <<>>

(* What every step of init_hal has established for those after it.         *)
Dispatchable ==
  /\ main # "idt_initialize" => idtr
  /\ main \notin {"idt_initialize", "isr_initialize"} => 32..47 \subseteq gates
  /\ main \notin {"idt_initialize", "isr_initialize", "pic_init"} => remapped
  /\ main \notin BeforeSti \ {"enable_interrupts"} => 32..47 \subseteq isr_handlers

(* The drivers that are registered once register_interrupts is past them.  *)
Drivers ==
  /\ main \notin BeforeSti \cup {"register_timer", "register_keyboard"}
        => KEYBOARD \in irq_handlers
  /\ main \notin BeforeSti \cup Registering => FLOPPY \in irq_handlers

(* A byte the splash screen did not read itself has its interrupt to come. *)
ByteAnnounced ==
  main \in {"splash_prompt", "bsy_loop"} /\ obf =>
    \/ KEYBOARD \in irr
    \/ \E i \in DOMAIN frames : frames[i] = [irq |-> KEYBOARD, at |-> "irq_handler_func"]

(* A result is waited for only while a sector is still to be read.         *)
Reading == \A i \in DOMAIN frames : frames[i].at = "fpc_read_result" => sectors > 0

IInv == /\ TypeOK /\ OneHandler /\ InService /\ NoPanic /\ FloppyWait
        /\ Masked /\ Dispatchable /\ Drivers /\ ByteAnnounced /\ Reading

-----------------------------------------------------------------------------
(* Sequences of at most one frame.                                         *)

Frame == [irq : Lines, at : HandlerSteps]

(* The empty stack, and a frame pushed on it.                              *)
LEMMA PushFrame ==
  ASSUME NEW f \in Frame
  PROVE  /\ Append(<<>>, f) \in Seq(Frame)
         /\ Len(Append(<<>>, f)) = 1
         /\ DOMAIN Append(<<>>, f) = {1}
         /\ Append(<<>>, f)[1] = f
OBVIOUS

LEMMA NoFrame == Unacknowledged(<<>>) = {} /\ DOMAIN <<>> = {} /\ Len(<<>>) = 0
BY DEF Unacknowledged

(* A stack of one frame.                                                   *)
LEMMA OneFrame ==
  ASSUME NEW s \in Seq(Frame), s # <<>>, Len(s) <= 1
  PROVE  Len(s) = 1 /\ DOMAIN s = {1} /\ s[1] \in Frame
<1>1. Len(s) \in Nat \ {0} /\ DOMAIN s = 1..Len(s)
  BY EmptySeq, LenProperties
<1>2. Len(s) = 1
  BY <1>1
<1>3. s[1] \in Frame
  BY <1>2, ElementOfSeq
<1> QED BY <1>1, <1>2, <1>3

(* The running frame moves on to step a, or is popped.                     *)
LEMMA MoveFrame ==
  ASSUME NEW s \in Seq(Frame), s # <<>>, Len(s) <= 1, NEW a \in HandlerSteps,
         NEW t, t = [s EXCEPT ![Len(s)].at = a]
  PROVE  /\ t \in Seq(Frame)
         /\ Len(t) = 1 /\ DOMAIN t = {1}
         /\ t[1] = [irq |-> s[1].irq, at |-> a]
<1> DEFINE f == [irq |-> s[1].irq, at |-> a]
<1>1. Len(s) = 1 /\ DOMAIN s = {1} /\ s[1] \in Frame
  BY OneFrame
<1>2. [s[1] EXCEPT !.at = a] = f /\ f \in Frame
  BY <1>1 DEF Frame
<1>3. t = [s EXCEPT ![1] = f]
  BY <1>1, <1>2
<1>4. t \in Seq(Frame) /\ Len(t) = Len(s) /\ t[1] = f
  <2>1. /\ [s EXCEPT ![1] = f] \in Seq(Frame)
        /\ Len([s EXCEPT ![1] = f]) = Len(s)
    BY <1>1, <1>2, ExceptSeq
  <2>2. [s EXCEPT ![1] = f][1] = f
    BY <1>1
  <2> QED BY <1>3, <2>1, <2>2
<1>5. DOMAIN t = {1}
  BY <1>1, <1>3
<1> QED BY <1>1, <1>4, <1>5

LEMMA PopFrame ==
  ASSUME NEW s, Len(s) = 1
  PROVE  SubSeq(s, 1, Len(s) - 1) = <<>>
BY SubSeqEmpty

(* What one frame leaves to acknowledge.                                   *)
LEMMA UnacknowledgedOne ==
  ASSUME NEW s, DOMAIN s = {1}
  PROVE  Unacknowledged(s) = IF s[1].at = "iret" THEN {} ELSE {s[1].irq}
BY DEF Unacknowledged

-----------------------------------------------------------------------------
LEMMA InitIInv == Init => IInv
<1> SUFFICES ASSUME Init PROVE IInv
  OBVIOUS
<1> USE DEF Init
<1>1. TypeOK
  <2>1. events \in [Outside \cup Spurious -> Nat]
    BY BoundsAssumption DEF Outside, Spurious
  <2>2. frames \in Seq([irq : Lines, at : HandlerSteps])
    BY EmptySeq
  <2>3. 0 \in 0..Sectors
    BY BoundsAssumption
  <2>4. obf \in BOOLEAN
    OBVIOUS
  <2>5. main \in MainSteps /\ irr \subseteq Devices
    BY DEF MainSteps, BeforeSti, Devices
  <2> QED BY <2>1, <2>2, <2>3, <2>4, <2>5 DEF TypeOK
<1>2. OneHandler /\ InService /\ NoPanic
  BY NoFrame DEF OneHandler, InService, NoPanic
<1>3. FloppyWait /\ Masked /\ Dispatchable /\ Drivers /\ ByteAnnounced /\ Reading
  BY NoFrame DEF Reading, FloppyWait, Masked, Dispatchable, Drivers, ByteAnnounced, BeforeSti, Registering
<1> QED BY <1>1, <1>2, <1>3 DEF IInv

(* The main thread, with no handler on the stack.                          *)
LEMMA MainStepIInv == IInv /\ MainStep => IInv'
<1> SUFFICES ASSUME IInv, MainStep PROVE IInv'
  OBVIOUS
<1> USE DEF IInv
<1>1. frames = <<>> /\ frames' = <<>> /\ main' \in MainSteps
  BY DEF MainStep, Goto, IdtInitialize, IsrInitialize, FilledGates, PicInit, IsrRegister,
         EnableInterrupts, RegisterInterrupts, RegisterDriver, FpcReset, FpcIrqWait,
         FpcRecalibrate, SplashScreen, SplashPoll, SplashDrain, SplashPrompt, KernelBsyLoop,
         cpu, MainSteps, BeforeSti, Registering, FloppyInit, Splash
<1>2. isr1 = {} /\ isr2 = {}
  BY <1>1, NoFrame DEF InService
<1>3. TypeOK'
  <2> USE DEF TypeOK, MainStep, Goto, IdtInitialize, IsrInitialize, FilledGates, PicInit, IsrRegister,
      EnableInterrupts, RegisterInterrupts, RegisterDriver, FpcReset, FpcIrqWait,
      FpcRecalibrate, SplashScreen, SplashPoll, SplashDrain, SplashPrompt, KernelBsyLoop,
      cpu, pic, tables, floppy
  <2>1. iflag' \in BOOLEAN /\ idtr' \in BOOLEAN /\ remapped' \in BOOLEAN
    BY ZenonT(40)
  <2>2. obf' \in BOOLEAN /\ floppy_irq_done' \in BOOLEAN /\ cmd_mode' \in BOOLEAN
    BY ZenonT(40)
  <2>3. gates' \subseteq 0..255 /\ isr_handlers' \subseteq 0..255
    <3>1. gates' \in {gates, 0..255 \ {128}, gates \cup 32..47}
      OBVIOUS
    <3>2. isr_handlers' \in {isr_handlers, isr_handlers \cup 32..47}
      OBVIOUS
    <3>3. gates \subseteq 0..255 /\ isr_handlers \subseteq 0..255
      OBVIOUS
    <3> QED BY ONLY <3>1, <3>2, <3>3
  <2>4. irq_handlers' \subseteq Lines
    BY DEF Lines, Devices
  <2>5. irr' \subseteq Devices /\ isr1' \subseteq 0..7 /\ isr2' \subseteq 8..15
    BY ZenonT(40)
  <2>6. fdc' \in {"idle", "busy"} /\ sectors' \in 0..Sectors
        /\ events' \in [Outside \cup Spurious -> Nat]
    OBVIOUS
  <2>7. frames' \in Seq([irq : Lines, at : HandlerSteps])
    BY <1>1, EmptySeq
  <2> QED BY ONLY <1>1, <2>1, <2>2, <2>3, <2>4, <2>5, <2>6, <2>7 DEF TypeOK
<1>4. OneHandler' /\ NoPanic' /\ Reading'
  BY <1>1, NoFrame DEF OneHandler, NoPanic, Reading
<1>5. InService'
  <2>1. isr1' = {} /\ isr2' = {}
    BY <1>2
    DEF MainStep, Goto, IdtInitialize, IsrInitialize, FilledGates, PicInit, IsrRegister,
      EnableInterrupts, RegisterInterrupts, RegisterDriver, FpcReset, FpcIrqWait,
      FpcRecalibrate, SplashScreen, SplashPoll, SplashDrain, SplashPrompt, KernelBsyLoop, pic
  <2> QED BY <1>1, <2>1, NoFrame DEF InService
<1>6. Masked' /\ Dispatchable' /\ Drivers'
  <2>1. Masked'
    BY <1>1 DEF Masked, cpu,
      MainStep, Goto, IdtInitialize, IsrInitialize, FilledGates, PicInit, IsrRegister,
      EnableInterrupts, RegisterInterrupts, RegisterDriver, FpcReset, FpcIrqWait,
      FpcRecalibrate, SplashScreen, SplashPoll, SplashDrain, SplashPrompt, KernelBsyLoop,
      BeforeSti
  <2>2. Dispatchable'
    BY <1>1 DEF Dispatchable, pic, tables,
      MainStep, Goto, IdtInitialize, IsrInitialize, FilledGates, PicInit, IsrRegister,
      EnableInterrupts, RegisterInterrupts, RegisterDriver, FpcReset, FpcIrqWait,
      FpcRecalibrate, SplashScreen, SplashPoll, SplashDrain, SplashPrompt, KernelBsyLoop,
      BeforeSti
  <2>3. Drivers'
    BY <1>1 DEF Drivers, tables, Registering,
      MainStep, Goto, IdtInitialize, IsrInitialize, FilledGates, PicInit, IsrRegister,
      EnableInterrupts, RegisterInterrupts, RegisterDriver, FpcReset, FpcIrqWait,
      FpcRecalibrate, SplashScreen, SplashPoll, SplashDrain, SplashPrompt, KernelBsyLoop,
      BeforeSti
  <2> QED BY <2>1, <2>2, <2>3
<1>7. FloppyWait' /\ ByteAnnounced'
  BY <1>1, NoFrame
  DEF FloppyWait, ByteAnnounced, MainStep, Goto, IdtInitialize, IsrInitialize, FilledGates, PicInit,
      IsrRegister, EnableInterrupts, RegisterInterrupts, RegisterDriver, FpcReset,
      FpcIrqWait, FpcRecalibrate, SplashScreen, SplashPoll, SplashDrain, SplashPrompt, KernelBsyLoop,
      cpu, pic, floppy
<1> QED BY <1>3, <1>4, <1>5, <1>6, <1>7

(* Taking an interrupt: the flag is set, so the stack is empty and every   *)
(* table is complete.                                                      *)
LEMMA Interruptible ==
  ASSUME IInv, iflag, NEW line \in Lines
  PROVE  /\ frames = <<>> /\ isr1 = {} /\ isr2 = {}
         /\ main \notin BeforeSti
         /\ Entry(Vector(line)) = "irq_handler_func"
<1>1. frames = <<>> /\ main \notin BeforeSti
  BY DEF IInv, Masked
<1>2. isr1 = {} /\ isr2 = {}
  BY <1>1, NoFrame DEF IInv, InService
<1>3. idtr /\ remapped /\ 32..47 \subseteq gates /\ 32..47 \subseteq isr_handlers
  BY <1>1 DEF IInv, Dispatchable, BeforeSti
<1>4. 32 + line \in 32..47
  BY DEF Lines, Devices, Spurious, TIMER, KEYBOARD, FLOPPY, ATA, SPURIOUS1, SPURIOUS2
<1> QED BY <1>1, <1>2, <1>3, <1>4 DEF Entry, Vector

LEMMA DeliverIInv ==
  ASSUME IInv, NEW line \in Lines, TakeGate(line),
         \/ line \in Devices /\ Deliver(line)
         \/ line \in Spurious /\ DeliverSpurious(line)
  PROVE  IInv'
<1> DEFINE f == [irq |-> line, at |-> "irq_handler_func"]
<1> USE DEF IInv
<1>1. frames = <<>> /\ isr1 = {} /\ isr2 = {} /\ main \notin BeforeSti
  BY Interruptible DEF TakeGate
<1>2. frames' = Append(<<>>, f) /\ ~iflag'
  BY <1>1, Interruptible DEF TakeGate
<1>3. f \in Frame
  BY DEF Frame, HandlerSteps
<1>4. frames' \in Seq(Frame) /\ Len(frames') = 1 /\ DOMAIN frames' = {1} /\ frames'[1] = f
  BY <1>2, <1>3, PushFrame
<1>5. TypeOK'
  <2>1. events' \in [Outside \cup Spurious -> Nat]
    BY DEF Deliver, DeliverSpurious, TypeOK
  <2>2. isr1' \subseteq 0..7
    <3>1. Level(line) \in 0..7 /\ 2 \in 0..7
      BY DEF Level, Lines, Devices, Spurious,
             TIMER, KEYBOARD, FLOPPY, ATA, SPURIOUS1, SPURIOUS2
    <3> QED BY <1>1, <3>1 DEF Deliver, DeliverSpurious
  <2>3. isr2' \subseteq 8..15
    <3>1. line >= 8 => line \in 8..15
      BY DEF Lines, Devices, Spurious, TIMER, KEYBOARD, FLOPPY, ATA, SPURIOUS1, SPURIOUS2
    <3> QED BY <1>1, <3>1 DEF Deliver, DeliverSpurious
  <2>4. irr' \subseteq Devices
    BY DEF Deliver, DeliverSpurious, TypeOK
  <2>5. frames' \in Seq([irq : Lines, at : HandlerSteps])
    BY <1>4 DEF Frame
  <2>6. UNCHANGED <<main, idtr, gates, isr_handlers, irq_handlers, remapped, obf,
                    fdc, floppy_irq_done, sectors, cmd_mode>> /\ iflag' = FALSE
    BY DEF Deliver, DeliverSpurious, TakeGate, tables, floppy
  <2>7. TypeOK
    OBVIOUS
  <2> QED BY ONLY <2>1, <2>2, <2>3, <2>4, <2>5, <2>6, <2>7 DEF TypeOK
<1>6. OneHandler' /\ NoPanic' /\ Reading'
  BY <1>4 DEF OneHandler, NoPanic, Reading
<1>7. InService'
  <2>1. Unacknowledged(frames') = {line}
    BY <1>4, UnacknowledgedOne
  <2>2. CASE line \in Devices
    BY <1>1, <2>1, <2>2 DEF InService, Deliver, DeliverSpurious, Level, Devices, Spurious,
       TIMER, KEYBOARD, FLOPPY, ATA, SPURIOUS1, SPURIOUS2
  <2>3. CASE line \in Spurious
    BY <1>1, <2>1, <2>3 DEF InService, Deliver, DeliverSpurious, Level, Devices, Spurious,
       TIMER, KEYBOARD, FLOPPY, ATA, SPURIOUS1, SPURIOUS2
  <2> QED BY <2>2, <2>3 DEF Lines
<1>8. FloppyWait' /\ ByteAnnounced'
  BY <1>1, <1>4 DEF FloppyWait, ByteAnnounced, Deliver, DeliverSpurious, floppy
<1>9. Masked' /\ Dispatchable' /\ Drivers'
  BY <1>1, <1>2 DEF Masked, Dispatchable, Drivers, Deliver, DeliverSpurious, tables
<1> QED BY <1>5, <1>6, <1>7, <1>8, <1>9

(* A handler is on the stack: it is alone, and interrupts are disabled.    *)
LEMMA Handling ==
  ASSUME IInv, frames # <<>>
  PROVE  /\ Len(frames) = 1 /\ DOMAIN frames = {1} /\ frames[1] \in Frame
         /\ Irq = frames[1].irq /\ Irq \in Lines
         /\ ~iflag /\ main \notin BeforeSti
<1>1. frames \in Seq(Frame) /\ Len(frames) <= 1
  BY DEF IInv, TypeOK, OneHandler, Frame
<1>2. Len(frames) = 1 /\ DOMAIN frames = {1} /\ frames[1] \in Frame
  BY <1>1, OneFrame
<1>3. ~iflag /\ main \notin BeforeSti
  BY DEF IInv, Masked
<1> QED BY <1>2, <1>3 DEF Irq, Frame

LEMMA Continuing ==
  ASSUME IInv, frames # <<>>, NEW a \in HandlerSteps, Continue(a)
  PROVE  /\ frames' \in Seq(Frame) /\ Len(frames') = 1 /\ DOMAIN frames' = {1}
         /\ frames'[1] = [irq |-> Irq, at |-> a]
<1>1. frames \in Seq(Frame) /\ Len(frames) <= 1
  BY DEF IInv, TypeOK, OneHandler, Frame
<1>2. frames' = [frames EXCEPT ![Len(frames)].at = a]
  BY DEF Continue
<1>3. /\ frames' \in Seq(Frame) /\ Len(frames') = 1 /\ DOMAIN frames' = {1}
      /\ frames'[1] = [irq |-> frames[1].irq, at |-> a]
  BY ONLY <1>1, <1>2, frames # <<>>, a \in HandlerSteps, MoveFrame
<1> QED BY <1>3, Handling

(* A handler that goes on, without acknowledging: the controllers do not   *)
(* change, and the frame leaves irq_handler_func only when its driver ran. *)
LEMMA HandlerGoesOn ==
  ASSUME IInv, frames # <<>>, frames[1].at # "iret",
         NEW a \in {"eoi", "fpc_read", "fpc_read_result"}, Continue(a),
         UNCHANGED <<main, iflag, pic, tables, events>>,
         obf' \in BOOLEAN, obf' => obf,
         floppy_irq_done' \in BOOLEAN, cmd_mode' \in BOOLEAN,
         sectors' \in 0..Sectors, fdc' \in {"idle", "busy"},
         \/ fdc' = "busy"
         \/ fdc' = fdc /\ floppy_irq_done' = floppy_irq_done
         \/ floppy_irq_done',
         frames[1].at = "irq_handler_func" /\ Irq = FLOPPY
            /\ main \notin BeforeSti \cup Registering => floppy_irq_done',
         frames[1].at = "irq_handler_func" /\ Irq = KEYBOARD
            /\ main \in {"splash_prompt", "bsy_loop"} => ~obf',
         a = "fpc_read_result" => sectors' > 0
  PROVE  IInv'
<1> USE DEF IInv
<1>1. a \in HandlerSteps /\ a # "iret" /\ a # "panic" /\ a # "irq_handler_func"
  BY DEF HandlerSteps
<1>2. /\ frames' \in Seq(Frame) /\ Len(frames') = 1 /\ DOMAIN frames' = {1}
      /\ frames'[1] = [irq |-> Irq, at |-> a]
  BY <1>1, Continuing
<1>3. /\ DOMAIN frames = {1} /\ Irq = frames[1].irq /\ frames[1] \in Frame
      /\ ~iflag /\ main \notin BeforeSti
  BY Handling
<1>4. TypeOK'
  <2>1. frames' \in Seq([irq : Lines, at : HandlerSteps])
    BY <1>2 DEF Frame
  <2>2. UNCHANGED <<main, iflag, remapped, irr, isr1, isr2, idtr, gates,
                    isr_handlers, irq_handlers, events>>
    BY DEF pic, tables
  <2>3. TypeOK
    OBVIOUS
  <2>4. /\ obf' \in BOOLEAN /\ floppy_irq_done' \in BOOLEAN /\ cmd_mode' \in BOOLEAN
        /\ sectors' \in 0..Sectors /\ fdc' \in {"idle", "busy"}
    OBVIOUS
  <2> QED BY ONLY <2>1, <2>2, <2>3, <2>4 DEF TypeOK
<1>5. OneHandler' /\ NoPanic' /\ Reading'
  BY <1>1, <1>2 DEF OneHandler, NoPanic, Reading
<1>6. InService'
  <2>1. Unacknowledged(frames) = {Irq}
    BY <1>3, UnacknowledgedOne
  <2>2. frames'[1].at # "iret" /\ frames'[1].irq = Irq
    BY <1>1, <1>2
  <2>3. Unacknowledged(frames') = {Irq}
    BY <1>2, <2>2, UnacknowledgedOne
  <2> QED BY <2>1, <2>3 DEF InService, pic
<1>7. Masked' /\ Dispatchable' /\ Drivers'
  BY <1>3 DEF Masked, Dispatchable, Drivers, pic, tables
<1>8. FloppyWait'
  BY <1>3 DEF FloppyWait, pic, BeforeSti, Registering
<1>9. ByteAnnounced'
  BY <1>3 DEF ByteAnnounced, pic
<1> QED BY <1>4, <1>5, <1>6, <1>7, <1>8, <1>9

LEMMA DriverIInv ==
  ASSUME IInv,
         \/ UnhandledIrq \/ TimerHandle \/ FpcIrq \/ KeyboardHandle
         \/ FpcReadCommand \/ FpcReadResult \/ PongReturn
  PROVE  IInv'
<1>1. frames # <<>>
  BY DEF UnhandledIrq, TimerHandle, FpcIrq, KeyboardHandle, FpcReadCommand,
         FpcReadResult, PongReturn, Running
<1>2. DOMAIN frames = {1} /\ Irq = frames[1].irq /\ Len(frames) = 1
  BY <1>1, Handling
<1>3. TypeOK /\ Drivers
  BY DEF IInv
<1>4. CASE UnhandledIrq
  <2>1. Irq # FLOPPY \/ main \in BeforeSti \cup Registering
    BY <1>3, <1>4 DEF UnhandledIrq, Drivers
  <2>2. Irq # KEYBOARD \/ main \notin {"splash_prompt", "bsy_loop"}
    BY <1>3, <1>4 DEF UnhandledIrq, Drivers, BeforeSti
  <2>3. PICK a \in {"eoi", "fpc_read"} : Continue(a)
    BY <1>4 DEF UnhandledIrq, TerminalPutchar
  <2>4. sectors' \in 0..Sectors /\ cmd_mode' \in BOOLEAN
    <3>1. sectors' \in 0..Sectors
      BY <1>3, <1>4, BoundsAssumption DEF UnhandledIrq, TerminalPutchar, TypeOK
    <3>2. cmd_mode' \in BOOLEAN
      BY <1>3, <1>4 DEF UnhandledIrq, TerminalPutchar, TypeOK
    <3> QED BY <3>1, <3>2
  <2>5. frames[1].at # "iret"
    BY <1>2, <1>4 DEF UnhandledIrq, Running
  <2>6. UNCHANGED <<main, iflag, pic, tables, obf, fdc, floppy_irq_done, events>>
    BY <1>4 DEF UnhandledIrq
  <2>7. a \in {"eoi", "fpc_read", "fpc_read_result"} /\ a # "fpc_read_result"
    OBVIOUS
  <2>8. obf' \in BOOLEAN /\ fdc' \in {"idle", "busy"} /\ floppy_irq_done' \in BOOLEAN
    BY <1>3, <2>6 DEF TypeOK
  <2> QED BY <1>1, <1>2, <2>1, <2>2, <2>3, <2>4, <2>5, <2>6, <2>7, <2>8, HandlerGoesOn
<1>5. CASE TimerHandle
  <2>1. frames[1].at # "iret" /\ Continue("eoi") /\ Irq = 0
    BY <1>2, <1>5 DEF TimerHandle, Running, TIMER
  <2>2. UNCHANGED <<main, iflag, pic, tables, obf, fdc, floppy_irq_done, sectors,
                    cmd_mode, events>>
    BY <1>5 DEF TimerHandle, floppy
  <2> QED BY <1>1, <1>2, <1>3, <2>1, <2>2, HandlerGoesOn DEF TypeOK, FLOPPY, KEYBOARD
<1>6. CASE FpcIrq
  <2>1. frames[1].at # "iret" /\ Continue("eoi") /\ Irq = 6
    BY <1>2, <1>6 DEF FpcIrq, Running, FLOPPY
  <2>2. UNCHANGED <<main, iflag, pic, tables, obf, fdc, sectors, cmd_mode, events>>
    BY <1>6 DEF FpcIrq
  <2>3. floppy_irq_done' = TRUE
    BY <1>6 DEF FpcIrq
  <2> QED BY <1>1, <1>2, <1>3, <2>1, <2>2, <2>3, HandlerGoesOn DEF TypeOK, KEYBOARD
<1>7. CASE KeyboardHandle
  <2>1. PICK a \in {"eoi", "fpc_read"} : Continue(a)
    BY <1>7 DEF KeyboardHandle, TerminalPutchar
  <2>2. sectors' \in 0..Sectors
    BY <1>3, <1>7, BoundsAssumption DEF KeyboardHandle, TerminalPutchar, TypeOK
  <2>3. cmd_mode' \in BOOLEAN
    BY <1>3, <1>7 DEF KeyboardHandle, TerminalPutchar, TypeOK
  <2>4. frames[1].at # "iret" /\ Irq = 1 /\ obf' = FALSE
    BY <1>2, <1>7 DEF KeyboardHandle, TerminalPutchar, Running, KEYBOARD
  <2>5. UNCHANGED <<main, iflag, pic, tables, fdc, floppy_irq_done, events>>
    BY <1>7 DEF KeyboardHandle, TerminalPutchar
  <2>6. a \in {"eoi", "fpc_read", "fpc_read_result"} /\ a # "fpc_read_result"
    OBVIOUS
  <2>7. obf' \in BOOLEAN /\ ~obf'
    BY <2>4
  <2>8. fdc' \in {"idle", "busy"} /\ floppy_irq_done' \in BOOLEAN
    BY <1>3, <2>5 DEF TypeOK
  <2>9. fdc' = fdc /\ floppy_irq_done' = floppy_irq_done /\ Irq # FLOPPY
    BY <2>4, <2>5 DEF FLOPPY
  <2> QED BY <1>1, <2>1, <2>2, <2>3, <2>4, <2>5, <2>6, <2>7, <2>8, <2>9, HandlerGoesOn
<1>8. CASE FpcReadCommand
  <2>1. /\ frames[1].at = "fpc_read" /\ Continue("fpc_read_result") /\ sectors > 0
        /\ fdc' = "busy" /\ floppy_irq_done' = FALSE
    BY <1>2, <1>8 DEF FpcReadCommand, Running
  <2>2. UNCHANGED <<main, iflag, pic, tables, obf, sectors, cmd_mode, events>>
    BY <1>8 DEF FpcReadCommand
  <2> QED BY <1>1, <1>2, <1>3, <2>1, <2>2, HandlerGoesOn DEF TypeOK
<1>9. CASE FpcReadResult
  <2>1. frames[1].at = "fpc_read_result" /\ Continue("fpc_read")
    BY <1>2, <1>9 DEF FpcReadResult, Running
  <2>2. sectors > 0
    BY <1>2, <2>1 DEF IInv, Reading
  <2>3. sectors' \in 0..Sectors
    BY <1>3, <1>9, <2>2, BoundsAssumption DEF FpcReadResult, TypeOK
  <2>4. UNCHANGED <<main, iflag, pic, tables, obf, fdc, floppy_irq_done, cmd_mode, events>>
    BY <1>9 DEF FpcReadResult
  <2> QED BY <1>1, <1>2, <1>3, <2>1, <2>3, <2>4, HandlerGoesOn DEF TypeOK
<1>10. CASE PongReturn
  <2>1. frames[1].at = "fpc_read" /\ Continue("eoi")
    BY <1>2, <1>10 DEF PongReturn, Running
  <2>2. UNCHANGED <<main, iflag, pic, tables, obf, fdc, floppy_irq_done, sectors,
                    cmd_mode, events>>
    BY <1>10 DEF PongReturn, floppy
  <2> QED BY <1>1, <1>2, <1>3, <2>1, <2>2, HandlerGoesOn DEF TypeOK
<1> QED BY <1>4, <1>5, <1>6, <1>7, <1>8, <1>9, <1>10

(* A non-specific end of interrupt retires the only level in service.      *)
LEMMA RetireOne ==
  ASSUME NEW n \in Nat
  PROVE  Retire({n}) = {} /\ Retire({}) = {}
<1>1. Lowest({n}) = n
  <2>1. \E x \in {n} : \A y \in {n} : x <= y
    OBVIOUS
  <2> QED BY <2>1 DEF Lowest
<1> QED BY <1>1 DEF Retire

LEMMA EoiIInv == ASSUME IInv, PicEndInterrupt PROVE IInv'
<1> USE DEF IInv
<1>1. frames # <<>> /\ Continue("iret") /\ "iret" \in HandlerSteps
  BY DEF PicEndInterrupt, Running, HandlerSteps
<1>2. /\ frames' \in Seq(Frame) /\ Len(frames') = 1 /\ DOMAIN frames' = {1}
      /\ frames'[1] = [irq |-> Irq, at |-> "iret"]
  BY <1>1, Continuing
<1>3. /\ DOMAIN frames = {1} /\ Len(frames) = 1 /\ Irq = frames[1].irq /\ Irq \in Lines
      /\ ~iflag /\ main \notin BeforeSti
  BY <1>1, Handling
<1>4. frames[1].at = "eoi"
  BY <1>3 DEF PicEndInterrupt, Running
<1>5. Unacknowledged(frames) = {Irq} /\ Unacknowledged(frames') = {}
  BY <1>2, <1>3, <1>4, UnacknowledgedOne
<1>6. isr1' = {}
  <2>1. \/ isr1 = {}
        \/ \E n \in Nat : isr1 = {n}
    BY <1>3, <1>5 DEF InService, Level, Lines, Devices, Spurious,
       TIMER, KEYBOARD, FLOPPY, ATA, SPURIOUS1, SPURIOUS2
  <2> QED BY <2>1, RetireOne DEF PicEndInterrupt
<1>7. isr2' = {}
  <2>1. CASE Irq >= 8
    <3>1. \/ isr2 = {}
          \/ \E n \in Nat : isr2 = {n}
      BY <1>3, <1>5 DEF InService, Lines, Devices, Spurious,
         TIMER, KEYBOARD, FLOPPY, ATA, SPURIOUS1, SPURIOUS2
    <3> QED BY <2>1, <3>1, RetireOne DEF PicEndInterrupt
  <2>2. CASE ~(Irq >= 8)
    BY <1>5, <2>2 DEF InService, PicEndInterrupt
  <2> QED BY <2>1, <2>2
<1>8. TypeOK'
  BY <1>2, <1>6, <1>7 DEF TypeOK, Frame, PicEndInterrupt, tables, floppy
<1>9. OneHandler' /\ NoPanic' /\ Reading'
  BY <1>2 DEF OneHandler, NoPanic, Reading
<1>10. InService'
  BY <1>5, <1>6, <1>7 DEF InService
<1>11. Masked' /\ Dispatchable' /\ Drivers'
  BY <1>3 DEF Masked, Dispatchable, Drivers, PicEndInterrupt, tables
<1>12. FloppyWait' /\ ByteAnnounced'
  BY <1>3, <1>4 DEF FloppyWait, ByteAnnounced, PicEndInterrupt, floppy
<1> QED BY <1>8, <1>9, <1>10, <1>11, <1>12

LEMMA IretIInv == ASSUME IInv, Iret PROVE IInv'
<1> USE DEF IInv
<1>1. frames # <<>>
  BY DEF Iret, Running
<1>2. /\ DOMAIN frames = {1} /\ Len(frames) = 1 /\ Irq = frames[1].irq
      /\ main \notin BeforeSti
  BY <1>1, Handling
<1>3. frames' = <<>> /\ iflag'
  BY <1>2, PopFrame DEF Iret
<1>4. frames[1].at = "iret"
  BY <1>2 DEF Iret, Running
<1>5. Unacknowledged(frames) = {}
  BY <1>2, <1>4, UnacknowledgedOne
<1>6. isr1' = {} /\ isr2' = {}
  BY <1>5 DEF InService, Iret, pic
<1>7. TypeOK'
  BY <1>3, <1>6, EmptySeq, ZenonT(40) DEF TypeOK, Iret, pic, tables, floppy
<1>8. OneHandler' /\ NoPanic' /\ InService' /\ Reading'
  BY <1>3, <1>6, NoFrame DEF Reading, OneHandler, NoPanic, InService
<1>9. Masked' /\ Dispatchable' /\ Drivers'
  BY <1>2, <1>3 DEF Masked, Dispatchable, Drivers, Iret, pic, tables
<1>10. FloppyWait' /\ ByteAnnounced'
  BY <1>2, <1>4 DEF FloppyWait, ByteAnnounced, Iret, pic, floppy
<1> QED BY <1>7, <1>8, <1>9, <1>10

(* The devices only add requests.                                          *)
LEMMA DeviceIInv ==
  ASSUME IInv, FdcDone \/ \E line \in Outside : Raise(line)
  PROVE  IInv'
<1> USE DEF IInv
<1>1. CASE FdcDone
  <2>1. TypeOK'
    BY <1>1 DEF TypeOK, FdcDone, cpu, tables, Devices
  <2>2. OneHandler' /\ NoPanic' /\ InService' /\ Masked' /\ Dispatchable' /\ Drivers'
    BY <1>1 DEF FdcDone, OneHandler, NoPanic, InService, Masked, Dispatchable, Drivers,
       cpu, tables
  <2>3. FloppyWait' /\ ByteAnnounced' /\ Reading'
    BY <1>1 DEF FdcDone, FloppyWait, ByteAnnounced, Reading, cpu
  <2> QED BY <2>1, <2>2, <2>3
<1>2. ASSUME NEW line \in Outside, Raise(line) PROVE IInv'
  <2>1. TypeOK'
    <3>1. events' \in [Outside \cup Spurious -> Nat]
      BY <1>2 DEF TypeOK, Raise
    <3>2. obf' \in BOOLEAN /\ irr' \subseteq Devices
      BY <1>2 DEF TypeOK, Raise, Outside, Devices
    <3> QED BY <1>2, <3>1, <3>2 DEF TypeOK, Raise, cpu, tables, floppy
  <2>2. OneHandler' /\ NoPanic' /\ InService' /\ Masked' /\ Dispatchable' /\ Drivers'
    BY <1>2 DEF Raise, OneHandler, NoPanic, InService, Masked, Dispatchable, Drivers,
       cpu, tables
  <2>3. FloppyWait' /\ ByteAnnounced' /\ Reading'
    BY <1>2 DEF Raise, FloppyWait, ByteAnnounced, Reading, cpu, floppy
  <2> QED BY <2>1, <2>2, <2>3
<1> QED BY <1>1, <1>2

-----------------------------------------------------------------------------
LEMMA NextIInv == IInv /\ [Next]_vars => IInv'
<1> SUFFICES ASSUME IInv, [Next]_vars PROVE IInv'
  OBVIOUS
<1>1. CASE MainStep
  BY <1>1, MainStepIInv
<1>2. CASE HandlerStep
  BY <1>2, DriverIInv, EoiIInv, IretIInv DEF HandlerStep
<1>3. CASE \E line \in Devices : Deliver(line)
  <2>1. PICK line \in Devices : Deliver(line)
    BY <1>3
  <2> QED BY <2>1, DeliverIInv DEF Deliver, Lines
<1>4. CASE \E line \in Spurious : DeliverSpurious(line)
  <2>1. PICK line \in Spurious : DeliverSpurious(line)
    BY <1>4
  <2> QED BY <2>1, DeliverIInv DEF DeliverSpurious, Lines
<1>5. CASE FdcDone \/ \E line \in Outside : Raise(line)
  BY <1>5, DeviceIInv
<1>6. CASE UNCHANGED vars
  <2>1. /\ UNCHANGED <<main, iflag, frames, remapped, irr, isr1, isr2, idtr, gates>>
        /\ UNCHANGED <<isr_handlers, irq_handlers, obf, fdc, floppy_irq_done, sectors>>
        /\ UNCHANGED <<cmd_mode, events>>
    BY <1>6 DEF vars, cpu, pic, tables, floppy
  <2>2. TypeOK'
    BY <2>1 DEF IInv, TypeOK
  <2>3. OneHandler' /\ InService' /\ NoPanic'
    BY <2>1 DEF IInv, OneHandler, InService, NoPanic
  <2>4. FloppyWait' /\ ByteAnnounced' /\ Reading'
    BY <2>1 DEF IInv, FloppyWait, ByteAnnounced, Reading
  <2>5. Masked' /\ Dispatchable' /\ Drivers'
    BY <2>1 DEF IInv, Masked, Dispatchable, Drivers
  <2> QED BY <2>2, <2>3, <2>4, <2>5 DEF IInv
<1> QED BY <1>1, <1>2, <1>3, <1>4, <1>5, <1>6 DEF Next

LEMMA Inductive == Spec => []IInv
<1>1. IInv /\ [Next]_vars => IInv'
  BY NextIInv
<1> QED BY InitIInv, <1>1, PTL DEF Spec

(* Every variable keeps its type.                                          *)
THEOREM TypeCorrect == Spec => []TypeOK
<1>1. IInv => TypeOK
  BY DEF IInv
<1> QED BY <1>1, Inductive, PTL

(* No handler is interrupted, whatever interrupts arrive and however long  *)
(* a handler runs.                                                         *)
THEOREM NoNesting == Spec => []OneHandler
<1>1. IInv => OneHandler
  BY DEF IInv
<1> QED BY <1>1, Inductive, PTL

(* The controllers' in-service levels are those of the handlers that have  *)
(* not acknowledged yet.                                                   *)
THEOREM EoiMatchesHandler == Spec => []InService
<1>1. IInv => InService
  BY DEF IInv
<1> QED BY <1>1, Inductive, PTL

(* No interrupt order during the boot makes the kernel panic.              *)
THEOREM BootNeverPanics == Spec => []NoPanic
<1>1. IInv => NoPanic
  BY DEF IInv
<1> QED BY <1>1, Inductive, PTL

(* The wake-up fpc_init waits for is never lost.                           *)
THEOREM NoLostFloppyWakeup == Spec => []FloppyWait
<1>1. IInv => FloppyWait
  BY DEF IInv
<1> QED BY <1>1, Inductive, PTL

(* The idle kernel never leaves a byte in the keyboard controller without  *)
(* an interrupt to come for it.                                            *)
THEOREM KeyboardAlive == Spec => []NoStuckKeyboard
<1>1. IInv => NoStuckKeyboard
  BY DEF IInv, ByteAnnounced, NoStuckKeyboard
<1> QED BY <1>1, Inductive, PTL
=============================================================================
