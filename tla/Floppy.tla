------------------------------- MODULE Floppy -------------------------------
(***************************************************************************)
(* drivers/floppy.c, byte by byte: fpc_init on the main thread, fpc_read   *)
(* in the keyboard interrupt that runs pong, and the controller they both  *)
(* talk to.  A function of the driver is the sequence of its operations on *)
(* the controller and on the driver's variables; main may be interrupted   *)
(* between any two of them, pong's handler is not.  Module Interrupts has  *)
(* the interrupt system itself, module Loader what is done with a read.    *)
(***************************************************************************)
EXTENDS Integers, Sequences

CONSTANTS
  SECTORS_PER_TRACK,   \* 18 in the code
  Sectors,             \* bound: the sectors a pong reads, from sector 0 on,
                       \* of a disk of 80 cylinders
  MaxPongs,            \* bound: the pong commands typed
  EarlyPongs,          \* bound: those that come while fpc_init runs
  DMA_HEEDS_MODE       \* does the DMA controller move bytes the way its mode
                       \* says, as an 8237 does, or the way the floppy
                       \* controller asks for, as an emulator may?

ASSUME FloppyAssumption ==
  /\ SECTORS_PER_TRACK \in 1..255
  /\ Sectors \in 1 .. 160 * SECTORS_PER_TRACK
  /\ MaxPongs \in Nat /\ EarlyPongs \in Nat
  /\ DMA_HEEDS_MODE \in BOOLEAN

Nothing == -1
NULL    == 0
OFF     == 0
ON      == 1
DMABUF  == 1048576   \* dma_beg
LEN     == 512
TO_MEM   == 70       \* 0x46
FROM_MEM == 74       \* 0x4a
NoOutcome == [returned |-> 0, copied |-> Nothing]

VARIABLES
  main,             \* the next operation of fpc_init
  pong,             \* the fpc_read of IRQ 1: running, sector, next operation,
                    \* bytes fetched from the controller
  pongs, early,     \* pong commands so far, and those during fpc_init
  floppy_state, floppy_irq_done, floppy_dmabuf,
  dma,              \* channel 2 of the DMA controller: its address and mode
  fdc,              \* the controller and its drive
  irq6,             \* its interrupt is requested
  ram,              \* the sector that lies in each DMA buffer
  outcome           \* what fpc_read returns to load, and the sector it copied

driver == <<main, pong, pongs, early, floppy_state, floppy_irq_done, floppy_dmabuf, dma, outcome>>
vars == <<driver, fdc, irq6, ram>>

-----------------------------------------------------------------------------
(* The functions of the driver as sequences of operations.                 *)

Op(do, v) == [do |-> do, v |-> v]

(* The wait for RQM before the access and the access are one step: an      *)
(* interrupt between them would leave RQM set.                             *)
FpcSendCmd(byte) == <<Op("outb", byte), Op("wait", 0)>>

(* FpcSendCmd for each of the bytes in turn.                               *)
SendAll(bytes) ==
  [i \in 1 .. 2 * Len(bytes) |-> FpcSendCmd(bytes[(i + 1) \div 2])[IF i % 2 = 1 THEN 1 ELSE 2]]

FpcReadResult == <<Op("inb", 0)>>

(* The outb if the state differs, a pause, and only then the state.        *)
FpcMotor(on) == <<Op("motor", on), Op("floppy_state", on)>>

ClearFlag == <<Op("clear", 0)>>

(* Mutant of FpcReset: the flag is cleared when the wait begins.           *)
FpcResetThenClear == <<Op("dor", 0), Op("dor", 12)>> \o ClearFlag

FpcReset == <<Op("dor", 0), Op("dor", 12)>>

(* The data rate, which nothing here depends on, and SPECIFY.              *)
FpcConfigure == <<Op("wait", 0)>> \o SendAll(<<3, 223, 2>>)

(* RECALIBRATE, and LOCK at the end.                                       *)
FpcInit ==
  FpcReset \o <<Op("irq_wait", 0)>> \o FpcConfigure
  \o FpcMotor(ON) \o SendAll(<<7, 0>>) \o FpcReadResult \o FpcReadResult
  \o FpcMotor(OFF) \o FpcSendCmd(20) \o <<Op("floppy_dmabuf", DMABUF)>>

(* Mutant of LbaToChs: sectors of a track are counted from 0.              *)
LbaToChsFromZero(lba) ==
  LET inCyl == lba % (2 * SECTORS_PER_TRACK)
  IN  [cyl |-> lba \div (2 * SECTORS_PER_TRACK),
       head |-> inCyl \div SECTORS_PER_TRACK, sector |-> inCyl % SECTORS_PER_TRACK]

LbaToChs(lba) ==
  LET inCyl == lba % (2 * SECTORS_PER_TRACK)
  IN  [cyl |-> lba \div (2 * SECTORS_PER_TRACK),
       head |-> inCyl \div SECTORS_PER_TRACK, sector |-> (inCyl % SECTORS_PER_TRACK) + 1]

(* SENSE INTERRUPT: st0 and the cylinder.                                  *)
FloppyFetchRes == FpcSendCmd(8) \o FpcReadResult \o FpcReadResult

(* SEEK, whose interrupt is not awaited; the motor goes off at the right   *)
(* cylinder only.                                                          *)
FloppySeek(chs) ==
  FpcMotor(ON) \o ClearFlag \o SendAll(<<15, chs.head * 4, chs.cyl>>) \o ClearFlag
  \o FloppyFetchRes \o <<Op("arrived", chs.cyl)>> \o FpcMotor(OFF)

(* Mutant of ReadData: the length, which counts only for sectors of 128     *)
(* bytes, is left out.                                                     *)
ReadDataNoLength(chs) ==
  SendAll(<<198, chs.head * 4, chs.cyl, chs.head, chs.sector, 2, SECTORS_PER_TRACK, 27>>)

ReadData(chs) ==
  SendAll(<<198, chs.head * 4, chs.cyl, chs.head, chs.sector, 2, SECTORS_PER_TRACK, 27, 255>>)

(* Mutant of ReadStatus: one byte more than the controller reports.        *)
ReadStatusOneMore == [i \in 1..8 |-> FpcReadResult[1]]

ReadStatus == [i \in 1..7 |-> FpcReadResult[1]]

(* Mutant of FpcRead: the wait that the code has commented out.            *)
FpcReadWaits(lba) ==
  LET chs == LbaToChs(lba)
  IN  FloppySeek(chs) \o FpcMotor(ON) \o <<Op("dma", 0)>> \o ClearFlag
      \o ReadData(chs) \o <<Op("irq_wait", 0)>> \o ClearFlag \o ReadStatus \o <<Op("return", LEN)>>

(* Mutant of FpcRead: the motor is taken to run since the seek.            *)
FpcReadNoMotor(lba) ==
  LET chs == LbaToChs(lba)
  IN  FloppySeek(chs) \o <<Op("dma", 0)>> \o ClearFlag
      \o ReadData(chs) \o ClearFlag \o ReadStatus \o <<Op("return", LEN)>>

(* READ DATA.                                                              *)
FpcRead(lba) ==
  LET chs == LbaToChs(lba)
  IN  FloppySeek(chs) \o FpcMotor(ON) \o <<Op("dma", 0)>> \o ClearFlag
      \o ReadData(chs) \o ClearFlag \o ReadStatus \o <<Op("return", LEN)>>

FpcReads == [lba \in 0 .. Sectors - 1 |-> FpcRead(lba)]

-----------------------------------------------------------------------------
(* The floppy controller: an 82077 as its data sheet has it, and as QEMU   *)
(* has it where the sheet leaves a choice (what a byte written or read out *)
(* of turn does).                                                          *)

Transfers == {2, 5, 6, 9, 12, 22}
ReadCommand == 6
SenseCommand == 8

Parameters(code) ==
  CASE code \in Transfers -> 8
    [] code = 13 -> 5
    [] code = 19 -> 3
    [] code \in {3, 15} -> 2
    [] code \in {4, 7, 10, 18} -> 1
    [] OTHER -> 0

Replied(f, of, values) ==
  [f EXCEPT !.phase = "result",
            !.result = [i \in DOMAIN values |-> [of |-> of, v |-> values[i]]]]

(* After a reset it has one status to report for each of four drives; then *)
(* only the end of a seek.                                                 *)
SenseInterrupt(f) ==
  IF f.sensei > 0 THEN Replied([f EXCEPT !.sensei = @ - 1], SenseCommand, <<196 - f.sensei, f.track>>)
  ELSE IF f.seekend THEN Replied([f EXCEPT !.seekend = FALSE], SenseCommand, <<32, f.track>>)
  ELSE Replied(f, SenseCommand, <<128>>)

Executed(cmd) ==
  LET f == [fdc EXCEPT !.bytes = <<>>]
      code == cmd[1] % 32
  IN  CASE code \in Transfers \cup {10, 13} ->
             [f EXCEPT !.phase = IF fdc.ndma THEN "pio" ELSE "execute", !.bytes = cmd]
        [] code = 3 -> [f EXCEPT !.ndma = (cmd[3] % 2 = 1)]
        [] code = 7 -> [f EXCEPT !.seeking = 0]
        [] code = 15 -> [f EXCEPT !.seeking = cmd[3]]
        [] code = SenseCommand -> SenseInterrupt(f)
        [] code \in {18, 19} -> f
        [] code \in {4, 16, 20} -> Replied(f, code, <<0>>)
        [] OTHER -> Replied(f, code, <<128>>)

(* A byte that comes while a result waits is dropped.                      *)
FdcWritten(byte) ==
  LET cmd == Append(fdc.bytes, byte)
  IN  IF fdc.phase # "command" THEN fdc
      ELSE IF Len(cmd) <= Parameters(cmd[1] % 32) THEN [fdc EXCEPT !.bytes = cmd]
      ELSE Executed(cmd)

(* The bytes a read of the FIFO may return: without DMA, the sector's own. *)
PioBytes == {0, 2, 64}

FdcBytes ==
  CASE fdc.phase = "result" -> {Head(fdc.result)}
    [] fdc.phase = "pio" -> [of : {Nothing}, v : PioBytes]
    [] OTHER -> {[of |-> Nothing, v |-> 0]}

FdcTaken ==
  IF fdc.phase # "result" THEN fdc
  ELSE [fdc EXCEPT !.result = Tail(@),
                   !.phase = IF Len(fdc.result) = 1 THEN "command" ELSE "result"]

(* Bit 2 of the digital output register holds the controller in its reset, *)
(* bit 4 is the motor.                                                     *)
FdcDor(v) ==
  [fdc EXCEPT !.dor = v,
              !.phase = IF (v \div 4) % 2 = 0 THEN "reset"
                        ELSE IF @ = "reset" THEN "starting" ELSE @,
              !.bytes = IF (v \div 4) % 2 = 0 THEN <<>> ELSE @,
              !.result = IF (v \div 4) % 2 = 0 THEN <<>> ELSE @,
              !.seeking = IF (v \div 4) % 2 = 0 THEN Nothing ELSE @,
              !.seekend = IF (v \div 4) % 2 = 0 THEN FALSE ELSE @]

Rqm == fdc.phase \in {"command", "result", "pio"}
MotorRuns == (fdc.dor \div 16) % 2 = 1

FdcReady ==
  /\ fdc.phase = "starting"
  /\ fdc' = [fdc EXCEPT !.phase = "command", !.sensei = 4]
  /\ irq6' = TRUE
  /\ UNCHANGED <<driver, ram>>

FdcSeekDone ==
  /\ fdc.seeking # Nothing
  /\ fdc' = [fdc EXCEPT !.track = fdc.seeking, !.seeking = Nothing, !.seekend = TRUE]
  /\ irq6' = TRUE
  /\ UNCHANGED <<driver, ram>>

Addressed == (fdc.bytes[3] * 2 + fdc.bytes[4]) * SECTORS_PER_TRACK + fdc.bytes[5] - 1

Finished(st0, st1) ==
  fdc' = Replied([fdc EXCEPT !.bytes = <<>>], fdc.bytes[1] % 32,
                 <<st0, st1, 0>> \o SubSeq(fdc.bytes, 3, 5) \o <<2>>)

(* The transfer is done.  Its bytes are in memory if the channel was set   *)
(* to bring them there, or nobody cared how it was set.                    *)
FdcRead ==
  /\ fdc.phase = "execute" /\ fdc.bytes[1] % 32 = ReadCommand
  /\ MotorRuns /\ fdc.seeking = Nothing /\ fdc.track = fdc.bytes[3]
  /\ ram' = IF DMA_HEEDS_MODE /\ dma.mode # TO_MEM THEN ram
            ELSE [ram EXCEPT ![dma.address] = Addressed]
  /\ Finished(0, 0)
  /\ irq6' = TRUE
  /\ UNCHANGED driver

(* Any transfer may fail: no data, or not writable.                        *)
FdcFails ==
  /\ fdc.phase = "execute"
  /\ \E st1 \in {2, 4} :
       fdc' = Replied([fdc EXCEPT !.bytes = <<>>], fdc.bytes[1] % 32, <<64, st1, 0, 0, 0, 1, 2>>)
  /\ irq6' = TRUE
  /\ UNCHANGED <<driver, ram>>

FdcStep == FdcReady \/ FdcSeekDone \/ FdcRead \/ FdcFails

-----------------------------------------------------------------------------
(* The CPU: the next operation of pong's handler, or of main.              *)

Running ==
  IF pong.on THEN FpcReads[pong.lba][pong.next]
  ELSE IF main \in DOMAIN FpcInit THEN FpcInit[main] ELSE Op("kernel_bsy_loop", 0)

Forward(n) ==
  IF pong.on THEN pong' = [pong EXCEPT !.next = @ + n] /\ UNCHANGED main
             ELSE main' = main + n /\ UNCHANGED pong

unmoved == <<pongs, early, ram>>

FpcWait ==
  /\ Running.do = "wait" /\ Rqm
  /\ Forward(1)
  /\ UNCHANGED <<unmoved, floppy_state, floppy_irq_done, floppy_dmabuf, dma, fdc, irq6, outcome>>

Outb ==
  /\ Running.do = "outb" /\ Rqm
  /\ fdc' = FdcWritten(Running.v)
  /\ Forward(1)
  /\ UNCHANGED <<unmoved, floppy_state, floppy_irq_done, floppy_dmabuf, dma, irq6, outcome>>

(* fpc_init only prints what it reads.                                     *)
Inb ==
  /\ Running.do = "inb" /\ Rqm
  /\ \E byte \in FdcBytes :
       IF pong.on
       THEN pong' = [pong EXCEPT !.next = @ + 1, !.got = Append(@, byte)] /\ UNCHANGED main
       ELSE Forward(1)
  /\ fdc' = FdcTaken
  /\ UNCHANGED <<unmoved, floppy_state, floppy_irq_done, floppy_dmabuf, dma, irq6, outcome>>

Dor ==
  /\ Running.do = "dor"
  /\ fdc' = FdcDor(Running.v)
  /\ Forward(1)
  /\ UNCHANGED <<unmoved, floppy_state, floppy_irq_done, floppy_dmabuf, dma, irq6, outcome>>

Motor ==
  /\ Running.do = "motor"
  /\ fdc' = IF floppy_state = Running.v THEN fdc ELSE FdcDor(IF Running.v = ON THEN 28 ELSE 12)
  /\ Forward(1)
  /\ UNCHANGED <<unmoved, floppy_state, floppy_irq_done, floppy_dmabuf, dma, irq6, outcome>>

MotorState ==
  /\ Running.do = "floppy_state"
  /\ floppy_state' = Running.v
  /\ Forward(1)
  /\ UNCHANGED <<unmoved, floppy_irq_done, floppy_dmabuf, dma, fdc, irq6, outcome>>

Clear ==
  /\ Running.do = "clear"
  /\ floppy_irq_done' = FALSE
  /\ Forward(1)
  /\ UNCHANGED <<unmoved, floppy_state, floppy_dmabuf, dma, fdc, irq6, outcome>>

FpcIrqWait ==
  /\ Running.do = "irq_wait" /\ floppy_irq_done
  /\ Forward(1)
  /\ UNCHANGED <<unmoved, floppy_state, floppy_irq_done, floppy_dmabuf, dma, fdc, irq6, outcome>>

(* floppy_dmabuf = dmabuf, the end of fpc_init.                            *)
SetDmabuf ==
  /\ Running.do = "floppy_dmabuf"
  /\ floppy_dmabuf' = Running.v
  /\ Forward(1)
  /\ UNCHANGED <<unmoved, floppy_state, floppy_irq_done, dma, fdc, irq6, outcome>>

(* floppy_dma_init(rw, len), which fpc_read calls with rw = 0.             *)
FloppyDmaInit ==
  /\ Running.do = "dma"
  /\ dma' = [address |-> floppy_dmabuf, mode |-> IF Running.v # 0 THEN TO_MEM ELSE FROM_MEM]
  /\ Forward(1)
  /\ UNCHANGED <<unmoved, floppy_state, floppy_irq_done, floppy_dmabuf, fdc, irq6, outcome>>

(* The end of floppy_seek: at another cylinder the motor stays on.  What   *)
(* it fetched is local to it.                                              *)
Arrived ==
  /\ Running.do = "arrived"
  /\ pong' = [pong EXCEPT !.got = <<>>,
                !.next = IF pong.got[2].v = Running.v THEN @ + 1
                                                      ELSE @ + 1 + Len(FpcMotor(OFF))]
  /\ UNCHANGED <<unmoved, main, floppy_state, floppy_irq_done, floppy_dmabuf, dma, fdc, irq6, outcome>>

AnyBit(byte, bits) == \E bit \in bits : (byte \div bit) % 2 = 1

(* fpc_read's reading of its seven bytes.                                  *)
Error ==
  LET status == [i \in 1..7 |-> pong.got[i].v]
  IN  IF AnyBit(status[2], {2}) THEN 2
      ELSE IF \/ AnyBit(status[1], {8, 64, 128}) \/ AnyBit(status[2], {1, 4, 16, 32, 128})
              \/ AnyBit(status[3], {1, 2, 4, 16, 32, 64}) \/ status[7] # 2
           THEN 1 ELSE 0

(* Mutant of Return: the sector is copied before the status is looked at.  *)
ReturnAlways ==
  /\ Running.do = "return" /\ outcome = NoOutcome
  /\ outcome' = [returned |-> Running.v, copied |-> ram[floppy_dmabuf]]
  /\ UNCHANGED <<unmoved, main, pong, floppy_state, floppy_irq_done, floppy_dmabuf, dma, fdc, irq6>>

(* The sector is copied if nothing failed.                                 *)
Return ==
  /\ Running.do = "return" /\ outcome = NoOutcome
  /\ outcome' = IF Error = 0 THEN [returned |-> Running.v, copied |-> ram[floppy_dmabuf]]
                             ELSE [returned |-> -Error, copied |-> Nothing]
  /\ UNCHANGED <<unmoved, main, pong, floppy_state, floppy_irq_done, floppy_dmabuf, dma, fdc, irq6>>

(* load asks for the next sector whatever it got, or pong is done.  From   *)
(* here on the sector in the buffer is an old one, which is as good as     *)
(* none.                                                                   *)
LoadNext ==
  /\ outcome # NoOutcome
  /\ outcome' = NoOutcome
  /\ pong' = IF pong.lba + 1 < Sectors
             THEN [on |-> TRUE, lba |-> pong.lba + 1, next |-> 1, got |-> <<>>]
             ELSE [on |-> FALSE, lba |-> 0, next |-> 1, got |-> <<>>]
  /\ ram' = [b \in DOMAIN ram |-> Nothing]
  /\ UNCHANGED <<pongs, early, main, floppy_state, floppy_irq_done, floppy_dmabuf, dma, fdc, irq6>>

(* The loops that poll: for RQM, for the flag, and the kernel's own.       *)
Spin ==
  /\ \/ Running.do = "kernel_bsy_loop"
     \/ Running.do = "irq_wait" /\ ~floppy_irq_done
     \/ Running.do \in {"wait", "outb", "inb"} /\ ~Rqm
  /\ UNCHANGED vars

(* IRQ 1 and IRQ 6, which main lets in between any two operations.         *)
Pong ==
  /\ ~pong.on /\ pongs < MaxPongs
  /\ main \in DOMAIN FpcInit => early < EarlyPongs
  /\ early' = IF main \in DOMAIN FpcInit THEN early + 1 ELSE early
  /\ pongs' = pongs + 1
  /\ pong' = [pong EXCEPT !.on = TRUE]
  /\ UNCHANGED <<main, floppy_state, floppy_irq_done, floppy_dmabuf, dma, outcome, fdc, irq6, ram>>

FpcIrq ==
  /\ irq6 /\ ~pong.on
  /\ irq6' = FALSE
  /\ floppy_irq_done' = TRUE
  /\ UNCHANGED <<main, pong, pongs, early, floppy_state, floppy_dmabuf, dma, outcome, fdc, ram>>

DriverStep ==
  \/ FpcWait \/ Outb \/ Inb \/ Dor \/ Motor \/ MotorState \/ Clear \/ FpcIrqWait
  \/ SetDmabuf \/ FloppyDmaInit \/ Arrived \/ Return \/ LoadNext

Next == DriverStep \/ Spin \/ Pong \/ FpcIrq \/ FdcStep

Init ==
  /\ main = 1
  /\ pong = [on |-> FALSE, lba |-> 0, next |-> 1, got |-> <<>>]
  /\ pongs = 0 /\ early = 0
  /\ floppy_state = OFF /\ floppy_irq_done = FALSE /\ floppy_dmabuf = NULL
  /\ dma = [address |-> NULL, mode |-> 0]
  /\ \E track \in {0, 1} :
       fdc = [phase |-> "command", bytes |-> <<>>, result |-> <<>>, ndma |-> FALSE, seeking |-> Nothing,
              seekend |-> FALSE, sensei |-> 0, track |-> track, dor |-> 12]
  /\ irq6 = FALSE
  /\ ram = [b \in {NULL, DMABUF} |-> Nothing]
  /\ outcome = NoOutcome

(* The CPU executes, takes the interrupts that are requested, and the      *)
(* controller ends what it began.                                          *)
Spec ==
  Init /\ [][Next]_vars /\ WF_vars(DriverStep) /\ WF_vars(FpcIrq) /\ WF_vars(FdcStep)

-----------------------------------------------------------------------------
(* Properties.                                                             *)

Byte == 0..255
DmaChannel == [address : {NULL, DMABUF}, mode : {0, TO_MEM, FROM_MEM}]

TypeOK ==
  /\ main \in 1 .. Len(FpcInit) + 1
  /\ pong.on \in BOOLEAN /\ pong.lba \in 0 .. Sectors - 1
  /\ pong.next \in DOMAIN FpcReads[pong.lba]
  /\ pong.got \in Seq([of : Int, v : Byte]) /\ Len(pong.got) <= 7
  /\ pongs \in 0..MaxPongs /\ early \in 0..pongs
  /\ floppy_state \in {OFF, ON} /\ floppy_irq_done \in BOOLEAN
  /\ floppy_dmabuf \in {NULL, DMABUF} /\ dma \in DmaChannel
  /\ irq6 \in BOOLEAN
  /\ DOMAIN ram = {NULL, DMABUF}
  /\ fdc.phase \in {"reset", "starting", "command", "execute", "result", "pio"}
  /\ fdc.phase = "result" <=> fdc.result # <<>>

(* CMD_READ_DATA, "read data from disk": a read that reports its bytes     *)
(* has copied the sector it was asked for, as long as the controller was   *)
(* left in DMA mode.  fpc_read sets the channel "from-mem", so a DMA       *)
(* controller that heeds this brings nothing.                              *)
SectorCopied ==
  ~fdc.ndma /\ outcome.returned = LEN => outcome.copied = pong.lba

(* Where the mode is not heeded it has, whatever commands were lost or     *)
(* interrupted before the read.                                            *)
SectorDelivered == ~DMA_HEEDS_MODE => SectorCopied

(* Once fpc_init is done, a transfer finds the motor running; before, pong *)
(* may come while main has switched the motor off and not yet noted it.    *)
MotorOn == main \notin DOMAIN FpcInit /\ fdc.phase = "execute" => MotorRuns

(* floppy.c, on CMD_SENSE_INTERRUPT: "ack IRQ6, get status of last cmd".   *)
(* What floppy_fetch_res reads is the answer to its command, for every     *)
(* sector but a pong's first, in DMA mode.  For the first it may be what   *)
(* fpc_init has left in the controller, such as the result of LOCK, which  *)
(* nobody reads; but that sector's read, failed or not, puts driver and    *)
(* controller in step.                                                     *)
SenseGetsStatus ==
  ~fdc.ndma /\ Running.do = "arrived" /\ pong.lba # 0 => pong.got[1].of = SenseCommand

(* fpc_init waits without a timeout, and pong's handler clears the flag it *)
(* waits for: the boot goes on all the same.                               *)
InitEnds == <>(main \notin DOMAIN FpcInit)

(* pong's handler ends, although it waits for the controller with          *)
(* interrupts off.                                                         *)
PongEnds == pong.on ~> ~pong.on
=============================================================================
