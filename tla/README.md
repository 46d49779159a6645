# A formal model of PongOS

PongOS is a small 32-bit x86 kernel: it boots from GRUB, sets up the interrupt
system, shows a splash screen and a command line, and with the command `pong`
loads a program from a floppy and runs it as a task.  This directory models the
kernel's own logic in TLA+, checks it with TLC on small instances and proves
what it can with TLAPS for every instance.

Paths below are relative to `src/src/` of the repository.

## 1. Inventory

There is one CPU and no lock.  The main thread runs `kernel_main`, `init_hal`,
the splash screen, and then an empty loop for ever.  Everything else happens in
interrupt handlers: the timer's does nothing, the floppy's sets a flag, and the
keyboard's echoes keys and, at a newline, runs what is written on the command
line, so that `pong` loads and runs a whole program inside IRQ 1.  An interrupt
without a driver prints a message whose newline the terminal obeys like a typed
one, so a command may run inside that interrupt too.

| Component | State it keeps | Operations | Interacts with |
|---|---|---|---|
| Interrupts and boot (`x86/`, `boot/boot.s`) | IDT, handler tables, the two 8259 controllers, the interrupt flag | `init_hal` step by step, `isr_handler_func`, `irq_handler_func`, `pic_end_interrupt` | every driver, through `irq_register_handler` |
| Keyboard (`drivers/keyboard.c`) | caps lock | `keyboard_handle` | terminal (characters, End), splash screen (both read port 0x60) |
| Floppy (`drivers/floppy.c`) | `floppy_irq_done`, `floppy_state` (motor), `floppy_dmabuf`, the DMA channel; the controller's command, result and drive | `fpc_init`, `fpc_read`, `fpc_irq` | interrupts, VFS, terminal (an error message) |
| Timer (`drivers/timer.c`) | none: its counter is commented out | `timer_handle` | interrupts |
| Terminal and commands (`drivers/terminal.c`, `cmds.c`) | cursor, screen, command mode, command line | `terminal_putchar`, `cmd_parser`, `splash_screen`, `pong` | keyboard, interrupts and floppy (messages), loader, tasks |
| Kernel heap (`phy_mem_mgr.c`) | a list of free blocks in the heap's own bytes | `ph_malloc`, `ph_free`, `k_heap_initialize` | `kernel_main`, `pong` |
| Frames (`phy_mem_mgr.c`) | `UMEM_BITMAP` | `ph_frame_alloc`, `ph_mem_initialize` (and `ph_page_free`, never called) | loader |
| Loader and VFS (`load_proc.c`, `drivers/vfs.c`) | the process's `vas_t`, the loop of `load` | `load`, `open`, `read` | frames, floppy, tasks |
| Tasks (`task.c`, `asm_helper.s`) | PCBs, `CUR_TASK_ADDR`, stacks | `create_task`, `switch_task`, `task_begin`, `task_end` | heap, loader |
| Kernel main (`kernel.c`) | the memory map, until the region for DMA is found | `load_mem_info`, `get_free_mem_region` | heap, frames |
| Library (`libf.c`), paging and GDT (`boot/boot.s`) | none after the boot | pure functions, constant tables | all |

What is hard in each, and what makes it correct:

- *Interrupts.* Interrupts are on before the drivers are registered; the splash
  screen and IRQ 1 both read the keyboard's port; `fpc_init` waits for a flag
  without a timeout; one end of interrupt must be sent for each level, two for a
  slave line, and one is sent even for a spurious number.  Correct: no handler
  nests, levels in service match handlers, nothing panics, nothing that is
  waited for is lost, and handlers return.
- *Heap.* Headers and footers lie beside the callers' bytes and one of them is
  written in the wrong place; a merge crosses blocks; a call may leave the list
  cut or cyclic.  Correct: blocks in use never overlap, free blocks lie in the
  heap, the list stays sorted and ends, nothing is lost, calls return.
- *Frames and loader.* Reads fail one by one; the loop counts bytes and sectors
  separately; addresses are fixed for the first process.  Correct: frames are
  exclusive, sectors lie where they belong, nothing runs before it is loaded,
  and a write stays in the process's frames.
- *Terminal.* Keys and messages come between any two characters of the splash
  screen; the command line is read back from the screen, so a scroll, a label, a mode
  switch or a message can leave something on it; wrap, tab and backspace each move
  the cursor in their own way.  Correct: the prompt's row shows what was written
  since its label, by keys and by messages, and only a command written there is run.
- *Tasks.* Two stacks and two PCBs change hands inside an interrupt; a word out of
  place sends a return into data; `cur_task` and `KERNEL_TASK->next_task` go on
  naming a PCB that has been freed.  Correct: every return finds code, a task runs
  as the current task on its own stack, no freed PCB is used, and `pong` comes
  back with its stack and registers.
- *Floppy protocol.* The controller takes a command byte by byte, waits for its
  result to be read, and drops what comes meanwhile; IRQ 1 may run a whole read in
  the middle of `fpc_init`; seek and read end when the drive is done, and nothing
  waits for them; the DMA channel has a direction of its own.  Correct: a read
  that reports success has copied the sector
  asked for, a transfer finds the motor on, and both `fpc_init` and the handler end.

`PROJECT.json` lists every hazard at its line, with the properties that would
catch it or the reason why none does yet.

## 2. Modules

| Module | Models | Notes |
|---|---|---|
| `Interrupts` | the interrupt system, the boot, the drivers' part in it | actions named for the functions; devices are actions of their own |
| `InterruptsProofs` | | invariants of `Interrupts`, proved |
| `Allocator` | what the heap promises its callers | abstract specification |
| `AllocatorProofs` | | that the promise keeps blocks apart |
| `KernelHeap` | `ph_malloc`, `ph_free`, `k_heap_initialize` | memory byte by byte, one step per loop iteration |
| `PongHeap` | `KernelHeap` under the requests of `kernel_main` and `pong`; the memory map | composes; refines `Allocator` |
| `SlotHeap` | `KernelHeap` under a client that takes and returns blocks in any order | composes; refines `Allocator` |
| `Frames` | `ph_frame_alloc` and the bitmap | operators, used by `Loader` |
| `Loader` | `pong`, `load`, `read` | memory by sectors of the floppy |
| `LoaderProofs` | | invariants of `Loader`, proved |
| `PongTask` | `task.c`, `switch_task`, the end of `pong` | composes with `Loader`, and refines it |
| `PongTaskProofs` | | that refinement, and invariants of `PongTask`, proved |
| `PongHeapProofs` | | every property of the heap under the kernel's requests and the refinement of `Allocator`, proved |
| `Floppy` | `floppy.c` operation by operation, and the controller | main and IRQ 1 interleave |
| `FloppyProofs` | | invariants of `Floppy`, proved |
| `Terminal` | `terminal.c`, the keys of `keyboard.c`, the printing of `cmds.c` | keys and messages, beside `fpc_init` and the splash screen |
| `TerminalProofs` | | invariants of `Terminal`, proved |
| `LeastNumbers` | | a set of numbers has a least one: for the two modules that use `Min` |
| `MC...` | | instances for TLC, one `.cfg` per question |

### Interrupts

`main` is the next function of the main thread, and `frames` the stack of
handlers: the main thread steps only while the stack is empty, and an interrupt
may be taken between any two steps while `iflag` is set.  `irr`, `isr1` and
`isr2` are the controllers' request and in-service registers, `obf` the
keyboard controller's "output buffer full" bit, `fdc` whether the floppy
controller has a command to finish.  `Deliver` and `TakeGate` are the CPU and
the controllers, `Entry` is the dispatch of `isr_handler_func`, and one action
per driver is the rest of `irq_handler_func`.  `KeyboardHandle` reads the byte
always; End puts command mode on, and any other key is a character for the
terminal.  What that may do is `TerminalPutchar`: nothing here, command mode off, or
`pong`, which goes on to `FpcReadCommand` and `FpcReadResult` for each sector, still
inside the interrupt.  `UnhandledIrq` prints its line through `TerminalPutchar` too, so
`pong` may run inside IRQ 7 or 14.  A spurious number puts
nothing in service on its own controller, as the 8259 does.  `ATA` stands for
the lines without a driver.

### KernelHeap, PongHeap, SlotHeap, Allocator

The code writes the footer of a block it has split off `HDR_SIZE` bytes short of
the block's end, so headers and footers can overlap one another and the callers'
bytes.  A model with blocks as records would hide that; so `mem` maps addresses
to bytes, `Load` and `Store` are 32-bit little-endian words, comparisons are
unsigned (`Below`), and a size that wraps below zero is a negative word.
The word before the heap, which `ph_free` takes for a footer when it is given the
heap's first block, is the padding before `.bss` (`heap_begin` begins that section
and a page, at 0x206000 in the repository's README) and reads 0.
`call` holds the local variables of the running call; an action is one iteration
of one loop.  `live` is history: the bag of blocks handed out.

`PongHeap` is the sequence of requests the kernel makes.  Between
`ph_malloc` and `ph_free` the callers' writes into their blocks (`Written`) go
through `mem` as well: the bytes the callers write read as zero afterwards, and
any header or footer that lay among them is gone.  Which bytes they write makes
no difference: with another value in their place the run reaches the same
number of states and the same verdicts.  `vas` is
never returned, as in `pong`.  Between the two requests of the boot
`GetFreeMemRegion` looks for the region for DMA in one of `MemoryMaps`, one region
per step: it counts from 0, passes over the first and looks at types only.  The
maps are the one in the repository's README, one without a second free region, and one
that fills the array of 16.  `SlotHeap` is not in the code: it is any client
that uses blocks of one size, and shows what the heap guarantees beyond the one
sequence of calls the kernel happens to make.

`Allocator` says only that a block handed out lies in the arena and overlaps no
block in use; both clients are shown to implement it (`ImplementsAllocator`,
with `live` as it is and the heap's bytes as the arena).

### Frames and Loader

`Frames` gives the bitmap as the set of frames in use, with its length in bytes
cut to eight bits as the code does.  `Loader` is `pong` from the frames on:
`Allocate` three times and `AllocateStack`, then one step per read, `Patch`,
`StartTask` and `TaskEnds`.  `image` holds which sector of the floppy lies at
which address.  A read succeeds, or fails with -1 or -2, and then the code
advances `buf` and `idx` all the same and subtracts the error code from the
bytes it has still to read.  The requests to the heap (`PongHeap`) and the
interrupts a read raises (`Interrupts`) are not repeated there.

### PongTask

`PongTask` extends `Loader`: its `pc` is `"task"` from `create_task` to the end of
`pong`, and there `eip` says which function runs.  `stacks` holds the words of
each stack from its beginning, `esp` the stack in use and the number of words on
it; what lies above that is still there, as in memory.  `SwitchTask` is the
assembly of `switch_task`: it pushes four registers behind the arguments and the
return address its caller pushed, changes stacks, pops four and returns.
`SetupKstack` writes the words it will find.  `regs` are the registers a function
must keep; the task returns with others than it was started with.  A read of a
word that was never written gives `"garbage"`, and a return to it leaves `Code`.
`task_begin` reads its parameter as the word above the return address above
`ebp`, which is what the compiler named in the build script makes of `12(%ebp)`.
The program from the floppy is external: it may do what it likes with its own
words and registers, and returns.

### Floppy

Each function of the driver is a sequence of operations on the controller and on
the driver's variables: `FpcInit` is what main runs, `FpcReads` what `pong` runs
for each sector.  `main` and `pong.next` are places in these sequences.  `Pong`,
the key that starts a read, and `FpcIrq` may come between any two operations of
main, and not during a read.  A wait for RQM and the access after it are one step,
since nothing but the driver's own accesses takes RQM away.  `fdc` is an 82077 as
far as this driver can tell: the command bytes so far, the result bytes to be
read with the command they answer (`of`), the seek on its way, the motor.  What
it does with a byte out of turn, where the data sheet leaves a choice, is what
QEMU does, on which the repository says it runs.  A transfer ends at any time
later, with the sector or with an error.

`dma` is the channel's address and mode, as `FloppyDmaInit` programs them; `fpc_read`
asks for `FROM_MEM`.  `DMA_HEEDS_MODE` says whether the DMA controller moves bytes the
way its mode says, so that such a read delivers nothing, or leaves the direction to
the floppy controller, so that it delivers the sector.

`floppy_state` is 0 or 1, and the tests of the status bytes are the code's masks, bit
by bit.  A sequence of bytes sent is written element by element (`SendAll`).
`FloppyAssumption` says that the disk has at most 80 cylinders and a track at
most 255 sectors, so that cylinder and sector are bytes; the code's disk has 80
and 18.

`ram` is which sector lies in the DMA buffer, and an old one counts as none: a
read that copies what the last one left is caught.  The tracks are short so that
eleven sectors are on both sides of one cylinder and on the next.

### Terminal

`terminal` is the cursor, `cmd_offset`, `line_wrap`, the cells that hold a character,
and `low`, the line at address 0: `extract_char` copies the row through a NULL pointer,
and its caller reads it there.  The operators are the functions of `terminal.c`, from
one terminal to the next.  A name and a handler's message are one character each,
and so is each cell of a label, so that a row of six cells holds a label, a name, a
blank and an argument.  A column at or beyond the end of a row is a cell of a later
row, or of the memory behind the screen, as the index `y * VGA_WIDTH + x` has it.
`Line` is what `usr_cmd` finds from `cmd_offset` on, after `extract_char` has copied the
row from its first column to its first NUL: a key without a character puts a NUL there.

Everything that writes to the terminal is a step.  `Key` is a key's interrupt and
`UnhandledIrq` an interrupt without a driver, whose message is a character and a
newline; both are handled whole (no handler nests, see `NoNesting`) and may come at
any time.  The main thread prints character by character and clears row by row:
`FpcInitError` is the message of `fpc_init` when there is no floppy, `SplashClearLine` to
`SplashLabel` the splash screen, with a step between the clear and the label.  A key may
have brought it into command mode by then, and a newline it prints is then obeyed as
Enter.  `Init` has a screen full of text, any of `EarlyWraps` in `line_wrap` and either
`cmd_offset`, since keys before `terminal_initialize` leave those as they like, and
a line of theirs may lie at address 0.

The history variables say what was written on the line: `prompted`, whether it began at
a label with no wrap behind it; `typed`, the characters before the cursor; `ahead`, those
at the cursor and behind it, which are what came between a clear and the label of
`splash_screen` and what backspace has blanked before them; and `clean`, whether the row
has been kept free of anything else.  `LineIsWritten` and `RunsWhatIsWritten` are stated
for lines that have not wrapped (`OneRow`; `line_wrap` has eight bits and is 0 again
after 256 wraps, so what was written must fit the row as well) and are `clean`.  What
`clean` leaves out really leaves text on a line that nobody wrote there, until the next
clear: a tab or a cursor beyond the row's end, which put characters on later rows; a
key or a message while the main thread clears row by row, which writes on rows
already or not yet cleared; and the label of `splash_screen` put over a line that has
wrapped or is in text mode by then.  The window between the clear and the label is
not left out: what is typed there stays behind the cursor, in `ahead`, and becomes part of
the next command.

The steps are as fine as that: one character, one row, one label.  An interrupt
between the stores of a single `terminal_putchar` or `emit_label` of the main thread is
not modelled.  `line_wrap` outlives the line it counted for, and after that backspace
goes over the prompt (see the hazard at `drivers/terminal.c:260`).

## 3. Runs

| Run | Shows | Bounds and why they are enough |
|---|---|---|
| `interrupts` | six invariants and three liveness properties of the boot and of what follows | `MaxKeys` = 3 bytes: one before the drivers, one for the splash screen, one command; `MaxEvents` = 1 tick, ATA and spurious interrupt each, in any place; `Sectors` = 1, since each sector of `pong` goes through the same two steps and nothing else happens between them |
| `pong_heap` | the heap under the kernel's requests (types, blocks apart and intact, nothing lost, no request refused, refinement) | the 32 KB of the code, three memory maps, `MaxPongs` = 7, all that the heap bears (next line); `MaxBlocks` = 10 blocks of the free list, more than there are |
| `pong_heap_eighth` | *violation*: the eighth `pong` breaks the heap | the same with 8 |
| `slot_heap` | sorted list, intact blocks, returns, refinement | 264 bytes of heap, three blocks of 16 bytes in any order beside the kernel's own, and requests that fail (`TOO_BIG` = 100): every branch of both functions is taken |
| `slot_heap_merge` | *violation*: a merge of blocks that are not consecutive | the same |
| `pong_task` | four invariants of loading, four of the tasks, the types of both, and that `pong` ends | frames for two processes and three `pong`s, so that the third finds none (`UMEM_SIZE` = 36864, eight frames); any three of its reads fail, so that `load` runs past its code frame; two blocks for PCBs, so that one is used again or the other one is |
| `loader_error` | *violation*: one failed read and the task starts without that sector | one `pong`, one error |
| `loader_second` | *violation*: the second task is not patched | two `pong`s |
| `loader_bitmap` | *violation*: the bitmap is written past its end | the code's 32 MB, 257 `pong`s |
| `terminal` | the prompt's row is what was written, and only that is run | 2 rows of 6 columns, a tab of 2, labels of 2 and 3, a message of `fpc_init` of 2, a splash screen of a tab, a text and a newline, `line_wrap` 0 or 1 at the start; any `MaxIrqs` = 4 interrupts without a driver and keys of the `.cfg`, NUL among them, in any place: four fill a row and wrap, or write, erase and enter a line, and every newline on the second row scrolls.  A typed tab, `clear`, `pong` and `exit` are left to the proofs; End and `text` go through the same clear |
| `floppy` | what reads deliver, the motor, whose answer a status is, that `fpc_init` and reads end | a DMA controller that leaves the direction to the floppy controller (`DMA_HEEDS_MODE` = FALSE); two `pong`s of `Sectors` = 11 with `SECTORS_PER_TRACK` = 5, so that both heads and a second cylinder are read; one of them may come anywhere in `fpc_init` (`EarlyPongs` = 1); every transfer may fail |
| `floppy_dma` | *violation*: a read that reports success has copied nothing | one `pong` after the boot, on a DMA controller that heeds its mode |

`EarlyPongs` = 1 is a limit of the code and not of the run: with two pongs during
`fpc_init`, one that leaves `floppy_state` set and one between the two `outb` of
`fpc_reset`, the handler waits for RQM for ever, since main cannot end the reset
any more.  `PongEnds` fails there.  It takes End and `pong` typed twice within the
first milliseconds of the driver, and nothing in the repository says that it
should work.  For the same reason `SectorDelivered` and `SenseGetsStatus` are stated for a controller
in DMA mode (a `pong` between the bytes of SPECIFY puts it into the other one,
where data bytes are taken for the status), and `MotorOn` for the time after
`fpc_init`.

With four blocks instead of three the client of `SlotHeap` gets one block twice:
the wrongly merged block of `slot_heap_merge` then overlaps another, and
`LiveIntact`, `PointersValid` and `ImplementsAllocator` fail.  The kernel itself
never holds as many blocks of one size in such an order; what `slot_heap` shows
is that up to three are safe.

Deadlock is checked in every run: the kernel idles in its busy loop.

What the violations mean is in `findings` of `PROJECT.json`, each with the line
of the code and the comment it contradicts: the split of a block with no room
for a second header, the footer written short of the block's end, the failed
read that is skipped, the patch at an absolute address, the bitmap's length
that is cut to eight bits and is larger than its array, and the DMA mode that says
"from-mem" for a read.  The DMA mode matters only on a controller that heeds
it: QEMU lets the floppy controller move the sector to memory all the same, and
the run `floppy` shows that the driver then works.

Four things a reader may stumble over are in the models and no finding.
`fpc_init` does not read the result of LOCK, so that the first SENSE INTERRUPT of a
`pong` gets that byte for its answer (`SenseGetsStatus` is about the later ones); it does
no lasting harm: the first read's SEEK and SENSE
INTERRUPT are lost, the drive is at cylinder 0 where that read wants it, and from
the READ on driver and controller are in step, which `SectorDelivered` checks.
An interrupt without a driver prints its message onto the command line and enters
it (`x86/irq.c:21`): an empty line or a name alone becomes an unknown command, and a name with a
blank behind it runs, with the message in its arguments.  What is typed between the
splash screen's last clear and its label becomes part of the next command.  And the
region for DMA is the first free one behind number 0, wherever it lies: the comment at `kernel.c:69` ("after 1MB") is right where
the memory below 1 MB is one free region and reported first.

Every property of a passing run has a mutant: an operator beside the definition
it changes ("Mutant of ..."), a plausible slip in that code under which TLC finds
the property violated.

## 4. Fairness

- `Interrupts`: the CPU executes (`MainStep`, `HandlerStep`), the controllers
  present what is pending (`Deliver`), and the floppy controller ends what it was
  told to do (`FdcDone`): all weak.  Ticks, keys and the other lines owe nothing,
  so `BootReachesSplash` does not depend on any of them; in particular nothing
  but the floppy's own interrupt ends the wait of `fpc_init`.
- `SlotHeap`: the CPU finishes the call it runs.  This is `WF_vars(HeapRuns)` with
  its ENABLED written out as a state predicate (TLC evaluates ENABLED over the
  byte map slowly): a heap step is enabled in every call, and changes the state
  unless the walk has reached a block that points to itself (`Spinning`), which
  is how such a loop looks in this model and which `CallsReturn` must be able to
  see.
- `PongTask`: the CPU executes `pong` (`WF_allVars(PongStep)`); reads may fail as
  often as `MaxErrors` allows.  Without such a bound `PongEnds` would be false: if
  every read fails, `load`'s loop has no end.
- `Floppy`: the CPU executes (`DriverStep`), it takes IRQ 6 when it may (`FpcIrq`),
  and the controller ends what it began (`FdcStep`), all weak.  Nothing makes a
  transfer succeed, and no `pong` has to come.
- `PongHeap`, `Loader` and `Terminal` have safety properties only, and no fairness.

## 5. Proofs

All theorems are checked to the last leaf, for every value of the constants
under the named assumptions of the modules.

`InterruptsProofs` (`TypeCorrect`, `NoNesting`, `EoiMatchesHandler`,
`BootNeverPanics`, `NoLostFloppyWakeup`, `KeyboardAlive`): for any number of
keys, interrupts and sectors.  None of these is inductive alone.  `IInv` adds
what `init_hal` establishes in order: the flag is set only when no handler runs
(`Masked`, so that a handler starts on an empty stack), the tables are complete
before it is set for the first time (`Dispatchable`), the drivers are registered
before they are relied on (`Drivers`), a byte the splash screen left has its
interrupt to come (`ByteAnnounced`), and a result is awaited only while a sector
is left (`Reading`).  `BootNeverPanics` rests on `Dispatchable`;
`NoLostFloppyWakeup` and `KeyboardAlive` on `Drivers`.

`AllocatorProofs` (`BlocksStayApart`): the abstract allocator keeps all blocks
in use disjoint and hands none out twice, for any arena and any sizes but zero.
By `ImplementsAllocator` this is what the heap's clients get: the kernel, by
`HeapKeepsPromise` below, and the client of `SlotHeap` in the instance checked.

`LoaderProofs` (`TypeCorrect`, `FramesStayExclusive`, `SectorsInPlace`,
`NothingRunsUnloaded`, `WritesStayInside`): for any length of user memory and any
number of `pong`s.  `FInv` says that the frames in use are exactly the first
`Count`, four per process in a fixed order: `FramesExclusive` alone is not
inductive, because nothing in it keeps a frame in use from being the first free
one.  The length of the bitmap is a multiple of eight, so the frames run out
between processes and never within one, and a process either has all four or
none.  `LInv` adds what `load` has read: bytes to read plus 512 for each sector
passed is at most 4096 plus 514 for each failed read.  With `FewErrors` (at most
22 failed reads since the boot) that ends the loop before its 32nd read, so no
sector reaches the task's first stack frame or the next process's frames.  The
bound is needed: with 23 failed reads the last sector lies where `create_task`
writes, with 24 the loop leaves the process's four frames.

`PongTaskProofs`: for any number of `pong`s and PCBs.  `TasksImplementLoader` maps
each step to one of `Loader` or to a stutter, so the theorems above hold of
`TaskSpec`, which the run `pong_task` checks.  `TInv` gives, for each function that
may run, what lies on the two stacks (`Switched`, `TaskFrame`), where `kernel_sp`
of both PCBs points and which registers are in use; its steps are one lemma per
function.  `TasksTypeCorrect`, `TasksRunAsCurrent`, `PcbsOutliveTasks`,
`ReturnsReachCode` and `PongComesBackIntact` follow from it.  The task's stack is
not the kernel's because `FInv` gives its address (`StackOfTask`).

`TerminalProofs` (`TypeCorrect`, `LineShowsWhatWasWritten`, `OnlyWrittenCommandsRun`):
for a screen of any size, any splash text, any keys and interrupts and any number of
them.  `LineIsWritten` is not inductive: a line that has wrapped can come back to one
row by backspace, and what its row shows then depends on what the rows above it
showed.  `TInv` therefore says of every line with a prompt, however long, that the
label and what was written end at the cursor, as far as they have not been scrolled
off the screen (`LineEnds`), that nothing but `ahead` lies at the cursor and behind it
(`AtEnd`, `Ahead`), and that `line_wrap` counts the rows in eight bits (`Wraps`); while
the main thread is in a loop it says how far the screen is cleared (`ClearedTo`) and
where the loop's counter is (`LoopInv`).  Each function of `terminal.c` has a lemma on
the cells it writes, and one on what that makes of a line.  `OnlyWrittenCommandsRun`
follows because what `extract_char` reads is then the row that `LineIsWritten` describes
(`RowLine`), whatever lies at address 0 before, and so a command that runs is the first
word of it (`RunsRow`).

`PongHeapProofs` (`HeapTypeCorrect`, `BlocksInUseIntact`, `BlocksFit`,
`ListSorted`, `NoByteLost`, `NoRequestRefused`, `KernelNeverMerges`,
`HeapKeepsPromise`, `BlocksShareNoByte`): for every memory map, up to seven
`pong`s, and any heap with `Room`: it holds the memory map's block, a header and
a footer behind it and room for one more block (441 bytes; `boot.s` gives it 32
KB), and it ends below 2^31, where no address or size is a negative word
(`boot.s` puts it at about 2 MB).  Seven is the code's own limit and not the
proof's: the eighth `pong` splits a block with no room for a second header
(`pong_heap_eighth`).  `MaxBlocks` says only how far the properties follow the
list; it must be followed for its four blocks to show that it ends (`MaxBlocks
>= 4` in `ListSorted`) or that all blocks are met (`>= 3` in `NoByteLost`).

The argument goes up from the bytes.  A word stored is the word loaded, and
words apart from it are undisturbed (`StoreWrote`, `PokePoked`); so the order of
the code's stores shows what `Split`, `Take` and the insertion of a block do to
the headers and footers they touch, and that they touch no others (`SplitDoes`,
`TakeDoes`, `PushDoes`, `InsertDoes`).  The footer that `Split` writes short of
the block's end lies in the split-off block's own bytes, so it harms no block in
use.  A *layout* is a set of blocks in use and a set of free blocks with their
links (`Holds`), which lie apart (`Fits`); each call takes one layout to another
(`TakesPart`, `TakesAll`, `PutsFirst`, `Searches`, `PutsBetween`), and so do the
callers' own writes (`Obtained`).  None of the properties is inductive, nor is
their conjunction: a free block before the one given back would be merged and
the list cut, and a block a little larger than the request would be split with
no room for a second header.  The invariant `HInv` therefore names the layout at
every place of `kernel_main` and of the k-th `pong`, as a function of k: the
address spaces that earlier `pong`s kept, the file's place, which every `pong`
takes and gives back, and the rest, 36 bytes smaller each time.  There is one
lemma per place (`StartingStep` to `TaskFreedStep`).  From it follow the
properties, and more than they say: `ph_malloc` always finds its block at the
head of the list, and `ph_free` finds a block in use, or none, before the one it is given,
so it never merges.  That is why the findings about footers and merging
(`slot_heap_merge`) do the kernel no harm. `HeapKeepsPromise` maps `MallocTake`
to the abstract `Malloc`, the call of `ph_free` to `Free` and every other step
to a stutter.

`FloppyProofs` (`TypeCorrect`, `ReadsDeliverTheSector`, `TransfersFindTheMotorOn`): for
any number of `pong`s, any number of them in the middle of `fpc_init`, any length of track and
any disk of up to 80 cylinders; the first on a DMA controller that leaves the direction to
the floppy controller, since on one that heeds the mode it is false (`floppy_dma`).  `SectorDelivered` and `MotorOn` are about two moments
of a read, so the invariant follows driver and controller from one to the
other.  `Left` says what main may have left in the controller at each of its 24
places: nothing, the first bytes of a command, the one byte that answers LOCK
or a byte that is no command, a controller in its reset, one in the mode without DMA, or a
READ TRACK that nobody meant: when a `pong`'s bytes have completed main's SPECIFY, main's last one
is taken for the code of that command.  `Path` says what becomes of each of
these at each of the 48 places of `fpc_read`: either SENSE INTERRUPT and its two
reads have put the controller in step before READ DATA is sent, or the bytes of
READ DATA complete READ TRACK, whose answer begins with status 64, which the
driver takes for an error; so a success means that the nine bytes were taken as
they were sent.  Every read of a sector but the first finds the controller in
step.  `MotorKnown` says where `floppy_state` and the motor may differ.  There is one
lemma per action, resting on lemmas about what each byte does to the controller
(`FirstByte`, `SecondByte`, `ThirdByte`, `TrackByte`, `ReadByte`, `TakenByte`).

Model-checked only:

- `SenseGetsStatus`, which would need the results' origin followed through `Path`.
- Liveness and ENABLED, which are out of the provers' reach: `InitEnds`, both
  `PongEnds`, `CallsReturn` and the three properties of `Interrupts`.
- The properties of `SlotHeap`, `PointersValid` among them.  They are not
  theorems of the heap whoever calls it: with a fourth block they fail (section
  3), and with three they hold because of the sizes and the order of the blocks,
  which only a run goes through.

## 6. Not modelled

- Colours and the hardware cursor: no property depends on them.
- What a key between `register_interrupts` and `terminal_initialize` writes through
  a NULL pointer, beyond the line it may leave at address 0; what it leaves in the
  terminal's variables is modelled.
- Memory maps of more than 16 regions, which `load_mem_info` would write past its
  array, and what `kernel_main` reads as `dma_beg` behind the map when no region but the
  first is free: `dma_reg` is then the number the code computes, with no address.
- Caps lock puts other characters in place of the same keys, and `Terminal` takes
  any characters.
- Page faults and other exceptions: each ends in `panic()`.
- PIC operations, `get_new_pd`, `get_new_pt`, `write`, the FILE branch of `load`
  and all of `virt_mem_mgr.c`: without a caller, or commented out.
- Paging and the GDT: set once in `boot.s` and never changed.
- In `Interrupts` a driver runs in one or two steps.  With interrupts off nothing
  can come between; main's own port accesses in `fpc_init`, where it can, are in
  `Floppy`.
- That LOCK is sent without the bit that locks: nothing resets the controller
  afterwards.
- What the program on the floppy does, beyond returning and keeping to its words
  of the stack.  Its own `printf` is the kernel's, patched in.
- The library's `printf` of numbers and `bin_search`: no caller in the kernel but
  `foo`, which has none itself.
- With no frame left `load` writes to address 0.  `Loader` reaches that state,
  in the third `pong` of its run, and the properties speak of processes that
  were given frames.
- Vendored and generated files, build scripts, the application on the floppy.

## 7. Plan

Done, in this order: 1. `Interrupts` and its proofs; 2. `Allocator`,
`KernelHeap`, `PongHeap`, `SlotHeap`; 3. `Frames`, `Loader` and its proofs;
4. `PongTask` and its proofs; 5. `Terminal`; 6. `Floppy`; 7. the memory map, in
`PongHeap`; 8. the proofs about `Terminal` and `Floppy`; 9. the
proofs about `PongHeap`, from words in memory to the refinement of `Allocator`.

Open: the heap under other callers.  A general theorem needs a heap whose merge is
guarded by what the findings show to be missing.
