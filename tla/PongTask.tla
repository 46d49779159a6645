------------------------------ MODULE PongTask ------------------------------
(***************************************************************************)
(* task.c, switch_task of asm_helper.s, and the end of pong in cmds.c: the *)
(* program that Loader has put into memory is run as a task, and comes     *)
(* back to the kernel through task_end.  All of it happens inside the      *)
(* keyboard interrupt, with interrupts off, so a function is one step; what *)
(* can go wrong is the words on the stacks, the registers and the PCBs.    *)
(***************************************************************************)
EXTENDS Loader, Sequences

CONSTANTS
  Pcbs,         \* the blocks of the heap that a PCB may be given
  KERNEL_TASK   \* the kernel's own PCB, which is never freed

ASSUME PongTaskAssumption == KERNEL_TASK \notin Pcbs

KERNEL_STACK == -1
Code == {"pong", "switch_task", "pong_return", "task_begin", "task_entry", "task_end"}

VARIABLES
  task,        \* pong's local variable
  allocated,   \* the PCBs taken from the heap and not given back
  cur_task,    \* what CUR_TASK_ADDR points to
  next_task, kernel_sp,   \* those fields of every PCB
  stacks,      \* the words of every stack, from its beginning
  esp,         \* the stack in use and the number of words on it
  regs,        \* the registers a function must leave as it found them
  eip          \* the code that runs next

taskVars == <<task, allocated, cur_task, next_task, kernel_sp, stacks, esp, regs, eip>>
allVars == <<vars, taskVars>>

-----------------------------------------------------------------------------
(* What the registers hold in pong, and in the task when task_end calls    *)
(* switch_task.                                                            *)
PongRegs == [ebx |-> "ebx of pong", esi |-> "esi of pong", edi |-> "edi of pong", ebp |-> "ebp of pong"]
TaskRegs == [ebx |-> "ebx of task", esi |-> "esi of task", edi |-> "edi of task", ebp |-> "ebp of task"]

Saved == <<regs.ebx, regs.esi, regs.edi, regs.ebp>>

Used(words, depth) == SubSeq(words, 1, depth)
Word(words, i) == IF i \in DOMAIN words THEN words[i] ELSE "garbage"

(* Mutant of SetupKstack: the place of ebp is left out.                    *)
SetupKstackShort(t) ==
  <<t, "task_end", "task_entry", "task_begin", regs.ebx, regs.esi, regs.edi>>

SetupKstack(t) == <<t, "task_end", "task_entry", "task_begin">> \o Saved

(* Mutant of NextOf: the task is to be followed by the one that runs now.  *)
NextOfCurrent == cur_task

(* create_task's next_task, in pong.                                       *)
NextOf == KERNEL_TASK

(* ph_malloc and create_task.                                              *)
CreateTask ==
  /\ eip = "pong"
  /\ \E t \in Pcbs \ allocated :
       /\ task' = t
       /\ allocated' = allocated \cup {t}
       /\ next_task' = [next_task EXCEPT ![t] = NextOf]
       /\ stacks' = [s \in DOMAIN stacks \cup {vas.stack_begin} |->
            IF s = vas.stack_begin THEN SetupKstack(t) ELSE stacks[s]]
       /\ kernel_sp' = [kernel_sp EXCEPT ![t] =
            [stack |-> vas.stack_begin, depth |-> Len(SetupKstack(t))]]
  /\ eip' = "switch_task"
  /\ UNCHANGED <<cur_task, esp, regs>>

(* Mutant of PopRegisters: popped in the order they were pushed.           *)
PopInOrder(words, d) ==
  [ebx |-> Word(words, d), esi |-> Word(words, d - 1),
   edi |-> Word(words, d - 2), ebp |-> Word(words, d - 3)]

PopRegisters(words, d) ==
  [ebp |-> Word(words, d), edi |-> Word(words, d - 1),
   esi |-> Word(words, d - 2), ebx |-> Word(words, d - 3)]

(* Called with the return address ret: the arguments and ret are pushed by *)
(* the caller, the registers by switch_task, which then changes stacks,    *)
(* pops them and returns to whatever comes next there.                     *)
SwitchTask(old, new, ret) ==
  LET pushed == Used(stacks[esp.stack], esp.depth) \o <<new, old, ret>> \o Saved
      sp  == [kernel_sp EXCEPT ![old] = [stack |-> esp.stack, depth |-> Len(pushed)]]
      to  == sp[new]
      mem == [stacks EXCEPT ![esp.stack] = pushed]
  IN  /\ kernel_sp' = sp
      /\ stacks' = mem
      /\ regs' = PopRegisters(mem[to.stack], to.depth)
      /\ eip' = Word(mem[to.stack], to.depth - 4)
      /\ esp' = [stack |-> to.stack, depth |-> to.depth - 5]

(* KERNEL_TASK->next_task = task; switch_task(KERNEL_TASK, task).          *)
SwitchToTask ==
  /\ eip = "switch_task"
  /\ next_task' = [next_task EXCEPT ![KERNEL_TASK] = task]
  /\ SwitchTask(KERNEL_TASK, task, "pong_return")
  /\ UNCHANGED <<task, allocated, cur_task>>

Top == Word(stacks[esp.stack], esp.depth)

(* Mutant of Ret: the function called takes its argument off the stack.    *)
RetStdcall == eip' = Top /\ esp' = [esp EXCEPT !.depth = @ - 2]

Ret == eip' = Top /\ esp' = [esp EXCEPT !.depth = @ - 1]

(* Mutant of Param1: one word too near.                                    *)
Param1TooNear == Word(stacks[esp.stack], esp.depth - 1)

(* 12(%ebp), with ebp pushed below the return address, as i686-elf-gcc     *)
(* does at -O2.                                                            *)
Param1 == Word(stacks[esp.stack], esp.depth - 2)

(* It returns to task_entry.                                               *)
TaskBegin ==
  /\ eip = "task_begin"
  /\ cur_task' = Param1
  /\ Ret
  /\ UNCHANGED <<task, allocated, next_task, kernel_sp, stacks, regs>>

(* The program from the floppy, if it keeps to the calling convention: it  *)
(* returns, to task_end.                                                   *)
TaskEntry ==
  /\ eip = "task_entry"
  /\ Ret
  /\ regs' = TaskRegs
  /\ UNCHANGED <<task, allocated, cur_task, next_task, kernel_sp, stacks>>

TaskEnd ==
  /\ eip = "task_end"
  /\ SwitchTask(cur_task, next_task[cur_task], "garbage")
  /\ UNCHANGED <<task, allocated, cur_task, next_task>>

(* Back in pong, which drops the arguments and frees its PCB.  cur_task    *)
(* and KERNEL_TASK->next_task still name it.                               *)
PongReturn ==
  /\ eip = "pong_return"
  /\ esp' = [esp EXCEPT !.depth = @ - 2]
  /\ allocated' = allocated \ {task}
  /\ eip' = "pong"
  /\ UNCHANGED <<task, cur_task, next_task, kernel_sp, stacks, regs>>

-----------------------------------------------------------------------------
InTask == SwitchToTask \/ TaskBegin \/ TaskEntry \/ TaskEnd

Loads ==
  \/ \E field \in Fields \ {"stack_begin"} : Allocate(field)
  \/ AllocateStack \/ ReadSector \/ Patch
  \/ \E code \in {-1, -2} : ReadError(code)

(* Loader's pc is "task" from create_task to the end of pong.              *)
PongStep ==
  \/ Loads /\ UNCHANGED taskVars
  \/ StartTask /\ CreateTask
  \/ pc = "task" /\ InTask /\ UNCHANGED vars
  \/ TaskEnds /\ PongReturn

(* A return to what is no code goes nowhere.                               *)
Idle == (pc = "bsy_loop" \/ eip \notin Code) /\ UNCHANGED allVars

TaskNext == (Pong /\ UNCHANGED taskVars) \/ PongStep \/ Idle

(* kernel_main: init_kernel_task.                                          *)
TaskInit ==
  /\ Init
  /\ task = KERNEL_TASK /\ allocated = {KERNEL_TASK}
  /\ cur_task = KERNEL_TASK
  /\ next_task = [p \in Pcbs \cup {KERNEL_TASK} |-> NULL]
  /\ stacks = [s \in {KERNEL_STACK} |-> <<"frame of pong">>]
  /\ esp = [stack |-> KERNEL_STACK, depth |-> 1]
  /\ kernel_sp = [p \in Pcbs \cup {KERNEL_TASK} |-> esp]
  /\ regs = PongRegs
  /\ eip = "pong"

(* The CPU executes; reads may fail as often as MaxErrors allows.          *)
TaskSpec == TaskInit /\ [][TaskNext]_allVars /\ WF_allVars(PongStep)

-----------------------------------------------------------------------------
(* Properties.                                                             *)

(* The types of the loader's variables and of the tasks', and esp points to *)
(* a word of the stack in use.                                             *)
TaskTypeOK ==
  /\ TypeOK
  /\ allocated \subseteq Pcbs \cup {KERNEL_TASK} /\ task \in Pcbs \cup {KERNEL_TASK}
  /\ DOMAIN next_task = Pcbs \cup {KERNEL_TASK} /\ DOMAIN kernel_sp = Pcbs \cup {KERNEL_TASK}
  /\ esp.stack \in DOMAIN stacks
  /\ esp.depth \in 0 .. Len(stacks[esp.stack])

(* src/README.md: "'task_begin' updates the current task to the new task". *)
(* While the program and task_end run, cur_task is the PCB of this pong,   *)
(* and they run on the stack of its own address space, although cur_task   *)
(* named a freed PCB when it was started.                                  *)
RunsAsCurrent ==
  eip \in {"task_entry", "task_end"} => cur_task = task /\ esp.stack = vas.stack_begin

(* switch_task reads and writes no PCB that has been given back to the     *)
(* heap.                                                                   *)
NoDanglingPcb ==
  /\ eip = "switch_task" => task \in allocated
  /\ eip = "task_end" => {cur_task, next_task[cur_task]} \subseteq allocated

(* Every ret takes the address of code from the stack.                     *)
NoWildReturn == eip \in Code

(* pong goes on where it called switch_task, with its stack and its        *)
(* registers as they were.                                                 *)
PongResumed ==
  eip \in {"pong", "pong_return"} =>
    /\ esp = [stack |-> KERNEL_STACK, depth |-> IF eip = "pong" THEN 1 ELSE 3]
    /\ regs = PongRegs

(* pong comes back, whatever reads failed: load's loop ends, and so does   *)
(* the task.                                                               *)
PongEnds == pc = "code_begin" ~> pc = "bsy_loop"
=============================================================================
