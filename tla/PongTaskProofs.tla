--------------------------- MODULE PongTaskProofs ---------------------------
(***************************************************************************)
(* Proofs about module PongTask.  Every step of it is a step of Loader or  *)
(* leaves Loader's variables alone, so what is proved of Loader holds of   *)
(* the tasks as well.  TInv says what lies on the two stacks while a task  *)
(* runs, for any number of pongs and of PCBs.                              *)
(***************************************************************************)
EXTENDS PongTask, LoaderProofs, SequenceTheorems

Tasks == Pcbs \cup {KERNEL_TASK}
Names == Code \cup {PongRegs.ebx, PongRegs.esi, PongRegs.edi, PongRegs.ebp,
                    TaskRegs.ebx, TaskRegs.esi, TaskRegs.edi, TaskRegs.ebp,
                    "garbage", "frame of pong"}
Words == Tasks \cup Names

KernelStack == stacks[KERNEL_STACK]
TaskStack   == stacks[vas.stack_begin]

(* The registers as switch_task leaves them on a stack, from word 4 on.    *)
Switched(words, ret) ==
  /\ Len(words) = 8 /\ words[4] = ret
  /\ words[5] = PongRegs.ebx /\ words[6] = PongRegs.esi
  /\ words[7] = PongRegs.edi /\ words[8] = PongRegs.ebp

(* The words below them on the stack of a task that has not ended.         *)
TaskFrame ==
  /\ TaskStack \in Seq(Words) /\ Len(TaskStack) >= 3
  /\ TaskStack[1] = task /\ TaskStack[2] = "task_end" /\ TaskStack[3] = "task_entry"

PcbTypes ==
  /\ task \in Tasks /\ cur_task \in Tasks
  /\ allocated \subseteq Tasks /\ KERNEL_TASK \in allocated
  /\ DOMAIN next_task = Tasks /\ DOMAIN kernel_sp = Tasks
  /\ KERNEL_STACK \in DOMAIN stacks
  /\ KernelStack \in Seq(Words) /\ Len(KernelStack) >= 1

TaskAlive ==
  /\ pc = "task"
  /\ task \in Pcbs /\ task \in allocated /\ next_task[task] = KERNEL_TASK
  /\ vas.stack_begin \in DOMAIN stacks /\ vas.stack_begin # KERNEL_STACK

OnKernelStack(depth) ==
  esp = [stack |-> KERNEL_STACK, depth |-> depth] /\ regs = PongRegs /\ Len(KernelStack) >= depth

OnTaskStack(depth) ==
  /\ esp = [stack |-> vas.stack_begin, depth |-> depth]
  /\ TaskFrame
  /\ kernel_sp[KERNEL_TASK] = [stack |-> KERNEL_STACK, depth |-> 8]
  /\ Switched(KernelStack, "pong_return")
  /\ regs \in {PongRegs, TaskRegs}

AtPong == eip = "pong" /\ pc # "task" /\ OnKernelStack(1)
AtSwitch ==
  /\ eip = "switch_task" /\ TaskAlive /\ OnKernelStack(1)
  /\ TaskFrame /\ Switched(TaskStack, "task_begin")
  /\ kernel_sp[task] = [stack |-> vas.stack_begin, depth |-> 8]
AtBegin == eip = "task_begin" /\ TaskAlive /\ OnTaskStack(3)
AtEntry == eip = "task_entry" /\ TaskAlive /\ OnTaskStack(2) /\ cur_task = task
AtEnd   == eip = "task_end" /\ TaskAlive /\ OnTaskStack(1) /\ cur_task = task
AtReturn == eip = "pong_return" /\ TaskAlive /\ OnKernelStack(3)

TInv ==
  /\ PcbTypes
  /\ AtPong \/ AtSwitch \/ AtBegin \/ AtEntry \/ AtEnd \/ AtReturn

-----------------------------------------------------------------------------
(* PongTask implements Loader.                                             *)

LEMMA TaskStepLoads == [TaskNext]_allVars => [Next]_vars
<1> SUFFICES ASSUME [TaskNext]_allVars PROVE [Next]_vars
  OBVIOUS
<1>1. CASE Pong /\ UNCHANGED taskVars
  BY <1>1 DEF Next
<1>2. CASE Loads /\ UNCHANGED taskVars
  BY <1>2 DEF Loads, Next
<1>3. CASE StartTask /\ CreateTask
  BY <1>3 DEF Next
<1>4. CASE pc = "task" /\ InTask /\ UNCHANGED vars
  BY <1>4
<1>5. CASE TaskEnds /\ PongReturn
  BY <1>5 DEF Next
<1>6. CASE Idle \/ UNCHANGED allVars
  BY <1>6 DEF Idle, allVars
<1> QED BY <1>1, <1>2, <1>3, <1>4, <1>5, <1>6 DEF TaskNext, PongStep

(* Running the loaded programs as tasks changes nothing about how they are *)
(* loaded: pong in PongTask is pong in Loader.                             *)
THEOREM TasksImplementLoader == TaskSpec => Spec
<1>1. TaskInit => Init
  BY DEF TaskInit
<1> QED BY <1>1, TaskStepLoads, PTL DEF TaskSpec, Spec

-----------------------------------------------------------------------------
(* What switch_task pushes and pops.                                       *)

Pushed(s, d, new, old, ret, r) ==
  Used(s, d) \o <<new, old, ret>> \o <<r.ebx, r.esi, r.edi, r.ebp>>

LEMMA PoppedRegisters ==
  ASSUME NEW words,
         Word(words, 8) = PongRegs.ebp, Word(words, 7) = PongRegs.edi,
         Word(words, 6) = PongRegs.esi, Word(words, 5) = PongRegs.ebx
  PROVE  PopRegisters(words, 8) = PongRegs
<1>1. 8 - 1 = 7 /\ 8 - 2 = 6 /\ 8 - 3 = 5
  OBVIOUS
<1>2. PopRegisters(words, 8) =
        [ebp |-> Word(words, 8), edi |-> Word(words, 7), esi |-> Word(words, 6), ebx |-> Word(words, 5)]
  BY <1>1 DEF PopRegisters
<1>3. PongRegs = [ebp |-> PongRegs.ebp, edi |-> PongRegs.edi, esi |-> PongRegs.esi, ebx |-> PongRegs.ebx]
  BY DEF PongRegs
<1> QED BY <1>2, <1>3

LEMMA FourWords ==
  ASSUME NEW a \in Words, NEW b \in Words, NEW c \in Words, NEW d \in Words
  PROVE  <<a, b, c, d>> \in Seq(Words) /\ Len(<<a, b, c, d>>) = 4
OBVIOUS

PushedAt(s, d, new, old, ret, r) ==
  LET w == Pushed(s, d, new, old, ret, r)
  IN  /\ w \in Seq(Words) /\ Len(w) = d + 7
      /\ \A n \in 1..d : w[n] = s[n]
      /\ w[d + 3] = ret
      /\ w[d + 4] = r.ebx /\ w[d + 5] = r.esi /\ w[d + 6] = r.edi /\ w[d + 7] = r.ebp

LEMMA PushedWords ==
  ASSUME NEW s \in Seq(Words), NEW d \in 1..Len(s), NEW new \in Words, NEW old \in Words,
         NEW ret \in Words, NEW r \in {PongRegs, TaskRegs}
  PROVE  PushedAt(s, d, new, old, ret, r)
<1> DEFINE b == r.ebx
           i == r.esi
           j == r.edi
           p == r.ebp
<1>0. b \in Words /\ i \in Words /\ j \in Words /\ p \in Words
  BY DEF Words, Names
<1> HIDE DEF b, i, j, p
<1> DEFINE u == Used(s, d)
           v == u \o <<new, old, ret>>
           w == v \o <<b, i, j, p>>
<1>1. u \in Seq(Words) /\ Len(u) = d /\ \A n \in 1..d : u[n] = s[n]
  <2>1. \A n \in 1..d : s[n] \in Words
    BY ElementOfSeq
  <2> QED BY <2>1, SubSeqProperties DEF Used
<1>2. <<new, old, ret>> \in Seq(Words) /\ Len(<<new, old, ret>>) = 3
  OBVIOUS
<1>3. /\ v \in Seq(Words) /\ Len(v) = d + 3
      /\ \A n \in 1..d : v[n] = s[n]
      /\ v[d + 3] = ret
  <2> HIDE DEF u
  <2>1. /\ v \in Seq(Words) /\ Len(v) = d + 3
        /\ \A n \in 1 .. d + 3 : v[n] = IF n <= d THEN u[n] ELSE <<new, old, ret>>[n - d]
    BY <1>1, <1>2, ConcatProperties
  <2> QED BY <1>1, <2>1
<1>4. <<b, i, j, p>> \in Seq(Words) /\ Len(<<b, i, j, p>>) = 4
  BY <1>0, FourWords
<1>5. /\ w \in Seq(Words) /\ Len(w) = d + 7
      /\ \A n \in 1 .. d + 7 : w[n] = IF n <= d + 3 THEN v[n] ELSE <<b, i, j, p>>[n - (d + 3)]
  <2> HIDE DEF v
  <2> QED BY <1>3, <1>4, ConcatProperties
<1>6. \A n \in 1..d : w[n] = s[n]
  <2> HIDE DEF w, v
  <2> QED BY <1>3, <1>5
<1>7. w[d + 3] = ret
  <2> HIDE DEF w, v
  <2> QED BY <1>3, <1>5
<1>8. w[d + 4] = b /\ w[d + 5] = i /\ w[d + 6] = j /\ w[d + 7] = p
  <2>1. \A n \in 1..4 : w[d + 3 + n] = <<b, i, j, p>>[n]
    <3> TAKE n \in 1..4
    <3>1. d + 3 + n \in 1 .. d + 7 /\ ~(d + 3 + n <= d + 3) /\ d + 3 + n - (d + 3) = n
      BY LenProperties
    <3> HIDE DEF w, v
    <3>2. w[d + 3 + n] = <<b, i, j, p>>[d + 3 + n - (d + 3)]
      BY <1>5, <3>1
    <3> QED BY <3>1, <3>2
  <2>2. w[d + 3 + 1] = b /\ w[d + 3 + 2] = i /\ w[d + 3 + 3] = j /\ w[d + 3 + 4] = p
    <3> HIDE DEF w, v
    <3> QED BY <2>1
  <2>3. d + 3 + 1 = d + 4 /\ d + 3 + 2 = d + 5 /\ d + 3 + 3 = d + 6 /\ d + 3 + 4 = d + 7
    OBVIOUS
  <2> HIDE DEF w
  <2> QED BY <2>2, <2>3
<1>9. Pushed(s, d, new, old, ret, r) = w
  BY DEF Pushed, b, i, j, p
<1>10. b = r.ebx /\ i = r.esi /\ j = r.edi /\ p = r.ebp
  BY DEF b, i, j, p
<1> HIDE DEF w
<1> QED BY <1>5, <1>6, <1>7, <1>8, <1>9, <1>10 DEF PushedAt

(* What setup_kstack writes.                                               *)
LEMMA SetupWords ==
  ASSUME NEW t \in Tasks, regs = PongRegs
  PROVE  /\ SetupKstack(t) \in Seq(Words) /\ Switched(SetupKstack(t), "task_begin")
         /\ SetupKstack(t)[1] = t
         /\ SetupKstack(t)[2] = "task_end" /\ SetupKstack(t)[3] = "task_entry"
<1> DEFINE f == <<t, "task_end", "task_entry", "task_begin">>
           g == <<PongRegs.ebx, PongRegs.esi, PongRegs.edi, PongRegs.ebp>>
<1>1. f \in Seq(Words) /\ Len(f) = 4
  <2>1. {t, "task_end", "task_entry", "task_begin"} \subseteq Words
    BY DEF Words, Names, Code
  <2> QED BY <2>1, FourWords
<1>2. g \in Seq(Words) /\ Len(g) = 4
  <2>1. {PongRegs.ebx, PongRegs.esi, PongRegs.edi, PongRegs.ebp} \subseteq Words
    BY DEF Words, Names
  <2> QED BY <2>1, FourWords
<1>3. SetupKstack(t) = f \o g
  BY DEF SetupKstack, Saved
<1>4. /\ f \o g \in Seq(Words) /\ Len(f \o g) = 8
      /\ \A n \in 1..8 : (f \o g)[n] = IF n <= 4 THEN f[n] ELSE g[n - 4]
  <2> HIDE DEF f, g
  <2>1. /\ f \o g \in Seq(Words) /\ Len(f \o g) = Len(f) + Len(g)
        /\ \A n \in 1 .. Len(f) + Len(g) : (f \o g)[n] = IF n <= Len(f) THEN f[n] ELSE g[n - Len(f)]
    BY <1>1, <1>2, ConcatProperties
  <2> QED BY <1>1, <1>2, <2>1
<1> QED BY <1>3, <1>4 DEF Switched

-----------------------------------------------------------------------------
(* The steps of a task, and the invariant.                                 *)

LEMMA StackOfTask == FInv /\ pc = "start" => vas.stack_begin \in Nat
<1> SUFFICES ASSUME FInv, pc = "start" PROVE vas.stack_begin \in Nat
  OBVIOUS
<1>1. pongs > 0 /\ pongs \in Nat /\ pc \notin Fields
  BY LoaderAssumption DEF FInv, Types, Fields
<1>2. vas.stack_begin = (IF Base < NumFrames THEN Frame(Base + 3) ELSE NULL) + FRAME_SIZE
  BY <1>1 DEF FInv, VasFrames
<1>3. Base \in Nat
  BY <1>1 DEF Base
<1>4. Frame(Base + 3) \in Nat
  BY <1>3, FrameArithmetic
<1> QED BY <1>2, <1>4 DEF NULL, FRAME_SIZE

LEMMA InitTInv == TaskInit => TInv
<1> SUFFICES ASSUME TaskInit PROVE TInv
  OBVIOUS
<1>1. stacks[KERNEL_STACK] = <<"frame of pong">>
  BY DEF TaskInit
<1>2. <<"frame of pong">> \in Seq(Words) /\ Len(<<"frame of pong">>) = 1
  BY DEF Words, Names
<1>3. KernelStack \in Seq(Words) /\ Len(KernelStack) = 1
  BY <1>1, <1>2 DEF KernelStack
<1>4. /\ task = KERNEL_TASK /\ cur_task = KERNEL_TASK /\ allocated = {KERNEL_TASK}
      /\ DOMAIN next_task = Tasks /\ DOMAIN kernel_sp = Tasks
      /\ KERNEL_STACK \in DOMAIN stacks
  BY DEF TaskInit, Tasks
<1>5. PcbTypes
  BY <1>3, <1>4 DEF PcbTypes, Tasks
<1>6. eip = "pong" /\ pc # "task" /\ regs = PongRegs /\ esp = [stack |-> KERNEL_STACK, depth |-> 1]
  BY DEF TaskInit, Init
<1>7. AtPong
  BY <1>3, <1>6 DEF AtPong, OnKernelStack
<1> QED BY <1>5, <1>7 DEF TInv

(* load and its caller: the tasks' variables stay, pc is not "task".       *)
LEMMA LoadStep ==
  ASSUME TInv, Pong \/ Loads, UNCHANGED taskVars
  PROVE  TInv'
<1>1. pc # "task" /\ pc' # "task"
  BY DEF Pong, Loads, Allocate, After, AllocateStack, ReadSector, ReadError, Read, Patch, Fields
<1>2. AtPong
  BY <1>1 DEF TInv, AtSwitch, AtBegin, AtEntry, AtEnd, AtReturn, TaskAlive
<1>3. AtPong'
  BY <1>1, <1>2 DEF AtPong, OnKernelStack, KernelStack, taskVars
<1>4. PcbTypes'
  BY DEF TInv, PcbTypes, KernelStack, taskVars
<1> QED BY <1>3, <1>4 DEF TInv

LEMMA CreateStep ==
  ASSUME TInv, FInv, StartTask, CreateTask
  PROVE  TInv'
<1>1. AtPong /\ PcbTypes /\ eip' = "switch_task"
  BY DEF TInv, CreateTask, AtSwitch, AtBegin, AtEntry, AtEnd, AtReturn
<1>2. pc = "start" /\ pc' = "task" /\ vas' = vas
  BY DEF StartTask
<1>3. vas.stack_begin # KERNEL_STACK
  BY <1>2, StackOfTask DEF KERNEL_STACK
<1>4. PICK t \in Pcbs \ allocated :
       /\ task' = t
       /\ allocated' = allocated \cup {t}
       /\ next_task' = [next_task EXCEPT ![t] = NextOf]
       /\ stacks' = [s \in DOMAIN stacks \cup {vas.stack_begin} |->
            IF s = vas.stack_begin THEN SetupKstack(t) ELSE stacks[s]]
       /\ kernel_sp' = [kernel_sp EXCEPT ![t] =
            [stack |-> vas.stack_begin, depth |-> Len(SetupKstack(t))]]
  BY DEF CreateTask
<1>5. UNCHANGED <<cur_task, esp, regs>>
  BY DEF CreateTask
<1>6. regs = PongRegs /\ esp = [stack |-> KERNEL_STACK, depth |-> 1]
  BY <1>1 DEF AtPong, OnKernelStack
<1>7. /\ TaskStack' = SetupKstack(t) /\ KernelStack' = KernelStack
      /\ KERNEL_STACK \in DOMAIN stacks' /\ vas.stack_begin \in DOMAIN stacks'
  BY <1>1, <1>2, <1>3, <1>4 DEF TaskStack, KernelStack, PcbTypes
<1>8. TaskFrame' /\ Switched(TaskStack', "task_begin") /\ Len(SetupKstack(t)) = 8
  BY <1>4, <1>6, <1>7, SetupWords DEF TaskFrame, Switched, Tasks
<1>9. PcbTypes'
  BY <1>1, <1>4, <1>5, <1>7 DEF PcbTypes, Tasks, NextOf
<1>10. TaskAlive'
  BY <1>1, <1>2, <1>3, <1>4, <1>7 DEF TaskAlive, PcbTypes, Tasks, NextOf
<1>11. OnKernelStack(1)'
  BY <1>1, <1>5, <1>7 DEF AtPong, OnKernelStack
<1>12. kernel_sp'[task'] = [stack |-> vas'.stack_begin, depth |-> 8]
  BY <1>1, <1>2, <1>4, <1>8 DEF PcbTypes, Tasks
<1>13. AtSwitch'
  BY <1>1, <1>8, <1>10, <1>11, <1>12 DEF AtSwitch
<1> QED BY <1>9, <1>13 DEF TInv

LEMMA SwitchStep ==
  ASSUME TInv, SwitchToTask, UNCHANGED vars
  PROVE  TInv'
<1> DEFINE pushed == Used(KernelStack, 1) \o <<task, KERNEL_TASK, "pong_return">> \o Saved
<1>1. AtSwitch /\ PcbTypes /\ TaskAlive
  BY DEF TInv, SwitchToTask, AtPong, AtSwitch, AtBegin, AtEntry, AtEnd, AtReturn
<1>2. esp = [stack |-> KERNEL_STACK, depth |-> 1] /\ regs = PongRegs
  BY <1>1 DEF AtSwitch, OnKernelStack
<1>3. /\ kernel_sp[task] = [stack |-> vas.stack_begin, depth |-> 8] /\ task # KERNEL_TASK
      /\ task \in Pcbs /\ KERNEL_TASK \in Tasks /\ task \in Tasks
  BY <1>1, PongTaskAssumption DEF AtSwitch, TaskAlive, Tasks
<1>4. pushed \in Seq(Words) /\ Switched(pushed, "pong_return")
  <2>1. KernelStack \in Seq(Words) /\ 1 \in 1 .. Len(KernelStack)
    BY <1>1, LenProperties DEF PcbTypes
  <2> DEFINE w == Pushed(KernelStack, 1, task, KERNEL_TASK, "pong_return", PongRegs)
  <2>4. task \in Words /\ KERNEL_TASK \in Words /\ "pong_return" \in Words
    BY <1>3 DEF Words, Names, Code
  <2>5. PushedAt(KernelStack, 1, task, KERNEL_TASK, "pong_return", PongRegs)
    BY <2>1, <2>4, PushedWords
  <2>6. /\ w \in Seq(Words) /\ Len(w) = 1 + 7
        /\ w[1 + 3] = "pong_return"
        /\ w[1 + 4] = PongRegs.ebx /\ w[1 + 5] = PongRegs.esi
        /\ w[1 + 6] = PongRegs.edi /\ w[1 + 7] = PongRegs.ebp
    BY <2>5 DEF PushedAt
  <2>7. pushed = w
    BY <1>2 DEF Saved, Pushed
  <2> HIDE DEF pushed, w
  <2> QED BY <2>6, <2>7 DEF Switched
<1> DEFINE sp == [kernel_sp EXCEPT ![KERNEL_TASK] = [stack |-> KERNEL_STACK, depth |-> Len(pushed)]]
           mem == [stacks EXCEPT ![KERNEL_STACK] = pushed]
<1>5. /\ kernel_sp' = sp /\ stacks' = mem
      /\ regs' = PopRegisters(mem[sp[task].stack], sp[task].depth)
      /\ eip' = Word(mem[sp[task].stack], sp[task].depth - 4)
      /\ esp' = [stack |-> sp[task].stack, depth |-> sp[task].depth - 5]
  BY <1>2 DEF SwitchToTask, SwitchTask, KernelStack
<1>6. sp[task] = [stack |-> vas.stack_begin, depth |-> 8]
  BY <1>3
<1>7. mem[vas.stack_begin] = TaskStack /\ mem[KERNEL_STACK] = pushed
  BY <1>1 DEF TaskAlive, TaskStack, PcbTypes
<1>8. /\ TaskFrame /\ Switched(TaskStack, "task_begin") /\ DOMAIN TaskStack = 1..8
  BY <1>1, LenProperties DEF AtSwitch, TaskFrame, Switched
<1>9. regs' = PongRegs /\ eip' = "task_begin" /\ esp' = [stack |-> vas.stack_begin, depth |-> 3]
  <2> HIDE DEF sp, mem
  <2>1. regs' = PopRegisters(TaskStack, 8) /\ eip' = Word(TaskStack, 4)
    BY <1>5, <1>6, <1>7
  <2>2. /\ Word(TaskStack, 8) = PongRegs.ebp /\ Word(TaskStack, 7) = PongRegs.edi
        /\ Word(TaskStack, 6) = PongRegs.esi /\ Word(TaskStack, 5) = PongRegs.ebx
        /\ Word(TaskStack, 4) = "task_begin"
    BY <1>8 DEF Word, Switched
  <2>3. PopRegisters(TaskStack, 8) = PongRegs
    BY <2>2, PoppedRegisters
  <2> QED BY <1>5, <1>6, <2>1, <2>2, <2>3
<1>10. UNCHANGED <<vas, pc, task, allocated, cur_task>>
  BY DEF SwitchToTask, vars
<1>11. TaskStack' = TaskStack /\ KernelStack' = pushed /\ DOMAIN stacks' = DOMAIN stacks
  BY <1>5, <1>7, <1>10 DEF TaskStack, KernelStack
<1>12. /\ DOMAIN next_task' = DOMAIN next_task
       /\ next_task'[task] = next_task[task]
  BY <1>3 DEF SwitchToTask
<1>13. DOMAIN kernel_sp' = Tasks /\ kernel_sp'[KERNEL_TASK] = [stack |-> KERNEL_STACK, depth |-> 8]
  <2>1. Len(pushed) = 8
    BY <1>4 DEF Switched
  <2> HIDE DEF pushed
  <2> QED BY <1>1, <1>3, <1>5, <2>1 DEF PcbTypes
<1>14. PcbTypes'
  <2> HIDE DEF pushed
  <2>1. KernelStack' \in Seq(Words) /\ Len(KernelStack') = 8
    BY <1>4, <1>11 DEF Switched
  <2> QED BY <1>1, <2>1, <1>10, <1>11, <1>12, <1>13 DEF PcbTypes
<1>15. TaskAlive'
  BY <1>1, <1>10, <1>11, <1>12 DEF TaskAlive
<1>16. OnTaskStack(3)'
  <2> HIDE DEF pushed
  <2> QED BY <1>4, <1>8, <1>9, <1>10, <1>11, <1>13 DEF OnTaskStack, TaskFrame
<1>17. AtBegin'
  BY <1>9, <1>15, <1>16 DEF AtBegin
<1> QED BY <1>14, <1>17 DEF TInv

LEMMA BeginStep ==
  ASSUME TInv, TaskBegin, UNCHANGED vars
  PROVE  TInv'
<1>1. AtBegin /\ PcbTypes /\ TaskAlive /\ OnTaskStack(3)
  BY DEF TInv, TaskBegin, AtPong, AtSwitch, AtBegin, AtEntry, AtEnd, AtReturn
<1>2. /\ esp = [stack |-> vas.stack_begin, depth |-> 3] /\ TaskFrame
      /\ DOMAIN TaskStack = 1 .. Len(TaskStack) /\ Len(TaskStack) \in Nat
  BY <1>1, LenProperties DEF OnTaskStack, TaskFrame
<1>3. UNCHANGED <<vas, pc, task, allocated, next_task, kernel_sp, stacks, regs>>
  BY DEF TaskBegin, vars
<1>4. cur_task' = task
  BY <1>2 DEF TaskBegin, Param1, Word, TaskFrame, TaskStack
<1>5. eip' = "task_entry" /\ esp' = [stack |-> vas.stack_begin, depth |-> 2]
  BY <1>2 DEF TaskBegin, Ret, Top, Word, TaskFrame, TaskStack
<1>6. TaskStack' = TaskStack /\ KernelStack' = KernelStack
  BY <1>3 DEF TaskStack, KernelStack
<1>7. PcbTypes' /\ TaskAlive'
  BY <1>1, <1>3, <1>4, <1>6 DEF PcbTypes, TaskAlive
<1>8. OnTaskStack(2)'
  BY <1>1, <1>3, <1>5, <1>6 DEF OnTaskStack, TaskFrame
<1> QED BY <1>3, <1>4, <1>5, <1>7, <1>8 DEF TInv, AtEntry

LEMMA EntryStep ==
  ASSUME TInv, TaskEntry, UNCHANGED vars
  PROVE  TInv'
<1>1. AtEntry /\ PcbTypes /\ TaskAlive /\ OnTaskStack(2)
  BY DEF TInv, TaskEntry, AtPong, AtSwitch, AtBegin, AtEntry, AtEnd, AtReturn
<1>2. /\ esp = [stack |-> vas.stack_begin, depth |-> 2] /\ TaskFrame
      /\ DOMAIN TaskStack = 1 .. Len(TaskStack) /\ Len(TaskStack) \in Nat
  BY <1>1, LenProperties DEF OnTaskStack, TaskFrame
<1>3. UNCHANGED <<vas, pc, task, allocated, cur_task, next_task, kernel_sp, stacks>>
  BY DEF TaskEntry, vars
<1>4. eip' = "task_end" /\ esp' = [stack |-> vas.stack_begin, depth |-> 1] /\ regs' = TaskRegs
  BY <1>2 DEF TaskEntry, Ret, Top, Word, TaskFrame, TaskStack
<1>5. TaskStack' = TaskStack /\ KernelStack' = KernelStack
  BY <1>3 DEF TaskStack, KernelStack
<1>6. PcbTypes' /\ TaskAlive'
  BY <1>1, <1>3, <1>5 DEF PcbTypes, TaskAlive
<1>7. OnTaskStack(1)'
  BY <1>1, <1>3, <1>4, <1>5 DEF OnTaskStack, TaskFrame
<1> QED BY <1>1, <1>3, <1>4, <1>6, <1>7 DEF TInv, AtEntry, AtEnd

LEMMA EndStep ==
  ASSUME TInv, TaskEnd, UNCHANGED vars
  PROVE  TInv'
<1>1. AtEnd /\ PcbTypes /\ TaskAlive /\ OnTaskStack(1)
  BY DEF TInv, TaskEnd, AtPong, AtSwitch, AtBegin, AtEntry, AtEnd, AtReturn
<1>2. /\ cur_task = task /\ next_task[task] = KERNEL_TASK /\ task # KERNEL_TASK
      /\ task \in Tasks /\ KERNEL_TASK \in Tasks
  BY <1>1, PongTaskAssumption DEF AtEnd, TaskAlive, Tasks
<1> DEFINE pushed == Used(stacks[esp.stack], esp.depth) \o <<KERNEL_TASK, task, "garbage">> \o Saved
           sp == [kernel_sp EXCEPT ![task] = [stack |-> esp.stack, depth |-> Len(pushed)]]
           mem == [stacks EXCEPT ![vas.stack_begin] = pushed]
<1>3. esp.stack = vas.stack_begin
  BY <1>1 DEF OnTaskStack
<1> HIDE DEF pushed
<1>4. /\ kernel_sp' = sp /\ stacks' = mem
      /\ regs' = PopRegisters(mem[sp[KERNEL_TASK].stack], sp[KERNEL_TASK].depth)
      /\ eip' = Word(mem[sp[KERNEL_TASK].stack], sp[KERNEL_TASK].depth - 4)
      /\ esp' = [stack |-> sp[KERNEL_TASK].stack, depth |-> sp[KERNEL_TASK].depth - 5]
  BY <1>2, <1>3 DEF TaskEnd, SwitchTask, pushed
<1>5. sp[KERNEL_TASK] = [stack |-> KERNEL_STACK, depth |-> 8]
  BY <1>1, <1>2 DEF OnTaskStack, PcbTypes
<1>6. mem[KERNEL_STACK] = KernelStack
  BY <1>1 DEF TaskAlive, PcbTypes, KernelStack
<1>7. Switched(KernelStack, "pong_return") /\ DOMAIN KernelStack = 1..8
  BY <1>1, LenProperties DEF OnTaskStack, PcbTypes, Switched
<1>8. regs' = PongRegs /\ eip' = "pong_return" /\ esp' = [stack |-> KERNEL_STACK, depth |-> 3]
  <2> HIDE DEF sp, mem
  <2>1. regs' = PopRegisters(KernelStack, 8) /\ eip' = Word(KernelStack, 4)
    BY <1>4, <1>5, <1>6
  <2>2. /\ Word(KernelStack, 8) = PongRegs.ebp /\ Word(KernelStack, 7) = PongRegs.edi
        /\ Word(KernelStack, 6) = PongRegs.esi /\ Word(KernelStack, 5) = PongRegs.ebx
        /\ Word(KernelStack, 4) = "pong_return"
    BY <1>7 DEF Word, Switched
  <2>3. PopRegisters(KernelStack, 8) = PongRegs
    BY <2>2, PoppedRegisters
  <2> QED BY <1>4, <1>5, <2>1, <2>2, <2>3
<1>9. UNCHANGED <<vas, pc, task, allocated, cur_task, next_task>>
  BY DEF TaskEnd, vars
<1>10. KernelStack' = KernelStack /\ DOMAIN stacks' = DOMAIN stacks /\ DOMAIN kernel_sp' = DOMAIN kernel_sp
  BY <1>4, <1>6 DEF KernelStack
<1>11. PcbTypes' /\ TaskAlive'
  BY <1>1, <1>9, <1>10 DEF PcbTypes, TaskAlive
<1>12. OnKernelStack(3)'
  <2>1. Len(KernelStack') = 8
    BY <1>7, <1>10 DEF Switched
  <2> QED BY <1>8, <2>1 DEF OnKernelStack
<1> QED BY <1>8, <1>11, <1>12 DEF TInv, AtReturn

LEMMA ReturnStep ==
  ASSUME TInv, TaskEnds, PongReturn
  PROVE  TInv'
<1>1. AtReturn /\ PcbTypes /\ TaskAlive /\ OnKernelStack(3)
  BY DEF TInv, PongReturn, AtPong, AtSwitch, AtBegin, AtEntry, AtEnd, AtReturn
<1>2. /\ UNCHANGED <<task, cur_task, next_task, kernel_sp, stacks, regs>>
      /\ allocated' = allocated \ {task} /\ eip' = "pong" /\ pc' = "bsy_loop"
  BY DEF PongReturn, TaskEnds
<1>3. esp' = [stack |-> KERNEL_STACK, depth |-> 1]
  BY <1>1 DEF PongReturn, OnKernelStack
<1>4. KernelStack' = KernelStack
  BY <1>2 DEF KernelStack
<1>5. PcbTypes'
  BY <1>1, <1>2, <1>4, PongTaskAssumption DEF PcbTypes, TaskAlive
<1>6. OnKernelStack(1)'
  BY <1>1, <1>2, <1>3, <1>4 DEF OnKernelStack, PcbTypes
<1> QED BY <1>2, <1>5, <1>6 DEF TInv, AtPong

LEMMA TInvStep == TInv /\ FInv /\ [TaskNext]_allVars => TInv'
<1> SUFFICES ASSUME TInv, FInv, [TaskNext]_allVars PROVE TInv'
  OBVIOUS
<1>1. CASE (Pong \/ Loads) /\ UNCHANGED taskVars
  BY <1>1, LoadStep
<1>2. CASE StartTask /\ CreateTask
  BY <1>2, CreateStep
<1>3. CASE pc = "task" /\ InTask /\ UNCHANGED vars
  BY <1>3, SwitchStep, BeginStep, EntryStep, EndStep DEF InTask
<1>4. CASE TaskEnds /\ PongReturn
  BY <1>4, ReturnStep
<1>5. CASE UNCHANGED allVars
  <2>1. UNCHANGED taskVars /\ pc' = pc /\ vas' = vas
    BY <1>5 DEF allVars, vars
  <2>2. KernelStack' = KernelStack /\ TaskStack' = TaskStack
    BY <2>1 DEF KernelStack, TaskStack, taskVars
  <2>3. PcbTypes'
    BY <2>1, <2>2 DEF TInv, PcbTypes, taskVars
  <2>4. (AtPong => AtPong') /\ (AtSwitch => AtSwitch') /\ (AtReturn => AtReturn')
    BY <2>1, <2>2 DEF AtPong, AtSwitch, AtReturn, TaskAlive, TaskFrame, OnKernelStack, taskVars
  <2>5. (AtBegin => AtBegin') /\ (AtEntry => AtEntry') /\ (AtEnd => AtEnd')
    BY <2>1, <2>2 DEF AtBegin, AtEntry, AtEnd, TaskAlive, TaskFrame, OnTaskStack, taskVars
  <2> QED BY <2>3, <2>4, <2>5 DEF TInv
<1> QED BY <1>1, <1>2, <1>3, <1>4, <1>5 DEF TaskNext, PongStep, Idle

LEMMA TaskInvariant == TaskSpec => []TInv
<1>1. TaskSpec => []FInv
  BY TasksImplementLoader, FrameInvariant
<1>2. TInv /\ FInv /\ [TaskNext]_allVars => TInv'
  BY TInvStep
<1> QED BY <1>1, <1>2, InitTInv, PTL DEF TaskSpec

-----------------------------------------------------------------------------
(* The variables of the tasks keep their types, and the depth of the stack *)
(* in use is that of a word on it.                                         *)
THEOREM TasksTypeCorrect == TaskSpec => []TaskTypeOK
<1>1. TInv /\ TypeOK => TaskTypeOK
  <2> SUFFICES ASSUME TInv, TypeOK PROVE TaskTypeOK
    OBVIOUS
  <2>1. esp.stack \in DOMAIN stacks /\ esp.depth \in 0 .. Len(stacks[esp.stack])
    <3>1. \A d \in 1..3 : OnKernelStack(d) =>
            esp.stack \in DOMAIN stacks /\ esp.depth \in 0 .. Len(stacks[esp.stack])
      BY LenProperties DEF OnKernelStack, TInv, PcbTypes, KernelStack
    <3>2. \A d \in 1..3 : TaskAlive /\ OnTaskStack(d) =>
            esp.stack \in DOMAIN stacks /\ esp.depth \in 0 .. Len(stacks[esp.stack])
      BY LenProperties DEF OnTaskStack, TaskAlive, TaskFrame, TaskStack
    <3> QED BY <3>1, <3>2 DEF TInv, AtPong, AtSwitch, AtBegin, AtEntry, AtEnd, AtReturn
  <2> QED BY <2>1 DEF TInv, PcbTypes, TaskTypeOK, Tasks
<1>2. TaskSpec => []TypeOK
  BY TasksImplementLoader, TypeCorrect
<1> QED BY <1>1, <1>2, TaskInvariant, PTL

(* A task and task_end run with the task's own PCB as the current one and  *)
(* on the stack of its own address space.                                  *)
THEOREM TasksRunAsCurrent == TaskSpec => []RunsAsCurrent
<1>1. TInv => RunsAsCurrent
  BY DEF TInv, RunsAsCurrent, AtPong, AtSwitch, AtBegin, AtEntry, AtEnd, AtReturn, OnTaskStack
<1> QED BY <1>1, TaskInvariant, PTL

(* switch_task is never given a PCB that is back in the heap.              *)
THEOREM PcbsOutliveTasks == TaskSpec => []NoDanglingPcb
<1>1. TInv => NoDanglingPcb
  BY DEF TInv, PcbTypes, NoDanglingPcb, AtPong, AtSwitch, AtBegin, AtEntry, AtEnd, AtReturn, TaskAlive
<1> QED BY <1>1, TaskInvariant, PTL

(* Every return of switch_task, task_begin, the task and task_end goes to  *)
(* code.                                                                   *)
THEOREM ReturnsReachCode == TaskSpec => []NoWildReturn
<1>1. TInv => NoWildReturn
  BY DEF TInv, NoWildReturn, Code, AtPong, AtSwitch, AtBegin, AtEntry, AtEnd, AtReturn
<1> QED BY <1>1, TaskInvariant, PTL

(* After its task pong goes on with the stack and the registers it had.    *)
THEOREM PongComesBackIntact == TaskSpec => []PongResumed
<1>1. TInv => PongResumed
  BY DEF TInv, PongResumed, AtPong, AtSwitch, AtBegin, AtEntry, AtEnd, AtReturn, OnKernelStack
<1> QED BY <1>1, TaskInvariant, PTL
=============================================================================
