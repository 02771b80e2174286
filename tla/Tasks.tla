-------------------------------- MODULE Tasks --------------------------------
(***************************************************************************)
(* The scheduler of kernel/tasks/tasks.c driven by the timer interrupt of  *)
(* kernel/IDT/ISRs/timer/timer.c, with the bootstrap task that creates the *)
(* other tasks (main.c, k_setup_tasks) and tasks that enter and leave      *)
(* critical sections.                                                      *)
(*                                                                         *)
(* One step is one machine instruction of the running task that touches    *)
(* shared state, as the unoptimised build emits it, or one interrupt.      *)
(* Interrupt handlers run with interrupts off, so each is one step.  "pc"  *)
(* and "eax" are the CPU's; those of a suspended task lie in the frame     *)
(* that its task_list entry points to.                                     *)
(*                                                                         *)
(* Task 0 is the bootstrap task.  A task in Users is one whose function    *)
(* calls enter_critical and exit_critical (read_line does), the others     *)
(* compute and spin.                                                       *)
(***************************************************************************)
EXTENDS Integers

CONSTANTS MaxTasks,     \* entries of task_list
          NumCreate,    \* k_create_task calls of k_setup_tasks
          Users,        \* the created tasks that use critical sections
          MaxKeys       \* bound: keyboard interrupts

ASSUME CapacityAssumption == /\ MaxTasks \in Nat /\ NumCreate \in Nat \ {0}
                             /\ NumCreate < MaxTasks /\ MaxTasks <= 32
ASSUME UsersAssumption    == Users \subseteq 1 .. NumCreate
ASSUME KeysAssumption     == MaxKeys \in Nat

Slots == 0 .. MaxTasks - 1

VARIABLES task_list,      \* the frame each entry's esp points to
          current_index, task_count, critical, running_task,
          pc, eax, iflag, \* the CPU: next instruction, accumulator, interrupt flag
          created,        \* k_create_task calls that have returned
          keys            \* keyboard interrupts so far

vars == <<task_list, current_index, task_count, critical, running_task,
          pc, eax, iflag, created, keys>>
shared == <<task_list, current_index, task_count, critical, running_task>>

(* Where a task may be.  "wild" is the CPU after a switch to an entry that *)
(* no k_create_task filled in: what it executes then is not defined.       *)
CreatePCs == {"create_index", "create_esp", "create_load", "create_add", "create_store"}
EnterPCs  == {"enter_load", "enter_add", "enter_store"}
ExitPCs   == {"exit_load", "exit_test", "exit_reload", "exit_sub", "exit_store"}
InsidePCs == {"inside"} \cup ExitPCs
PCs == CreatePCs \cup EnterPCs \cup InsidePCs \cup {"boot_loop", "starter", "task", "wild"}

Frame   == [pc : PCs, eax : Nat]
NoFrame == [pc |-> "wild", eax |-> 0]       \* an esp that was never set

NewFrame == [pc |-> "starter", eax |-> 0]   \* the frame k_create_task builds

Init ==
  /\ task_list = [i \in Slots |-> NoFrame]
  /\ current_index = 0 /\ running_task = 0
  /\ task_count = 1
  /\ critical = 0
  /\ pc = "create_index" /\ eax = 0 /\ iflag = TRUE
  /\ created = 0 /\ keys = 0

-----------------------------------------------------------------------------
(* k_create_task: fill in the entry, then count it.                        *)
Goto(p, q) == pc = p /\ pc' = q /\ UNCHANGED <<iflag, keys>>

(* Mutant of LoadIndex: the entry is counted before it is filled in.       *)
CountFirst ==
  /\ Goto("create_index", "create_esp")
  /\ eax' = task_count
  /\ task_count' = task_count + 1
  /\ UNCHANGED <<task_list, current_index, critical, running_task, created>>

LoadIndex ==
  /\ Goto("create_index", "create_esp")
  /\ eax' = task_count
  /\ UNCHANGED <<shared, created>>

(* An index past the array writes somewhere else in memory.                *)
StoreEsp ==
  /\ Goto("create_esp", "create_load")
  /\ task_list' = [i \in Slots |-> IF i = eax THEN NewFrame ELSE task_list[i]]
  /\ UNCHANGED <<current_index, task_count, critical, running_task, eax, created>>

LoadCount ==
  /\ Goto("create_load", "create_add")
  /\ eax' = task_count
  /\ UNCHANGED <<shared, created>>

AddCount ==
  /\ Goto("create_add", "create_store")
  /\ eax' = eax + 1
  /\ UNCHANGED <<shared, created>>

(* Mutant of StoreCount: one task too many.                                *)
StoreCountOneMore ==
  /\ Goto("create_store", IF created < NumCreate THEN "create_index" ELSE "boot_loop")
  /\ task_count' = eax
  /\ created' = created + 1
  /\ UNCHANGED <<task_list, current_index, critical, running_task, eax>>

StoreCount ==
  /\ Goto("create_store", IF created + 1 < NumCreate THEN "create_index" ELSE "boot_loop")
  /\ task_count' = eax
  /\ created' = created + 1
  /\ UNCHANGED <<task_list, current_index, critical, running_task, eax>>

k_create_task == LoadIndex \/ StoreEsp \/ LoadCount \/ AddCount \/ StoreCount

(* task_starter: sti, then the task's function.                            *)
task_starter ==
  /\ pc = "starter" /\ pc' = "task" /\ iflag' = TRUE
  /\ UNCHANGED <<shared, eax, created, keys>>

(* The task's function calls enter_critical.                               *)
CallEnter ==
  /\ running_task \in Users
  /\ Goto("task", "enter_load")
  /\ UNCHANGED <<shared, eax, created>>

EnterLoad ==
  /\ Goto("enter_load", "enter_add")
  /\ eax' = critical
  /\ UNCHANGED <<shared, created>>

EnterAdd ==
  /\ Goto("enter_add", "enter_store")
  /\ eax' = eax + 1
  /\ UNCHANGED <<shared, created>>

EnterStore ==
  /\ Goto("enter_store", "inside")
  /\ critical' = eax
  /\ UNCHANGED <<task_list, current_index, task_count, running_task, eax, created>>

enter_critical == EnterLoad \/ EnterAdd \/ EnterStore

CallExit ==
  /\ Goto("inside", "exit_load")
  /\ UNCHANGED <<shared, eax, created>>

ExitLoad ==
  /\ Goto("exit_load", "exit_test")
  /\ eax' = critical
  /\ UNCHANGED <<shared, created>>

(* Mutants of ExitTest: the counter never returns to 0; the test inverted. *)
ExitTestAboveOne ==
  /\ Goto("exit_test", IF eax > 1 THEN "exit_reload" ELSE "task")
  /\ UNCHANGED <<shared, eax, created>>

ExitTestInverted ==
  /\ Goto("exit_test", IF eax > 0 THEN "task" ELSE "exit_reload")
  /\ UNCHANGED <<shared, eax, created>>

ExitTest ==
  /\ Goto("exit_test", IF eax > 0 THEN "exit_reload" ELSE "task")
  /\ UNCHANGED <<shared, eax, created>>

ExitReload ==
  /\ Goto("exit_reload", "exit_sub")
  /\ eax' = critical
  /\ UNCHANGED <<shared, created>>

ExitSub ==
  /\ Goto("exit_sub", "exit_store")
  /\ eax' = eax - 1
  /\ UNCHANGED <<shared, created>>

ExitStore ==
  /\ Goto("exit_store", "task")
  /\ critical' = eax
  /\ UNCHANGED <<task_list, current_index, task_count, running_task, eax, created>>

exit_critical == ExitLoad \/ ExitTest \/ ExitReload \/ ExitSub \/ ExitStore

-----------------------------------------------------------------------------
(* context_switch: registers to the old task's stack, esp to its entry,    *)
(* and back from the new one's.  A task that was interrupted returns       *)
(* through iret with interrupts on; a new one starts with them off.        *)
context_switch(next) ==
  /\ task_list' = [task_list EXCEPT ![running_task] = [pc |-> pc, eax |-> eax]]
  /\ running_task' = next
  /\ LET frame == IF next \in Slots THEN task_list[next] ELSE NoFrame
     IN  /\ pc' = frame.pc
         /\ eax' = frame.eax
         /\ iflag' = (frame.pc \notin {"starter", "wild"})

(* Mutants of schedule_next_task: critical is not looked at; the last      *)
(* entry is never reached.                                                 *)
ScheduleAlways ==
  LET next_index == (current_index + 1) % task_count
  IN  IF next_index = current_index
      THEN UNCHANGED <<shared, pc, eax, iflag>>
      ELSE /\ current_index' = next_index
           /\ context_switch(next_index)
           /\ UNCHANGED <<task_count, critical>>

ScheduleShort ==
  LET next_index == IF current_index + 2 < task_count THEN current_index + 1 ELSE 0
  IN  IF critical > 0 \/ next_index = current_index
      THEN UNCHANGED <<shared, pc, eax, iflag>>
      ELSE /\ current_index' = next_index
           /\ context_switch(next_index)
           /\ UNCHANGED <<task_count, critical>>

schedule_next_task ==
  LET next_index == (current_index + 1) % task_count
  IN  IF critical > 0 \/ next_index = current_index
      THEN UNCHANGED <<shared, pc, eax, iflag>>
      ELSE /\ current_index' = next_index
           /\ context_switch(next_index)
           /\ UNCHANGED <<task_count, critical>>

(* timer_isr: acknowledge, count the tick, schedule.                       *)
timer_isr ==
  /\ iflag
  /\ schedule_next_task
  /\ UNCHANGED <<created, keys>>

(* keyboard_isr as the interrupted task sees it: the registers come back   *)
(* from popa, then AL is overwritten with the EOI byte 0x20.               *)
WithAL(e, byte) == (e \div 256) * 256 + byte

keyboard_isr ==
  /\ iflag
  /\ keys < MaxKeys
  /\ keys' = keys + 1
  /\ eax' = WithAL(eax, 32)
  /\ UNCHANGED <<shared, pc, iflag, created>>

Instruction ==
  \/ k_create_task \/ task_starter \/ CallEnter \/ enter_critical \/ CallExit \/ exit_critical

Next == Instruction \/ timer_isr \/ keyboard_isr

(* The timer keeps ticking and its phase is not locked to the critical     *)
(* sections: a tick that finds critical > 0 is dropped, not deferred, so   *)
(* weak fairness would allow every tick to be dropped.  A task that gets   *)
(* the CPU again and again executes instructions in its millisecond.       *)
RunOf(t) == running_task = t /\ Instruction

Spec     == Init /\ [][Next]_vars
FairSpec == /\ Spec
            /\ SF_vars(timer_isr)
            /\ \A t \in Slots : SF_vars(RunOf(t) /\ pc # "task")

-----------------------------------------------------------------------------
(* Where task t is: on the CPU, or in its frame.                           *)
PCof(t) == IF t = running_task THEN pc ELSE task_list[t].pc
InsideCritical == {t \in Slots : PCof(t) \in InsidePCs}

TypeOK ==
  /\ task_list \in [Slots -> Frame]
  /\ current_index \in Nat /\ running_task \in Nat
  /\ task_count \in Nat \ {0}
  /\ critical \in Nat
  /\ pc \in PCs /\ eax \in Nat /\ iflag \in BOOLEAN
  /\ created \in 0 .. NumCreate /\ keys \in 0 .. MaxKeys

(* enter_critical increments its counter with three instructions and no    *)
(* lock, yet two tasks are never both inside, whatever the timer and the   *)
(* keyboard interrupt.                                                     *)
MutualExclusion == \A s, t \in InsideCritical : s = t

(* Without a keyboard interrupt no update of critical is ever lost: it is  *)
(* 1 exactly while the running task is inside, also after a task was       *)
(* preempted between the load and the store of critical++.                 *)
CriticalExact ==
  keys = 0 => critical = (IF pc \in InsidePCs THEN 1 ELSE 0)

(* However many keyboard interrupts overwrite AL inside enter_critical and *)
(* exit_critical, the counter stays small: it cannot wrap back to 0 and    *)
(* let the scheduler into a critical section.                              *)
CriticalBounded == critical <= 33

(* Without a keyboard interrupt every switch resumes a frame that          *)
(* k_create_task or an earlier switch saved, also while the bootstrap task *)
(* is still creating tasks.                                                *)
NoWildSwitch == keys = 0 => pc # "wild"

(* The scheduler implements the critical sections its callers rely on: no  *)
(* switch leaves a task that is inside, and one task at a time is.         *)
CS == INSTANCE CriticalSection
        WITH Runnable <- Nat, cpu <- running_task, inside <- InsideCritical
ImplementsCriticalSection == CS!Spec

(* While the keyboard stays quiet every task, the bootstrap task included, *)
(* gets the CPU again and again.                                           *)
RunForEver    == \A t \in 0 .. NumCreate : []<>(running_task = t)
EveryTaskRuns == [](keys = 0) => RunForEver

(* The same of a system in which the keyboard stays quiet until the tasks  *)
(* are created: then every task goes on running, whatever keys come later. *)
QuietBoot == [](keys > 0 => created = NumCreate)
TasksSurviveKeys == QuietBoot => RunForEver
=============================================================================
