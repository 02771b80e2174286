------------------------------ MODULE Interrupts ------------------------------
(***************************************************************************)
(* How the kernel sets up interrupts (main.c, kernel_setup_interrupts) and *)
(* what then runs on them: the handlers of IDT/ with their end-of-         *)
(* interrupt commands, the round robin of the timer, k_sleep.              *)
(*                                                                         *)
(* The interrupt controller and the processor are external.  A line is     *)
(* requested (irr), perhaps masked (imr), and in service (isr) from the    *)
(* moment the processor takes the interrupt until the handler sends EOI;   *)
(* a line in service holds back itself and those below it.  The processor  *)
(* takes an interrupt before the next instruction and clears its flag, as  *)
(* all gates are interrupt gates.                                          *)
(*                                                                         *)
(* Task 0 is the one that boots and creates the tasks 1 .. NumTasks, which *)
(* sleep over and over.  Critical sections are left to the module Tasks.   *)
(* Time: some task executes an instruction between two interrupts of a     *)
(* line (worked).                                                          *)
(***************************************************************************)
EXTENDS Integers

CONSTANTS NumTasks,     \* tasks created
          Width,        \* 2^32, the values of k_ticks
          Ms,           \* what the tasks give k_sleep
          Frequencies   \* sample of arguments of pit_init

ASSUME SleepAssumption ==
  /\ NumTasks \in Nat \ {0} /\ Ms \in Nat /\ Width \in Nat
  /\ Width > Ms + NumTasks + 2
ASSUME FrequenciesAssumption == Frequencies \subseteq Nat

Lines   == {"timer", "keyboard", "other"}
Vectors == Lines \cup {"exception"}
Tasks   == 0 .. NumTasks

VARIABLES iflag, irr, imr, isr, remapped,   \* processor and PIC
          idt,                              \* handler of each vector
          boot,                             \* next step of task 0
          running, task_count, fresh,       \* tasks; those that never ran
          hpc, cause,                       \* step of the handler, what it was taken for
          k_ticks, start_ms, asleep,        \* k_sleep of each task
          worked, slept                     \* history: lines with an instruction since; ticks slept

picVars   == <<irr, imr, isr, remapped>>
taskVars  == <<running, task_count, fresh>>
sleepVars == <<k_ticks, start_ms, asleep, slept>>
vars == <<iflag, picVars, idt, boot, taskVars, hpc, cause, sleepVars, worked>>

Init ==
  /\ iflag = FALSE /\ irr \in SUBSET Lines /\ imr \in SUBSET Lines /\ isr = {} /\ remapped = FALSE
  /\ idt = [v \in Vectors |-> "none"]
  /\ boot = "pic_remap"
  /\ running = 0 /\ task_count = 1 /\ fresh = {}
  /\ hpc = "task" /\ cause = "none"
  /\ k_ticks = 0 /\ start_ms = [t \in Tasks |-> 0] /\ asleep = {} /\ slept = [t \in Tasks |-> 0]
  /\ worked = {}

-----------------------------------------------------------------------------
(* The controller.  Before pic_remap its vectors are those of exceptions.  *)
Above(a, b)  == (a = "timer" /\ b # "timer") \/ (a = "keyboard" /\ b = "other")
Pending      == {l \in irr \ imr : \A s \in isr : Above(l, s)}
Offered      == {l \in Pending : \A m \in Pending \ {l} : Above(l, m)}
Vector(line) == IF remapped THEN line ELSE "exception"

(* A non-specific EOI ends the highest line in service.                    *)
Eoi == isr' = {s \in isr : \E h \in isr : Above(h, s)} /\ UNCHANGED <<irr, imr, remapped>>

Request(line) ==
  /\ line \notin irr /\ irr' = irr \cup {line}
  /\ line \in worked
  /\ UNCHANGED <<iflag, imr, isr, remapped, idt, boot, taskVars, hpc, cause, sleepVars, worked>>

Device == \E line \in Lines : Request(line)

-----------------------------------------------------------------------------
(* kernel_setup_interrupts, one call after the other.                      *)
InTask(t) == running = t /\ hpc = "task" /\ ~ (iflag /\ Offered # {}) /\ worked' = Lines

Boot(p, q) ==
  /\ InTask(0) /\ boot = p /\ boot' = q
  /\ UNCHANGED <<hpc, cause, sleepVars>>

pic_remap ==
  /\ Boot("pic_remap", "idt_init")
  /\ remapped' = TRUE /\ irr' = {} /\ isr' = {} /\ imr' = {}
  /\ iflag' = FALSE /\ UNCHANGED <<idt, taskVars>>

idt_init ==
  /\ Boot("idt_init", "idt_ignore_all")
  /\ idt' = [v \in Vectors |-> "none"] /\ UNCHANGED <<iflag, picVars, taskVars>>

idt_ignore_all ==
  /\ Boot("idt_ignore_all", "setup_exceptions")
  /\ idt' = [v \in Vectors |-> "idt_common_isr"] /\ UNCHANGED <<iflag, picVars, taskVars>>

idt_set_entry(v, handler) == idt' = [idt EXCEPT ![v] = handler]
irq_clear_mask(line)      == imr' = imr \ {line}

(* Mutant of setup_exceptions: a gate that idt_ignore_all has overwritten. *)
ExceptionsLost ==
  /\ Boot("setup_exceptions", "irq_mask_all") /\ UNCHANGED <<iflag, picVars, idt, taskVars>>

setup_exceptions ==
  /\ Boot("setup_exceptions", "irq_mask_all")
  /\ idt_set_entry("exception", "exception") /\ UNCHANGED <<iflag, picVars, taskVars>>

(* Mutant of irq_mask_all: irq_clear_all, the function next to it.         *)
irq_clear_all ==
  /\ Boot("irq_mask_all", "init_keyboard_irq")
  /\ imr' = {} /\ UNCHANGED <<iflag, irr, isr, remapped, idt, taskVars>>

irq_mask_all ==
  /\ Boot("irq_mask_all", "init_keyboard_irq")
  /\ imr' = Lines /\ UNCHANGED <<iflag, irr, isr, remapped, idt, taskVars>>

InitIrq(line, isr_name, q) ==
  /\ Boot(boot, q)
  /\ idt_set_entry(line, isr_name) /\ irq_clear_mask(line)
  /\ UNCHANGED <<iflag, irr, isr, remapped, taskVars>>

init_keyboard_irq == boot = "init_keyboard_irq" /\ InitIrq("keyboard", "keyboard_isr", "init_timer_irq")
init_timer_irq    == boot = "init_timer_irq" /\ InitIrq("timer", "timer_isr", "pit_init")

(* The divider of the timer for a rate in Hz: its clock is 3579545 / 3 Hz. *)
(* Mutant of Rounded: the quotient is cut off.                             *)
CutOff(q)  == q \div 3
Rounded(q) == IF q % 3 >= 2 THEN q \div 3 + 1 ELSE q \div 3

reload(hz) ==
  IF hz <= 18 THEN 65536 ELSE IF hz >= 1193181 THEN 1 ELSE Rounded(3579545 \div hz)

(* pit_init ends with sti: interrupts are on before interrupts_enable.     *)
pit_init ==
  /\ Boot("pit_init", "interrupts_enable")
  /\ iflag' = TRUE /\ UNCHANGED <<picVars, idt, taskVars>>

interrupts_enable ==
  /\ Boot("interrupts_enable", "k_setup_tasks")
  /\ iflag' = TRUE /\ UNCHANGED <<picVars, idt, taskVars>>

k_setup_tasks ==
  /\ Boot("k_setup_tasks", IF task_count = NumTasks THEN "k_loop" ELSE "k_setup_tasks")
  /\ task_count' = task_count + 1 /\ fresh' = fresh \cup {task_count}
  /\ UNCHANGED <<iflag, picVars, idt, running>>

k_loop == Boot("k_loop", "k_loop") /\ UNCHANGED <<iflag, picVars, idt, taskVars>>

kernel_boot ==
  \/ pic_remap \/ idt_init \/ idt_ignore_all \/ setup_exceptions \/ irq_mask_all
  \/ init_keyboard_irq \/ init_timer_irq \/ pit_init \/ interrupts_enable
  \/ k_setup_tasks \/ k_loop

-----------------------------------------------------------------------------
(* Taking an interrupt, or an exception of the running task.               *)
Take(c, handler) ==
  /\ hpc = "task" /\ hpc' = handler /\ cause' = c
  /\ iflag' = FALSE
  /\ UNCHANGED <<imr, remapped, idt, boot, taskVars, sleepVars>>

Interrupt ==
  /\ iflag
  /\ \E line \in Offered :
       /\ Take(line, idt[Vector(line)])
       /\ irr' = irr \ {line} /\ isr' = isr \cup {line}
       /\ worked' = worked \ {line}

Exception ==
  /\ boot = "k_loop" /\ Take("exception", idt["exception"])
  /\ UNCHANGED <<irr, isr, worked>>

Handler(p, q) == hpc = p /\ hpc' = q /\ UNCHANGED <<imr, remapped, irr, idt, boot, worked>>

SendEoi(p) ==
  /\ Handler(p, "iret") /\ Eoi
  /\ UNCHANGED <<iflag, cause, taskVars, sleepVars>>

(* keyboard_isr and idt_common_isr send EOI at their end.  Mutant of       *)
(* keyboard_isr: it sends none.                                            *)
KeyboardForgets ==
  /\ Handler("keyboard_isr", "iret") /\ UNCHANGED <<isr, iflag, cause, taskVars, sleepVars>>

keyboard_isr == \E p \in {"keyboard_isr", "idt_common_isr"} : SendEoi(p)

iret ==
  /\ Handler("iret", "task") /\ iflag' = TRUE /\ cause' = "none"
  /\ UNCHANGED <<isr, taskVars, sleepVars>>

(* timer_handler counts and switches; a task that was switched away from   *)
(* is in its own timer_isr, behind the call.  A new task starts in         *)
(* task_starter, with sti, and returns from no interrupt.                  *)
AtMost(n, cap) == IF n < cap THEN n ELSE cap

timer_handler(p, behind) ==
  LET next == (running + 1) % task_count
  IN  /\ Handler(p, IF next \in fresh THEN "task" ELSE behind)
      /\ k_ticks' = (k_ticks + 1) % Width
      /\ slept' = [t \in Tasks |-> AtMost(slept[t] + 1, Width)]
      /\ running' = next /\ fresh' = fresh \ {next}
      /\ iflag' = (next \in fresh) /\ cause' = IF next \in fresh THEN "none" ELSE cause
      /\ UNCHANGED <<isr, task_count, start_ms, asleep>>

(* timer_isr sends EOI before it calls timer_handler.  Mutant of           *)
(* timer_isr: it does so at its end, like the others.                      *)
EoiLast ==
  \/ timer_handler("timer_isr", "timer_eoi")
  \/ SendEoi("timer_eoi")

timer_isr ==
  \/ /\ Handler("timer_isr", "timer_handler") /\ Eoi
     /\ UNCHANGED <<iflag, cause, taskVars, sleepVars>>
  \/ timer_handler("timer_handler", "iret")

(* An exception handler prints and halts for good.                         *)
halt == Handler("exception", "halt") /\ UNCHANGED <<iflag, isr, cause, taskVars, sleepVars>>

-----------------------------------------------------------------------------
(* k_sleep.  Mutants of Waits: it stops one tick early; it waits for the   *)
(* very tick.                                                              *)
WaitsShort(t) == (start_ms[t] + Ms) % Width > k_ticks + 1
WaitsExact(t) == (start_ms[t] + Ms) % Width # k_ticks
Waits(t)      == (start_ms[t] + Ms) % Width > k_ticks

k_sleep(t) ==
  /\ InTask(t) /\ t # 0
  /\ \/ /\ t \notin asleep /\ asleep' = asleep \cup {t}
        /\ start_ms' = [start_ms EXCEPT ![t] = k_ticks] /\ slept' = [slept EXCEPT ![t] = 0]
     \/ /\ t \in asleep
        /\ asleep' = IF Waits(t) THEN asleep ELSE asleep \ {t}
        /\ UNCHANGED <<start_ms, slept>>
  /\ UNCHANGED <<iflag, picVars, idt, boot, taskVars, hpc, cause, k_ticks>>

Cpu ==
  \/ kernel_boot \/ Interrupt
  \/ keyboard_isr \/ iret \/ timer_isr \/ halt
  \/ \E t \in Tasks : k_sleep(t)

Halted == hpc = "halt" /\ UNCHANGED vars

Next == Cpu \/ Device \/ Exception \/ Halted

(* The processor never pauses, and the timer ticks.                        *)
Spec     == Init /\ [][Next]_vars
FairSpec == Spec /\ WF_vars(Cpu) /\ WF_vars(Request("timer"))

-----------------------------------------------------------------------------
(* kernel_setup_interrupts unmasks every line before there is a handler,   *)
(* and pit_init turns interrupts on before its caller does: still no       *)
(* interrupt is taken but those of timer and keyboard, each by its own     *)
(* handler, and none of a line that is masked for good.                    *)
OwnHandler ==
  /\ cause \in {"none", "timer", "keyboard", "exception"}
  /\ cause = "none"      => hpc = "task"
  /\ cause = "timer"     => hpc \in {"timer_isr", "timer_handler", "iret"}
  /\ cause = "keyboard"  => hpc \in {"keyboard_isr", "iret"}
  /\ cause = "exception" => hpc \in {"exception", "halt"}

(* After an exception the machine stands still: no handler and no task     *)
(* runs again, whatever the devices request.                               *)
ExceptionsHalt == [](cause = "exception" => [](hpc \in {"exception", "halt"} /\ ~ iflag))

(* The timer goes on ticking and every task goes on getting its turn, new  *)
(* tasks that never return from the interrupt they were started in         *)
(* included; and a key is always handled in the end.                       *)
Lives ==
  [](cause # "exception") => \A t \in Tasks : []<>(running = t /\ hpc = "timer_isr")
KeysHandled ==
  [](cause # "exception") => ((boot = "k_loop" /\ "keyboard" \in irr) ~> (hpc = "keyboard_isr"))

(* k_sleep, unless start_ms + ms passes the end of k_ticks: it never       *)
(* returns before Ms ticks ...                                             *)
SleepsLongEnough ==
  [][\A t \in Tasks :
       t \in asleep \ asleep' /\ start_ms[t] + Ms < Width => slept[t] >= Ms]_vars

(* ... and goes on for at most one more turn of the round robin, unless    *)
(* that turn passes the end: then it may miss its tick and sleep on.       *)
SleepsNotTooLong ==
  \A t \in asleep :
    start_ms[t] + Ms + task_count < Width => slept[t] <= Ms + task_count

(* The divider pit_init programs is off by less than one from the exact    *)
(* one, within the rates the timer has.                                    *)
Apart(a, b) == IF a < b THEN b - a ELSE a - b
PitInRange ==
  boot = "pit_init" =>
    \A hz \in Frequencies :
      19 <= hz /\ hz < 1193181 => Apart(3 * hz * reload(hz), 3579545) < 2 * hz
=============================================================================
