--------------------------- MODULE InterruptsProofs ---------------------------
(***************************************************************************)
(* For every number of tasks, every width of k_ticks and every sleep:      *)
(* interrupts reach only their own handlers, an exception stops the        *)
(* machine for good, and k_sleep never returns early, nor later than a     *)
(* turn of the round robin allows.  And the divisor of pit_init.           *)
(***************************************************************************)
EXTENDS Interrupts, TLAPS

(* The steps of kernel_setup_interrupts by what they leave to be done.     *)
Late       == {"interrupts_enable", "k_setup_tasks", "k_loop"}
TimerSet   == Late \cup {"pit_init"}
KeysSet    == TimerSet \cup {"init_timer_irq"}
Masked     == KeysSet \cup {"init_keyboard_irq"}
Excepted   == Masked \cup {"irq_mask_all"}
Early      == {"idt_init", "idt_ignore_all", "setup_exceptions"}
AllSteps   == Excepted \cup Early \cup {"pic_remap"}

Handlers   == {"none", "idt_common_isr", "exception", "keyboard_isr", "timer_isr"}
SetupTypes == irr \subseteq Lines /\ idt \in [Vectors -> Handlers] /\ boot \in AllSteps

(* Each call of the setup has left its mark, and until pit_init interrupts *)
(* are off: the processor cannot be anywhere but in the setup.             *)
Marks ==
  /\ boot \notin Late        => ~ iflag /\ cause = "none"
  /\ boot # "pic_remap"      => remapped = TRUE
  /\ boot \in Excepted       => idt["exception"] = "exception"
  /\ boot \in Masked         => "other" \in imr
  /\ boot \in KeysSet        => idt["keyboard"] = "keyboard_isr"
  /\ boot \in TimerSet       => idt["timer"] = "timer_isr"

(* OwnHandler, and interrupts are off in a handler.                        *)
Handling == OwnHandler /\ (cause # "none" => ~ iflag)

SetupInv == SetupTypes /\ Marks /\ Handling

LEMMA SetupInit == Init => SetupInv
<1> SUFFICES ASSUME Init PROVE SetupInv
  OBVIOUS
<1>1. SetupTypes
  BY DEF Init, SetupTypes, Vectors, AllSteps, Handlers
<1>2. Marks
  BY DEF Init, Marks, Late, Excepted, Masked, KeysSet, TimerSet
<1>3. Handling
  BY DEF Init, Handling, OwnHandler
<1> QED  BY <1>1, <1>2, <1>3 DEF SetupInv

(* A call of the setup runs while no handler does.                         *)
LEMMA SetupCalls ==
  ASSUME SetupInv, kernel_boot
  PROVE  SetupInv'
<1> USE DEF SetupInv, SetupTypes, Boot, InTask, picVars, taskVars, sleepVars
<1>1. hpc = "task" /\ hpc' = hpc /\ cause' = cause
  BY DEF kernel_boot, pic_remap, idt_init, idt_ignore_all, setup_exceptions, irq_mask_all,
         init_keyboard_irq, init_timer_irq, InitIrq, pit_init, interrupts_enable,
         k_setup_tasks, k_loop
<1>2. cause = "none"
  BY <1>1 DEF Handling, OwnHandler
<1>3. Handling'
  BY <1>1, <1>2 DEF Handling, OwnHandler
<1> USE DEF Marks, AllSteps, Early, Excepted, Masked, KeysSet, TimerSet, Late, Lines, Vectors, Handlers,
            idt_set_entry, irq_clear_mask, InitIrq
<1>4. CASE pic_remap
  BY <1>2, <1>3, <1>4 DEF pic_remap
<1>5. CASE idt_init
  BY <1>2, <1>3, <1>5 DEF idt_init
<1>6. CASE idt_ignore_all
  BY <1>2, <1>3, <1>6 DEF idt_ignore_all
<1>7. CASE setup_exceptions
  BY <1>2, <1>3, <1>7 DEF setup_exceptions
<1>8. CASE irq_mask_all
  BY <1>2, <1>3, <1>8 DEF irq_mask_all
<1>9. CASE init_keyboard_irq
  BY <1>2, <1>3, <1>9 DEF init_keyboard_irq
<1>10. CASE init_timer_irq
  BY <1>2, <1>3, <1>10 DEF init_timer_irq
<1>11. CASE pit_init
  BY <1>2, <1>3, <1>11 DEF pit_init
<1>12. CASE interrupts_enable \/ k_setup_tasks \/ k_loop
  <2>1. UNCHANGED <<picVars, idt, cause>> /\ boot \in AllSteps /\ boot' \in Late /\ boot \in TimerSet
    BY <1>12 DEF interrupts_enable, k_setup_tasks, k_loop
  <2> QED  BY <2>1, <1>2, <1>3
<1> QED  BY <1>4, <1>5, <1>6, <1>7, <1>8, <1>9, <1>10, <1>11, <1>12 DEF kernel_boot

(* An interrupt is one of a line that is not masked, after the setup.      *)
LEMMA SetupTaken ==
  ASSUME SetupInv, Interrupt \/ Exception
  PROVE  SetupInv'
<1> USE DEF SetupInv, SetupTypes, Take, taskVars, sleepVars
<1>1. boot \in Late /\ boot' = boot /\ remapped' = remapped /\ idt' = idt /\ imr' = imr /\ iflag' = FALSE
  BY DEF Interrupt, Exception, Marks, Late
<1>2. /\ remapped = TRUE /\ "other" \in imr /\ idt["exception"] = "exception"
      /\ idt["keyboard"] = "keyboard_isr" /\ idt["timer"] = "timer_isr"
  BY <1>1 DEF Marks, Excepted, Masked, KeysSet, TimerSet, Late
<1>3. SetupTypes' /\ Marks'
  <2>1. irr' \subseteq Lines
    BY DEF Interrupt, Exception
  <2> QED  BY <2>1, <1>1, <1>2 DEF Marks
<1>4. CASE Interrupt
  <2>1. PICK line \in Offered : Take(line, idt[Vector(line)])
    BY <1>4 DEF Interrupt
  <2>2. line \in {"timer", "keyboard"}
    BY <1>2 DEF Offered, Pending, Lines
  <2>3. hpc' = idt[line] /\ cause' = line
    BY <2>1, <1>2 DEF Vector
  <2> QED  BY <2>2, <2>3, <1>1, <1>2, <1>3 DEF Handling, OwnHandler
<1>5. CASE Exception
  BY <1>5, <1>1, <1>2, <1>3 DEF Exception, Handling, OwnHandler
<1> QED  BY <1>4, <1>5

(* A handler runs after the setup only, and keeps interrupts off until it  *)
(* returns or switches to a task that never ran.                           *)
LEMMA SetupHandlers ==
  ASSUME SetupInv, keyboard_isr \/ iret \/ timer_isr \/ halt
  PROVE  SetupInv'
<1> USE DEF SetupInv, SetupTypes, Handler, SendEoi, Eoi, taskVars, sleepVars
<1>1. hpc # "task" /\ cause # "none" /\ ~ iflag
  BY DEF Handling, OwnHandler, keyboard_isr, iret, timer_isr, timer_handler, halt
<1>2. boot \in Late
  BY <1>1 DEF Marks
<1>3. SetupTypes' /\ Marks'
  BY <1>2 DEF Marks, keyboard_isr, iret, timer_isr, timer_handler, halt
<1>4. CASE keyboard_isr \/ iret \/ halt
  BY <1>1, <1>3, <1>4 DEF Handling, OwnHandler, keyboard_isr, iret, halt
<1>5. CASE timer_isr
  <2>1. cause = "timer"
    BY <1>5 DEF Handling, OwnHandler, timer_isr, timer_handler
  <2>2. CASE hpc = "timer_isr"
    BY <1>1, <1>3, <1>5, <2>1, <2>2 DEF Handling, OwnHandler, timer_isr, timer_handler
  <2>3. CASE timer_handler("timer_handler", "iret")
    <3> DEFINE next == (running + 1) % task_count
    <3>1. /\ hpc' = IF next \in fresh THEN "task" ELSE "iret"
          /\ cause' = IF next \in fresh THEN "none" ELSE cause
          /\ iflag' = (next \in fresh)
      BY <2>3 DEF timer_handler
    <3> HIDE DEF next
    <3>2. CASE next \in fresh
      <4>1. hpc' = "task" /\ cause' = "none"
        BY <3>1, <3>2
      <4> QED  BY <4>1, <1>3 DEF Handling, OwnHandler
    <3>3. CASE next \notin fresh
      <4>1. hpc' = "iret" /\ cause' = "timer"
        BY <3>1, <3>3, <2>1
      <4>2. ~ iflag'
        BY <3>1, <3>3
      <4> QED  BY <4>1, <4>2, <1>3 DEF Handling, OwnHandler
    <3> QED  BY <3>2, <3>3
  <2> QED  BY <1>5, <2>2, <2>3 DEF timer_isr
<1> QED  BY <1>4, <1>5

LEMMA SetupStep == SetupInv /\ [Next]_vars => SetupInv'
<1> SUFFICES ASSUME SetupInv, [Next]_vars PROVE SetupInv'
  OBVIOUS
<1>1. CASE Device
  BY <1>1 DEF Device, Request, SetupInv, SetupTypes, Marks, Handling, OwnHandler
<1>2. CASE \E t \in Tasks : k_sleep(t)
  BY <1>2 DEF k_sleep, picVars, SetupInv, SetupTypes, Marks, Handling, OwnHandler
<1>3. CASE UNCHANGED vars
  BY <1>3 DEF vars, picVars, SetupInv, SetupTypes, Marks, Handling, OwnHandler
<1> QED
  BY <1>1, <1>2, <1>3, SetupCalls, SetupTaken, SetupHandlers DEF Next, Cpu, Halted

LEMMA SetupAlways == Spec => []SetupInv
  BY SetupInit, SetupStep, PTL DEF Spec

(* No interrupt is taken but those of timer, keyboard and exceptions, each *)
(* by its own handler, although every line is unmasked before there is one.*)
THEOREM HandlersOwn == Spec => []OwnHandler
<1>1. SetupInv => OwnHandler
  BY DEF SetupInv, Handling, OwnHandler
<1> QED  BY <1>1, SetupAlways, PTL

(* Once an exception is taken the machine stands still.                    *)
THEOREM ExceptionsStop == Spec => ExceptionsHalt
<1>1. SetupInv /\ cause = "exception" => hpc \in {"exception", "halt"} /\ ~ iflag
  BY DEF SetupInv, Handling, OwnHandler
<1>2. SetupInv /\ cause = "exception" /\ [Next]_vars => (cause = "exception")'
  <2> SUFFICES ASSUME SetupInv, cause = "exception", [Next]_vars PROVE cause' = "exception"
    OBVIOUS
  <2>1. hpc \in {"exception", "halt"}
    BY <1>1
  <2> QED
    BY <2>1 DEF Next, Cpu, kernel_boot, pic_remap, idt_init, idt_ignore_all, setup_exceptions,
       irq_mask_all, init_keyboard_irq, init_timer_irq, InitIrq, pit_init, interrupts_enable,
       k_setup_tasks, k_loop, Boot, InTask, Interrupt, Exception, Take, keyboard_isr, SendEoi,
       Handler, iret, timer_isr, timer_handler, halt, k_sleep, Device, Request, Halted, vars
<1> QED  BY <1>1, <1>2, SetupAlways, PTL DEF Spec, ExceptionsHalt

-----------------------------------------------------------------------------
(* k_sleep: what k_ticks is past the start of a sleep was slept, and after *)
(* the end of k_ticks it is less than the start.                           *)
SleepTypes ==
  /\ k_ticks \in 0 .. Width - 1 /\ asleep \subseteq Tasks
  /\ start_ms \in [Tasks -> 0 .. Width - 1] /\ slept \in [Tasks -> 0 .. Width]

SleepInv == SleepTypes /\ \A t \in asleep : k_ticks - start_ms[t] <= slept[t]

LEMMA SleepInit == Init => SleepInv
  BY SleepAssumption DEF Init, SleepInv, SleepTypes

LEMMA SleepStep == SleepInv /\ [Next]_vars => SleepInv'
<1> SUFFICES ASSUME SleepInv, [Next]_vars PROVE SleepInv'
  OBVIOUS
<1> USE SleepAssumption DEF SleepInv, SleepTypes
<1>1. CASE UNCHANGED sleepVars
  BY <1>1 DEF sleepVars
<1>2. ASSUME NEW t \in Tasks, k_sleep(t) PROVE SleepInv'
  <2>1. CASE t \in asleep
    BY <1>2, <2>1 DEF k_sleep
  <2>2. CASE t \notin asleep
    <3>1. /\ asleep' = asleep \cup {t} /\ k_ticks' = k_ticks
          /\ start_ms' = [start_ms EXCEPT ![t] = k_ticks] /\ slept' = [slept EXCEPT ![t] = 0]
      BY <1>2, <2>2 DEF k_sleep
    <3>2. SleepTypes'
      BY <3>1
    <3> QED  BY <3>1, <3>2
  <2> QED  BY <2>1, <2>2
<1>3. ASSUME timer_isr, k_ticks' = (k_ticks + 1) % Width,
             slept' = [t \in Tasks |-> AtMost(slept[t] + 1, Width)],
             UNCHANGED <<start_ms, asleep>>
      PROVE  SleepInv'
  <2>1. k_ticks' \in 0 .. Width - 1 /\ k_ticks' <= k_ticks + 1
    BY <1>3
  <2>2. \A t \in Tasks : /\ slept'[t] \in 0 .. Width
                         /\ slept'[t] = slept[t] + 1 \/ slept'[t] = Width
    BY <1>3 DEF AtMost
  <2>3. SleepTypes'
    BY <1>3, <2>1, <2>2
  <2> QED  BY <1>3, <2>1, <2>2, <2>3
<1>4. timer_isr => \/ UNCHANGED sleepVars
                   \/ /\ k_ticks' = (k_ticks + 1) % Width
                      /\ slept' = [t \in Tasks |-> AtMost(slept[t] + 1, Width)]
                      /\ UNCHANGED <<start_ms, asleep>>
  BY DEF timer_isr, timer_handler
<1>5. kernel_boot \/ Interrupt \/ Exception \/ keyboard_isr \/ iret \/ halt \/ Device \/ Halted
      => UNCHANGED sleepVars
  BY DEF kernel_boot, pic_remap, idt_init, idt_ignore_all, setup_exceptions, irq_mask_all,
     init_keyboard_irq, init_timer_irq, InitIrq, pit_init, interrupts_enable, k_setup_tasks,
     k_loop, Boot, Interrupt, Exception, Take, keyboard_isr, SendEoi, iret, halt, Device,
     Request, Halted, vars
<1> QED  BY <1>1, <1>2, <1>3, <1>4, <1>5 DEF Next, Cpu, vars

LEMMA SleepAlways == Spec => []SleepInv
  BY SleepInit, SleepStep, PTL DEF Spec

(* A sleep that does not pass the end of k_ticks lasts Ms ticks at least.  *)
THEOREM SleepLong == Spec => SleepsLongEnough
<1>1. SleepInv /\ [Next]_vars
      => [\A t \in Tasks : t \in asleep \ asleep' /\ start_ms[t] + Ms < Width => slept[t] >= Ms]_vars
  <2> SUFFICES ASSUME SleepInv, [Next]_vars, NEW t \in Tasks, t \in asleep \ asleep',
                      start_ms[t] + Ms < Width
               PROVE  slept[t] >= Ms
    OBVIOUS
  <2>1. k_sleep(t)
    <3>1. asleep' # asleep
      OBVIOUS
    <3> QED
      BY <3>1 DEF Next, Cpu, kernel_boot, pic_remap, idt_init, idt_ignore_all, setup_exceptions,
         irq_mask_all, init_keyboard_irq, init_timer_irq, InitIrq, pit_init, interrupts_enable,
         k_setup_tasks, k_loop, Boot, Interrupt, Exception, Take, keyboard_isr, SendEoi, iret,
         timer_isr, timer_handler, halt, k_sleep, Device, Request, Halted, vars, sleepVars
  <2>2. ~ Waits(t)
    BY <2>1 DEF k_sleep
  <2>3. start_ms[t] + Ms <= k_ticks
    BY <2>2, SleepAssumption DEF Waits, SleepInv, SleepTypes
  <2> QED  BY <2>3, SleepAssumption DEF SleepInv, SleepTypes
<1> QED  BY <1>1, SleepAlways, PTL DEF Spec, SleepsLongEnough

-----------------------------------------------------------------------------
(* How long a sleep may go on.  A task that sleeps is so many turns from   *)
(* its own: none if the timer has switched to it and it has not executed   *)
(* an instruction since, the whole round if it has.  Between two switches  *)
(* the timer asks again only after an instruction (worked), so each switch *)
(* gives the task it chooses a look at k_ticks.                            *)
InTimer    == hpc \in {"timer_isr", "timer_handler"}
Looked     == "timer" \in worked \/ InTimer
TurnsTo(t) == IF running < t \/ (running = t /\ ~ Looked)
              THEN t - running ELSE t - running + task_count

Turns ==
  /\ running \in Nat /\ task_count \in Nat /\ running < task_count
  /\ \A t \in asleep : t # 0 /\ t < task_count

OneTick ==
  /\ InTimer => "timer" \notin worked
  /\ boot # "pic_remap" /\ "timer" \in irr => "timer" \in worked

(* The time slept and the turns to wait make up no more than the sleep and *)
(* one round, as long as that does not pass the end of k_ticks.            *)
InTime(t) == /\ k_ticks = start_ms[t] + slept[t]
             /\ slept[t] + TurnsTo(t) <= Ms + task_count
OnTime    == \A t \in asleep : start_ms[t] + Ms + task_count < Width => InTime(t)

RoundInv == SetupInv /\ SleepInv /\ Turns /\ OneTick /\ OnTime

LEMMA RoundInit == Init => RoundInv
<1> SUFFICES ASSUME Init PROVE RoundInv
  OBVIOUS
<1>1. Turns /\ OneTick /\ OnTime
  BY DEF Init, Turns, OneTick, OnTime, InTimer
<1> QED  BY <1>1, SetupInit, SleepInit DEF RoundInv

(* A step that neither counts, switches nor looks changes no distance.     *)
LEMMA RoundFrame ==
  ASSUME RoundInv, UNCHANGED <<sleepVars, running, task_count>>, Looked' = Looked
  PROVE  Turns' /\ OnTime'
<1>1. Turns'
  BY DEF RoundInv, Turns, sleepVars
<1>2. \A t : TurnsTo(t)' = TurnsTo(t)
  BY DEF TurnsTo
<1>3. OnTime'
  BY <1>2 DEF RoundInv, OnTime, InTime, sleepVars
<1> QED  BY <1>1, <1>3

(* The processor takes the timer's interrupt only after an instruction.    *)
LEMMA RoundTaken ==
  ASSUME RoundInv, Interrupt \/ Exception
  PROVE  Turns' /\ OneTick' /\ OnTime'
<1>1. /\ UNCHANGED <<sleepVars, running, task_count>> /\ boot' = boot /\ hpc = "task"
      /\ irr' \subseteq irr
  BY DEF Interrupt, Exception, Take, taskVars
<1>2. /\ boot # "pic_remap" /\ remapped = TRUE /\ "other" \in imr
      /\ idt["exception"] = "exception" /\ idt["keyboard"] = "keyboard_isr"
      /\ idt["timer"] = "timer_isr"
  BY DEF Interrupt, Exception, RoundInv, SetupInv, Marks, Late, Excepted, Masked, KeysSet, TimerSet
<1>3. CASE Exception
  <2>1. hpc' = "exception" /\ worked' = worked /\ irr' = irr
    BY <1>2, <1>3 DEF Exception, Take
  <2>2. Looked' = Looked
    BY <1>1, <2>1 DEF Looked, InTimer
  <2>3. OneTick'
    BY <1>1, <2>1 DEF OneTick, InTimer, RoundInv
  <2> QED  BY <1>1, <2>2, <2>3, RoundFrame
<1>4. CASE Interrupt
  <2>1. PICK line \in Offered : /\ Take(line, idt[Vector(line)])
                                /\ irr' = irr \ {line} /\ worked' = worked \ {line}
    BY <1>4 DEF Interrupt
  <2>2. line \in {"timer", "keyboard"} /\ line \in irr /\ hpc' = idt[line]
    BY <1>2, <2>1 DEF Offered, Pending, Lines, RoundInv, SetupInv, SetupTypes, Take, Vector
  <2>3. CASE line = "timer"
    <3>1. "timer" \in worked /\ hpc' = "timer_isr"
      BY <1>2, <2>2, <2>3 DEF RoundInv, OneTick
    <3>2. Looked' = Looked
      BY <3>1 DEF Looked, InTimer
    <3>3. OneTick'
      BY <2>1, <2>3 DEF OneTick
    <3> QED  BY <1>1, <3>2, <3>3, RoundFrame
  <2>4. CASE line = "keyboard"
    <3>1. hpc' = "keyboard_isr" /\ ("timer" \in worked' <=> "timer" \in worked)
      BY <1>2, <2>1, <2>2, <2>4
    <3>2. Looked' = Looked
      BY <1>1, <3>1 DEF Looked, InTimer
    <3>3. OneTick'
      BY <1>1, <3>1 DEF OneTick, InTimer, RoundInv
    <3> QED  BY <1>1, <3>2, <3>3, RoundFrame
  <2> QED  BY <2>2, <2>3, <2>4
<1> QED  BY <1>3, <1>4

(* The other steps of the handlers.                                        *)
LEMMA RoundHandlers ==
  ASSUME RoundInv, 
         keyboard_isr \/ iret \/ halt \/ (Handler("timer_isr", "timer_handler") /\ Eoi
                                         /\ UNCHANGED <<iflag, cause, taskVars, sleepVars>>)
  PROVE  Turns' /\ OneTick' /\ OnTime'
<1>1. /\ UNCHANGED <<sleepVars, running, task_count, worked, irr, boot>>
      /\ InTimer' = InTimer
  BY DEF keyboard_isr, SendEoi, iret, halt, Handler, Eoi, taskVars, InTimer
<1>2. Looked' = Looked
  BY <1>1 DEF Looked
<1>3. OneTick'
  BY <1>1 DEF OneTick, RoundInv
<1> QED  BY <1>1, <1>2, <1>3, RoundFrame

(* Task 0 boots: it is nobody's turn that waits, and a task it adds goes   *)
(* to the end of the round.                                                *)
LEMMA RoundBoot ==
  ASSUME RoundInv, kernel_boot
  PROVE  Turns' /\ OneTick' /\ OnTime'
<1>1. /\ running = 0 /\ running' = 0 /\ hpc' = "task" /\ worked' = Lines
      /\ UNCHANGED sleepVars
      /\ task_count' = task_count \/ task_count' = task_count + 1
  BY DEF kernel_boot, pic_remap, idt_init, idt_ignore_all, setup_exceptions, irq_mask_all,
     init_keyboard_irq, init_timer_irq, InitIrq, pit_init, interrupts_enable, k_setup_tasks,
     k_loop, Boot, InTask, taskVars
<1>2. OneTick'
  BY <1>1 DEF OneTick, InTimer, Lines
<1>3. Turns'
  <2>1. /\ running \in Nat /\ task_count \in Nat /\ running < task_count
        /\ \A t \in asleep : t # 0 /\ t < task_count /\ t \in Nat
    BY DEF RoundInv, Turns, SleepInv, SleepTypes, Tasks
  <2>2. task_count' \in Nat /\ running' < task_count' /\ running' \in Nat
    BY <1>1, <2>1
  <2>3. \A t \in asleep' : t # 0 /\ t < task_count'
    BY <1>1, <2>1 DEF sleepVars
  <2> QED  BY <2>2, <2>3 DEF Turns
<1>4. OnTime'
  <2> SUFFICES ASSUME NEW t \in asleep, start_ms[t] + Ms + task_count' < Width
               PROVE  InTime(t)'
    BY <1>1 DEF OnTime, sleepVars
  <2>1. t \in Nat \ {0} /\ start_ms[t] \in Nat /\ task_count \in Nat
    BY DEF RoundInv, SleepInv, SleepTypes, Tasks, Turns
  <2>2. InTime(t)
    BY <1>1, <2>1, SleepAssumption DEF RoundInv, OnTime
  <2>3. TurnsTo(t) = t /\ TurnsTo(t)' = t
    BY <1>1, <2>1 DEF TurnsTo
  <2>4. slept[t] \in Nat /\ Ms \in Nat
    BY SleepAssumption DEF RoundInv, SleepInv, SleepTypes
  <2> QED  BY <1>1, <2>1, <2>2, <2>3, <2>4 DEF InTime, sleepVars
<1> QED  BY <1>2, <1>3, <1>4

(* A task looks at k_ticks: it wakes, or has not slept Ms ticks yet; its   *)
(* next turn is a round away.                                              *)
LEMMA RoundSleeper ==
  ASSUME RoundInv, NEW t \in Tasks, k_sleep(t)
  PROVE  Turns' /\ OneTick' /\ OnTime'
<1>1. /\ running = t /\ t # 0 /\ hpc = "task" /\ hpc' = "task" /\ worked' = Lines
      /\ UNCHANGED <<running, task_count, k_ticks>> /\ t \in Nat
  BY DEF k_sleep, InTask, taskVars, Tasks
<1>2. OneTick' /\ Looked'
  BY <1>1 DEF OneTick, InTimer, Lines, Looked
<1>3. /\ asleep' \subseteq asleep \cup {t}
      /\ \A s \in asleep : s # t => start_ms'[s] = start_ms[s] /\ slept'[s] = slept[s]
  BY DEF k_sleep, RoundInv, SleepInv, SleepTypes
<1>4. Turns'
  <2>1. running \in Nat /\ task_count \in Nat /\ running < task_count
    BY DEF RoundInv, Turns
  <2>2. \A s \in asleep' : s # 0 /\ s < task_count
    BY <1>1, <1>3, <2>1 DEF RoundInv, Turns
  <2> QED  BY <1>1, <2>1, <2>2 DEF Turns
<1>5. OnTime'
  <2> SUFFICES ASSUME NEW s \in asleep', start_ms'[s] + Ms + task_count < Width
               PROVE  InTime(s)'
    BY <1>1 DEF OnTime
  <2>1. CASE s # t
    <3>1. s \in asleep /\ start_ms'[s] = start_ms[s] /\ slept'[s] = slept[s]
      BY <1>3, <2>1
    <3>2. TurnsTo(s)' = TurnsTo(s)
      BY <1>1, <2>1 DEF TurnsTo
    <3>3. InTime(s)
      BY <3>1 DEF RoundInv, OnTime
    <3> QED  BY <1>1, <3>1, <3>2, <3>3 DEF InTime
  <2>2. CASE s = t
    <3>1. TurnsTo(t)' = task_count /\ task_count \in Nat
      BY <1>1, <1>2, <1>4 DEF TurnsTo, Turns
    <3>2. CASE t \notin asleep
      <4>1. start_ms'[t] = k_ticks /\ slept'[t] = 0 /\ k_ticks \in Nat
        BY <3>2 DEF k_sleep, RoundInv, SleepInv, SleepTypes
      <4> QED  BY <1>1, <2>2, <3>1, <4>1, SleepAssumption DEF InTime
    <3>3. CASE t \in asleep
      <4>1. Waits(t) /\ start_ms' = start_ms /\ slept' = slept
        BY <2>2, <3>3 DEF k_sleep
      <4>2. /\ k_ticks \in Nat /\ start_ms[t] \in Nat /\ slept[t] \in Nat
            /\ Ms \in Nat /\ Width \in Nat
        BY SleepAssumption DEF RoundInv, SleepInv, SleepTypes
      <4>3. k_ticks = start_ms[t] + slept[t]
        BY <2>2, <3>3, <4>1 DEF RoundInv, OnTime, InTime
      <4>4. (start_ms[t] + Ms) % Width = start_ms[t] + Ms
        BY <2>2, <3>1, <4>1, <4>2
      <4>5. slept[t] < Ms
        BY <4>1, <4>2, <4>3, <4>4 DEF Waits
      <4> QED  BY <1>1, <2>2, <3>1, <4>1, <4>2, <4>3, <4>5 DEF InTime
    <3> QED  BY <3>2, <3>3
  <2> QED  BY <2>1, <2>2
<1> QED  BY <1>2, <1>4, <1>5

LEMMA NextInRound ==
  ASSUME NEW c \in Nat, NEW u \in Nat, u < c
  PROVE  ((u + 1) % c) = IF u + 1 = c THEN 0 ELSE u + 1
  OBVIOUS

(* A tick: one more slept, one turn less to wait.                          *)
LEMMA RoundTick ==
  ASSUME RoundInv, timer_handler("timer_handler", "iret")
  PROVE  Turns' /\ OneTick' /\ OnTime'
<1> DEFINE next == (running + 1) % task_count
<1>1. /\ hpc = "timer_handler" /\ hpc' \in {"task", "iret"}
      /\ k_ticks' = (k_ticks + 1) % Width
      /\ slept' = [t \in Tasks |-> AtMost(slept[t] + 1, Width)]
      /\ running' = next
      /\ UNCHANGED <<task_count, start_ms, asleep, worked, irr, boot>>
  BY DEF timer_handler, Handler
<1>2. next = IF running + 1 = task_count THEN 0 ELSE running + 1
  BY NextInRound DEF RoundInv, Turns
<1>3. running \in Nat /\ task_count \in Nat /\ running < task_count
  BY DEF RoundInv, Turns
<1> HIDE DEF next
<1>4. Turns'
  BY <1>1, <1>2, <1>3 DEF RoundInv, Turns
<1>5. OneTick'
  BY <1>1 DEF RoundInv, OneTick, InTimer
<1>6. Looked /\ ~ Looked'
  BY <1>1 DEF RoundInv, OneTick, Looked, InTimer
<1>7. OnTime'
  <2> SUFFICES ASSUME NEW t \in asleep, start_ms[t] + Ms + task_count < Width
               PROVE  InTime(t)'
    BY <1>1 DEF OnTime
  <2>1. /\ t \in Tasks /\ t \in Nat /\ t < task_count
        /\ k_ticks \in Nat /\ start_ms[t] \in Nat /\ slept[t] \in Nat
        /\ Ms \in Nat /\ Width \in Nat
    BY SleepAssumption DEF RoundInv, SleepInv, SleepTypes, Tasks, Turns
  <2>2. k_ticks = start_ms[t] + slept[t] /\ slept[t] + TurnsTo(t) <= Ms + task_count
    BY DEF RoundInv, OnTime, InTime
  <2>3. TurnsTo(t) \in Nat /\ TurnsTo(t)' = TurnsTo(t) - 1
    <3>1. TurnsTo(t) = IF running < t THEN t - running ELSE t - running + task_count
      BY <1>3, <1>6, <2>1 DEF TurnsTo
    <3>2. TurnsTo(t)' = IF next <= t THEN t - next ELSE t - next + task_count
      BY <1>1, <1>2, <1>3, <1>6, <2>1 DEF TurnsTo
    <3> QED  BY <1>2, <1>3, <2>1, <3>1, <3>2
  <2>4. TurnsTo(t) >= 1
    BY <1>3, <1>6, <2>1 DEF TurnsTo
  <2>5. slept[t] + 1 < Width /\ k_ticks + 1 < Width
    BY <1>3, <2>1, <2>2, <2>3, <2>4
  <2>6. slept'[t] = slept[t] + 1 /\ k_ticks' = k_ticks + 1
    BY <1>1, <2>1, <2>5 DEF AtMost
  <2> QED  BY <1>1, <1>3, <2>1, <2>2, <2>3, <2>6 DEF InTime
<1> QED  BY <1>4, <1>5, <1>7

LEMMA RoundStep == RoundInv /\ [Next]_vars => RoundInv'
<1> SUFFICES ASSUME RoundInv, [Next]_vars PROVE RoundInv'
  OBVIOUS
<1>1. SetupInv' /\ SleepInv'
  BY SetupStep, SleepStep DEF RoundInv
<1>2. ASSUME UNCHANGED vars
      PROVE  Turns' /\ OneTick' /\ OnTime'
  BY <1>2 DEF vars, picVars, taskVars, sleepVars, RoundInv, Turns, OneTick, OnTime, InTime,
     TurnsTo, Looked, InTimer
<1>3. ASSUME Device
      PROVE  Turns' /\ OneTick' /\ OnTime'
  <2>1. UNCHANGED <<sleepVars, running, task_count, worked, hpc, boot>>
    BY <1>3 DEF Device, Request, taskVars
  <2>2. Looked' = Looked
    BY <2>1 DEF Looked, InTimer
  <2>3. OneTick'
    BY <1>3, <2>1 DEF Device, Request, RoundInv, OneTick, InTimer
  <2> QED  BY <2>1, <2>2, <2>3, RoundFrame
<1>4. Turns' /\ OneTick' /\ OnTime'
  BY <1>2, <1>3, RoundTaken, RoundHandlers, RoundBoot, RoundSleeper, RoundTick
     DEF Next, Cpu, timer_isr, Halted
<1> QED  BY <1>1, <1>4 DEF RoundInv

(* A sleep lasts no longer than Ms ticks and one round of the tasks, as    *)
(* long as that round does not pass the end of k_ticks.                    *)
THEOREM SleepEnds == Spec => []SleepsNotTooLong
<1>1. RoundInv => SleepsNotTooLong
  <2> SUFFICES ASSUME RoundInv, NEW t \in asleep, start_ms[t] + Ms + task_count < Width
               PROVE  slept[t] <= Ms + task_count
    BY DEF SleepsNotTooLong
  <2>1. slept[t] \in Nat /\ slept[t] + TurnsTo(t) <= Ms + task_count /\ Ms \in Nat
    BY SleepAssumption DEF RoundInv, SleepInv, SleepTypes, OnTime, InTime
  <2>2. running \in Nat /\ task_count \in Nat /\ running < task_count /\ t \in Nat
    BY DEF RoundInv, SleepInv, SleepTypes, Tasks, Turns
  <2>3. TurnsTo(t) \in Nat
    BY <2>2 DEF TurnsTo
  <2> QED  BY <2>1, <2>2, <2>3
<1> QED  BY <1>1, RoundInit, RoundStep, PTL DEF Spec

-----------------------------------------------------------------------------
(* The divider.  Thrice the rounded third of a number is that number or    *)
(* one of its neighbours.                                                  *)
LEMMA ThirdRounded ==
  ASSUME NEW q \in Nat
  PROVE  /\ Rounded(q) \in Nat
         /\ 3 * Rounded(q) \in {q - 1, q, q + 1}
  BY DEF Rounded

LEMMA Divided ==
  ASSUME NEW n \in Nat, NEW c \in Nat \ {0}
  PROVE  /\ n \div c \in Nat
         /\ c * (n \div c) <= n
         /\ n < c * (n \div c) + c
  OBVIOUS

LEMMA RoundedClose ==
  ASSUME NEW hz \in Nat \ {0}, NEW n \in Nat
  PROVE  Apart(3 * hz * Rounded(n \div hz), n) < 2 * hz
<1> DEFINE q == n \div hz
           r == Rounded(q)
<1>1. q \in Nat /\ hz * q <= n /\ n < hz * q + hz
  BY Divided
<1>2. r \in Nat /\ 3 * r \in {q - 1, q, q + 1}
  BY <1>1, ThirdRounded
<1> HIDE DEF q, r
<1>4. 3 * hz * r = hz * (3 * r)
  BY <1>2
<1>5. hz * (q - 1) = hz * q - hz /\ hz * (q + 1) = hz * q + hz /\ hz * q \in Nat
  BY <1>1
<1>6. 3 * hz * r \in {hz * q - hz, hz * q, hz * q + hz}
  BY <1>2, <1>4, <1>5
<1>7. Apart(3 * hz * r, n) < 2 * hz
  BY <1>1, <1>5, <1>6 DEF Apart
<1> QED  BY <1>7 DEF q, r

(* Whatever rate the timer has, pit_init's divider for it is the exact one *)
(* to within two thirds of one.                                            *)
THEOREM DividerClose == Spec => []PitInRange
<1>1. PitInRange
  <2> SUFFICES ASSUME NEW hz \in Frequencies, 19 <= hz, hz < 1193181
               PROVE  Apart(3 * hz * reload(hz), 3579545) < 2 * hz
    BY SMT DEF PitInRange
  <2>1. hz \in Nat \ {0}
    BY FrequenciesAssumption
  <2>2. reload(hz) = Rounded(3579545 \div hz)
    BY SMT, <2>1 DEF reload
  <2> QED  BY SMT, <2>1, <2>2, RoundedClose
<1> QED  BY <1>1, PTL
===============================================================================
