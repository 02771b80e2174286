----------------------------- MODULE TasksProofs -----------------------------
(***************************************************************************)
(* For every size of the task table, every set of tasks that use critical  *)
(* sections and every number of keyboard interrupts: at most one task is   *)
(* in a critical section, and the scheduler implements CriticalSection.    *)
(***************************************************************************)
EXTENDS Tasks, TLAPS

(* The scheduler's index and the task that owns the CPU agree; an index    *)
(* outside the table has led to the wild state, where nothing interrupts.  *)
OnCPU == /\ current_index = running_task
         /\ running_task \notin Slots => pc = "wild"
         /\ pc = "wild" => ~ iflag

(* A switch happens only while critical is 0, and critical is positive     *)
(* from the store of critical++ to the store of critical--: so whoever is  *)
(* off the CPU is outside.                                                 *)
Alone   == \A t \in Slots : t # running_task => task_list[t].pc \notin InsidePCs
Counted == pc \in InsidePCs => critical > 0

(* What is about to be stored in a counter, or decremented, is positive,   *)
(* whichever byte of it an interrupt has overwritten.                      *)
Positive(p, e) == p \in {"enter_store", "exit_sub", "create_store"} => e > 0
Loaded == /\ Positive(pc, eax)
          /\ \A t \in Slots : t # running_task => Positive(task_list[t].pc, task_list[t].eax)

(* Only the bootstrap task creates tasks, and not more than NumCreate.     *)
Creating(t, p) == p \in CreatePCs => t = 0 /\ created < NumCreate
Creates == /\ Creating(running_task, pc)
           /\ \A t \in Slots : t # running_task => Creating(t, task_list[t].pc)

TasksInv == TypeOK /\ OnCPU /\ Alone /\ Counted /\ Loaded /\ Creates

LEMMA InitInv == Init => TasksInv
  <1> SUFFICES ASSUME Init PROVE TasksInv
    OBVIOUS
  <1> USE CapacityAssumption, KeysAssumption DEF Init, NoFrame, PCs, CreatePCs, EnterPCs,
          ExitPCs, InsidePCs, Slots
  <1>1. TypeOK
    BY DEF TypeOK, Frame
  <1>2. OnCPU /\ Alone /\ Counted /\ Loaded /\ Creates
    BY DEF OnCPU, Alone, Counted, Loaded, Positive, Creates, Creating
  <1> QED  BY <1>1, <1>2 DEF TasksInv

(* The AL byte alone makes a register positive.                            *)
LEMMA ALPositive ==
  ASSUME NEW e \in Nat
  PROVE  WithAL(e, 32) \in Nat /\ WithAL(e, 32) > 0
  BY DEF WithAL

LEMMA CreateInv ==
  ASSUME TasksInv, k_create_task
  PROVE  TasksInv'
  <1> USE CapacityAssumption DEF TasksInv, Goto, shared, PCs, CreatePCs, EnterPCs, ExitPCs,
          InsidePCs
  <1>0. NewFrame \in Frame
    BY DEF NewFrame, Frame
  <1>1. TypeOK'
    BY <1>0 DEF TypeOK, k_create_task, LoadIndex, StoreEsp, LoadCount, AddCount, StoreCount,
       Creates, Creating, Loaded, Positive
  <1>2. OnCPU'
    BY DEF OnCPU, k_create_task, LoadIndex, StoreEsp, LoadCount, AddCount, StoreCount
  <1>3. Alone' /\ Counted'
    BY DEF Alone, Counted, NewFrame, k_create_task, LoadIndex, StoreEsp, LoadCount, AddCount,
       StoreCount
  <1>4. Loaded'
    BY DEF Loaded, Positive, NewFrame, TypeOK, k_create_task, LoadIndex, StoreEsp, LoadCount, AddCount,
       StoreCount
  <1>5. Creates'
    BY DEF Creates, Creating, NewFrame, TypeOK, k_create_task, LoadIndex, StoreEsp, LoadCount, AddCount,
       StoreCount
  <1> QED  BY <1>1, <1>2, <1>3, <1>4, <1>5

LEMMA SectionInv ==
  ASSUME TasksInv,
         task_starter \/ CallEnter \/ enter_critical \/ CallExit \/ exit_critical
  PROVE  TasksInv'
  <1> USE DEF TasksInv, Goto, shared, PCs, CreatePCs, EnterPCs, ExitPCs, InsidePCs,
          task_starter, CallEnter, enter_critical, EnterLoad, EnterAdd, EnterStore,
          CallExit, exit_critical, ExitLoad, ExitTest, ExitReload, ExitSub, ExitStore
  <1>1. TypeOK'
    <2>1. eax' \in Nat
      BY DEF TypeOK, Loaded, Positive
    <2>2. critical' \in Nat
      BY DEF TypeOK
    <2>3. pc' \in PCs /\ iflag' \in BOOLEAN
      BY DEF TypeOK
    <2>4. UNCHANGED <<task_list, current_index, task_count, running_task, created, keys>>
      OBVIOUS
    <2> QED  BY <2>1, <2>2, <2>3, <2>4 DEF TypeOK
  <1>2. OnCPU'
    BY DEF OnCPU
  <1>3. Alone'
    BY DEF Alone
  <1>4. Counted'
    BY DEF Counted, Loaded, Positive, TypeOK
  <1>5. Loaded'
    BY DEF Loaded, Positive, TypeOK, Counted
  <1>6. Creates'
    BY DEF Creates, Creating
  <1> QED  BY <1>1, <1>2, <1>3, <1>4, <1>5, <1>6

LEMMA TimerInv ==
  ASSUME TasksInv, timer_isr
  PROVE  TasksInv'
  <1> DEFINE next == (current_index + 1) % task_count
  <1> USE CapacityAssumption DEF TasksInv, timer_isr, schedule_next_task, shared
  <1>1. CASE critical > 0 \/ next = current_index
    <2>1. UNCHANGED vars
      BY <1>1 DEF vars
    <2> QED  BY <2>1 DEF vars, TypeOK, OnCPU, Alone, Counted, Loaded, Creates, Positive, Creating
  <1>2. CASE ~ (critical > 0 \/ next = current_index)
    <2> DEFINE frame == IF next \in Slots THEN task_list[next] ELSE NoFrame
    <2>1. /\ task_list' = [task_list EXCEPT ![running_task] = [pc |-> pc, eax |-> eax]]
          /\ running_task' = next /\ current_index' = next
          /\ pc' = frame.pc /\ eax' = frame.eax
          /\ iflag' = (frame.pc \notin {"starter", "wild"})
          /\ UNCHANGED <<task_count, critical, created, keys>>
      BY <1>2 DEF context_switch
    <2>2. next \in Nat /\ next # running_task /\ running_task \in Slots
      BY <1>2 DEF TypeOK, OnCPU
    <2>3. critical = 0 /\ pc \notin InsidePCs
      BY <1>2 DEF TypeOK, Counted
    <2>4. frame \in Frame /\ [pc |-> pc, eax |-> eax] \in Frame
      <3>1. NoFrame \in Frame
        BY DEF NoFrame, Frame, PCs
      <3> QED  BY <3>1 DEF TypeOK, Frame
    <2>5. /\ task_list'[running_task] = [pc |-> pc, eax |-> eax]
          /\ \A t \in Slots : t # running_task => task_list'[t] = task_list[t]
      BY <2>1, <2>2 DEF TypeOK
    <2>6. TypeOK'
      BY <2>1, <2>2, <2>4 DEF TypeOK, Frame
    <2>7. OnCPU'
      BY <2>1, <2>2 DEF OnCPU, NoFrame
    <2>8. Alone'
      BY <2>1, <2>2, <2>3, <2>5 DEF Alone
    <2>9. Counted'
      BY <2>1, <2>2, <2>3 DEF Alone, Counted, NoFrame, InsidePCs, ExitPCs
    <2>10. Loaded'
      BY <2>1, <2>2, <2>5 DEF Loaded, Positive, NoFrame
    <2>11. Creates'
      BY <2>1, <2>2, <2>5 DEF Creates, Creating, NoFrame, CreatePCs
    <2> QED  BY <2>6, <2>7, <2>8, <2>9, <2>10, <2>11
  <1> QED  BY <1>1, <1>2

LEMMA KeyboardInv ==
  ASSUME TasksInv, keyboard_isr
  PROVE  TasksInv'
  <1>1. eax' \in Nat /\ eax' > 0
    BY ALPositive DEF keyboard_isr, TasksInv, TypeOK
  <1> QED
    BY <1>1, KeysAssumption DEF keyboard_isr, shared, TasksInv, TypeOK, OnCPU, Alone, Counted, Loaded,
       Positive, Creates, Creating

LEMMA InvStep == TasksInv /\ [Next]_vars => TasksInv'
  <1> SUFFICES ASSUME TasksInv, [Next]_vars PROVE TasksInv'
    OBVIOUS
  <1>1. CASE Instruction
    BY <1>1, CreateInv, SectionInv DEF Instruction
  <1>2. CASE timer_isr
    BY <1>2, TimerInv
  <1>3. CASE keyboard_isr
    BY <1>3, KeyboardInv
  <1>4. CASE UNCHANGED vars
    BY <1>4 DEF vars, TasksInv, TypeOK, OnCPU, Alone, Counted, Loaded, Positive, Creates, Creating
  <1> QED  BY <1>1, <1>2, <1>3, <1>4 DEF Next

(* The scheduler keeps its types.                                          *)
THEOREM TypeCorrect == Spec => []TypeOK
  <1>1. TasksInv => TypeOK
    BY DEF TasksInv
  <1> QED  BY <1>1, InitInv, InvStep, PTL DEF Spec

LEMMA InvExclusive == TasksInv => MutualExclusion
  BY DEF TasksInv, Alone, MutualExclusion, InsideCritical, PCof

(* enter_critical and exit_critical exclude each other for every number of *)
(* tasks and every interleaving with timer and keyboard interrupts.        *)
THEOREM Exclusion == Spec => []MutualExclusion
  BY InitInv, InvStep, InvExclusive, PTL DEF Spec

-----------------------------------------------------------------------------
(* Until a key comes.  The counter is 1 exactly inside, and so is what is  *)
(* in eax between a load and a store, in a frame as on the CPU: a task     *)
(* preempted in the middle of critical++ goes on when the counter is 0     *)
(* again, as it was when it was loaded.                                    *)
Entering(p, e) == (p = "enter_add" => e = 0) /\ (p = "enter_store" => e = 1)

Exact ==
  /\ critical = IF pc \in InsidePCs THEN 1 ELSE 0
  /\ (pc \in {"exit_test", "exit_sub"} => eax = 1) /\ (pc = "exit_store" => eax = 0)
  /\ Entering(pc, eax)
  /\ \A t \in Slots : t # running_task => Entering(task_list[t].pc, task_list[t].eax)

(* The entries that are counted are filled in, and so is the one that is   *)
(* about to be counted.                                                    *)
Counting(p, e) ==
  /\ p \in {"create_esp", "create_add"} => e = task_count
  /\ p = "create_store" => e = task_count + 1
  /\ p \in {"create_load", "create_add", "create_store"} => task_list[task_count].pc # "wild"

Filled ==
  /\ task_count = created + 1 /\ running_task <= created
  /\ pc # "wild"
  /\ \A t \in 0 .. created : t # running_task => task_list[t].pc # "wild"
  /\ Counting(pc, eax)
  /\ \A t \in Slots : t # running_task => Counting(task_list[t].pc, task_list[t].eax)

Quiet == keys = 0 => Exact /\ Filled

LEMMA QuietInit == Init => Quiet
  BY DEF Init, Quiet, Exact, Filled, Entering, Counting, NoFrame, InsidePCs, ExitPCs

LEMMA QuietCreate ==
  ASSUME TasksInv, Exact, Filled, k_create_task
  PROVE  Exact' /\ Filled'
  <1> USE CapacityAssumption DEF TasksInv, Goto, shared, CreatePCs
  <1>1. /\ running_task = 0 /\ created \in 0 .. NumCreate - 1 /\ task_count \in 1 .. MaxTasks - 1
        /\ pc \in CreatePCs /\ eax \in Nat
    BY DEF Filled, TypeOK, Creates, Creating, k_create_task, LoadIndex, StoreEsp, LoadCount, AddCount,
       StoreCount
  <1>2. \A t \in Slots : t # running_task => task_list[t].pc \notin CreatePCs
    BY <1>1 DEF Creates, Creating
  <1>3. Exact'
    BY <1>1 DEF Exact, Entering, NewFrame, InsidePCs, ExitPCs, k_create_task, LoadIndex, StoreEsp,
       LoadCount, AddCount, StoreCount
  <1>4. CASE LoadIndex \/ LoadCount \/ AddCount
    <2>1. UNCHANGED <<task_list, task_count, running_task, created>>
      BY <1>4 DEF LoadIndex, LoadCount, AddCount
    <2>2. pc' # "wild" /\ Counting(pc', eax')
      BY <1>4, <2>1 DEF LoadIndex, LoadCount, AddCount, Filled, Counting
    <2> QED  BY <1>3, <2>1, <2>2 DEF Filled, Counting
  <1>5. CASE StoreEsp
    <2>1. /\ UNCHANGED <<task_count, running_task, created, eax>> /\ pc' = "create_load"
          /\ \A t \in Slots : task_list'[t] = IF t = task_count THEN NewFrame ELSE task_list[t]
      BY <1>5 DEF StoreEsp, Filled, Counting
    <2>2. task_list'[task_count].pc # "wild"
      BY <1>1, <2>1 DEF NewFrame, Slots
    <2>3. \A t \in Slots : t # running_task =>
            task_list'[t].pc \notin CreatePCs /\ (t <= created => task_list'[t].pc # "wild")
      BY <1>1, <1>2, <2>1 DEF NewFrame, Filled, Slots
    <2>4. task_count' = created' + 1 /\ running_task' <= created' /\ pc' # "wild"
      BY <2>1 DEF Filled
    <2>5. \A t \in 0 .. created' : t # running_task' => task_list'[t].pc # "wild"
      BY <1>1, <2>1, <2>3 DEF Slots
    <2>6. Counting(pc, eax)'
      BY <2>1, <2>2 DEF Counting
    <2>7. \A t \in Slots : t # running_task' => Counting(task_list[t].pc, task_list[t].eax)'
      BY <2>1, <2>3 DEF Counting
    <2> QED  BY <1>3, <2>4, <2>5, <2>6, <2>7 DEF Filled
  <1>6. CASE StoreCount
    <2>1. /\ UNCHANGED <<task_list, running_task>> /\ created' = created + 1
          /\ task_count' = task_count + 1 /\ pc' \in {"create_index", "boot_loop"}
      BY <1>6 DEF StoreCount, Filled, Counting
    <2>2. \A t \in 0 .. created' : t # running_task => task_list[t].pc # "wild"
      BY <1>1, <1>6, <2>1 DEF StoreCount, Filled, Counting, TypeOK
    <2> QED  BY <1>1, <1>2, <1>3, <2>1, <2>2 DEF Filled, Counting
  <1> QED  BY <1>4, <1>5, <1>6 DEF k_create_task

LEMMA QuietSection ==
  ASSUME TasksInv, Exact, Filled,
         task_starter \/ CallEnter \/ enter_critical \/ CallExit \/ exit_critical
  PROVE  Exact' /\ Filled'
  <1> USE DEF Goto, shared, task_starter, CallEnter, enter_critical, EnterLoad, EnterAdd, EnterStore,
          CallExit, exit_critical, ExitLoad, ExitTest, ExitReload, ExitSub, ExitStore
  <1>1. UNCHANGED <<task_list, task_count, running_task, created>>
    OBVIOUS
  <1>2. Exact'
    BY <1>1 DEF Exact, Entering, InsidePCs, ExitPCs
  <1>3. Filled'
    BY <1>1 DEF Filled, Counting
  <1> QED  BY <1>2, <1>3

LEMMA QuietTimer ==
  ASSUME TasksInv, Exact, Filled, timer_isr
  PROVE  Exact' /\ Filled'
  <1> DEFINE next == (current_index + 1) % task_count
  <1> USE CapacityAssumption DEF TasksInv, timer_isr, schedule_next_task, shared
  <1>1. CASE critical > 0 \/ next = current_index
    <2>1. UNCHANGED vars
      BY <1>1 DEF vars
    <2> QED  BY <2>1 DEF vars, Exact, Entering, Filled, Counting
  <1>2. CASE ~ (critical > 0 \/ next = current_index)
    <2>1. next \in 0 .. created /\ created \in Nat /\ created < MaxTasks
      BY DEF TypeOK, Filled
    <2>2. next \in Slots /\ next # running_task /\ running_task \in Slots
      BY <1>2, <2>1 DEF TypeOK, OnCPU, Slots, Filled
    <2>3. /\ task_list' = [task_list EXCEPT ![running_task] = [pc |-> pc, eax |-> eax]]
          /\ running_task' = next /\ pc' = task_list[next].pc /\ eax' = task_list[next].eax
          /\ UNCHANGED <<task_count, critical, created>>
      BY <1>2, <2>2 DEF context_switch
    <2>4. /\ task_list'[running_task] = [pc |-> pc, eax |-> eax]
          /\ \A t \in Slots : t # running_task => task_list'[t] = task_list[t]
      BY <2>2, <2>3 DEF TypeOK
    <2>5. critical = 0 /\ pc \notin InsidePCs /\ pc' \notin InsidePCs
      BY <1>2, <2>2, <2>3 DEF TypeOK, Counted, Alone
    <2>6. Exact'
      BY <2>2, <2>3, <2>4, <2>5 DEF Exact, Entering, InsidePCs, ExitPCs
    <2>7. task_list'[task_count].pc = task_list[task_count].pc \/ task_count \notin Slots
      BY <2>2, <2>4 DEF Filled, TypeOK, Slots
    <2>8. Filled'
      <3>1. created' = created /\ task_count' = task_count
        BY <2>3
      <3>2. pc' # "wild" /\ running_task' <= created'
        BY <2>1, <2>2, <2>3 DEF Filled
      <3>3. \A t \in 0 .. created' : t # running_task' => task_list'[t].pc # "wild"
        BY <2>1, <2>3, <2>4 DEF Filled, Slots
      <3>4. \A p, e : Counting(p, e) => Counting(p, e)'
        BY <2>2, <2>3, <2>4 DEF Filled, TypeOK, Counting
      <3> QED  BY <2>2, <2>3, <2>4, <3>1, <3>2, <3>3, <3>4 DEF Filled
    <2> QED  BY <2>6, <2>8
  <1> QED  BY <1>1, <1>2

LEMMA QuietStep == TasksInv /\ Quiet /\ [Next]_vars => Quiet'
  <1> SUFFICES ASSUME TasksInv, Quiet, [Next]_vars, keys' = 0 PROVE Exact' /\ Filled'
    BY DEF Quiet
  <1>1. ~ keyboard_isr /\ keys = 0
    BY DEF Next, Instruction, k_create_task, task_starter, CallEnter, enter_critical, CallExit,
       exit_critical, timer_isr, keyboard_isr, Goto, vars, LoadIndex, StoreEsp, LoadCount, AddCount,
       StoreCount, EnterLoad, EnterAdd, EnterStore, ExitLoad, ExitTest, ExitReload, ExitSub,
       ExitStore, TasksInv, TypeOK
  <1>2. Exact /\ Filled
    BY <1>1 DEF Quiet
  <1>3. CASE UNCHANGED vars
    BY <1>2, <1>3 DEF vars, Exact, Entering, Filled, Counting
  <1> QED
    BY <1>1, <1>2, <1>3, QuietCreate, QuietSection, QuietTimer DEF Next, Instruction

(* Until a key comes no update of critical is lost.                        *)
THEOREM NothingLost == Spec => []CriticalExact
  <1>1. Quiet => CriticalExact
    BY DEF Quiet, Exact, CriticalExact
  <1> QED  BY <1>1, InitInv, InvStep, QuietInit, QuietStep, PTL DEF Spec

(* Until a key comes every switch resumes a frame that was saved.          *)
THEOREM FramesSaved == Spec => []NoWildSwitch
  <1>1. Quiet => NoWildSwitch
    BY DEF Quiet, Filled, NoWildSwitch
  <1> QED  BY <1>1, InitInv, InvStep, QuietInit, QuietStep, PTL DEF Spec

-----------------------------------------------------------------------------
(* With keys.  AL is all of eax while the counter is small, so a key turns *)
(* what is in flight into 32, and only enter_critical adds to it.          *)
Small(p, e) ==
  /\ p \in {"enter_add", "exit_store"} => e <= 32
  /\ p \in {"enter_store", "exit_test", "exit_sub"} => e <= 33
  /\ p = "exit_test" => e > 0

Bounded ==
  /\ critical <= IF pc \in InsidePCs THEN 33 ELSE 32
  /\ Small(pc, eax)
  /\ \A t \in Slots : t # running_task => Small(task_list[t].pc, task_list[t].eax)

LEMMA BoundedInit == Init => Bounded
  BY DEF Init, Bounded, Small, NoFrame, InsidePCs, ExitPCs

LEMMA BoundedInstruction ==
  ASSUME TasksInv, Bounded, Instruction
  PROVE  Bounded'
  <1> USE DEF Goto, shared, TasksInv, Bounded, Small, InsidePCs, ExitPCs
  <1>1. CASE k_create_task
    <2>1. UNCHANGED <<critical, running_task>>
      BY <1>1 DEF k_create_task, LoadIndex, StoreEsp, LoadCount, AddCount, StoreCount
    <2>2. pc \in CreatePCs /\ pc' \in CreatePCs \cup {"boot_loop"}
      BY <1>1 DEF k_create_task, LoadIndex, StoreEsp, LoadCount, AddCount, StoreCount, CreatePCs
    <2>3. \A t \in Slots : task_list'[t] \in {task_list[t], NewFrame}
      BY <1>1 DEF k_create_task, LoadIndex, StoreEsp, LoadCount, AddCount, StoreCount
    <2> QED  BY <2>1, <2>2, <2>3 DEF NewFrame, CreatePCs
  <1>2. CASE task_starter \/ CallEnter \/ enter_critical \/ CallExit \/ exit_critical
    <2>1. UNCHANGED <<task_list, running_task>>
      BY <1>2 DEF task_starter, CallEnter, enter_critical, EnterLoad, EnterAdd, EnterStore, CallExit,
         exit_critical, ExitLoad, ExitTest, ExitReload, ExitSub, ExitStore
    <2>2. eax \in Nat /\ critical \in Nat /\ (pc = "exit_load" => critical > 0)
      BY DEF TypeOK, Counted
    <2> QED
      BY <1>2, <2>1, <2>2 DEF task_starter, CallEnter, enter_critical, EnterLoad, EnterAdd,
         EnterStore, CallExit, exit_critical, ExitLoad, ExitTest, ExitReload, ExitSub, ExitStore
  <1> QED  BY <1>1, <1>2 DEF Instruction

LEMMA BoundedTimer ==
  ASSUME TasksInv, Bounded, timer_isr
  PROVE  Bounded'
  <1> DEFINE next == (current_index + 1) % task_count
  <1> USE CapacityAssumption DEF TasksInv, timer_isr, schedule_next_task, shared
  <1>1. CASE critical > 0 \/ next = current_index
    <2>1. UNCHANGED vars
      BY <1>1 DEF vars
    <2> QED  BY <2>1 DEF vars, Bounded, Small
  <1>2. CASE ~ (critical > 0 \/ next = current_index)
    <2>1. running_task \in Slots /\ next # running_task /\ critical = 0 /\ critical' = 0
      BY <1>2 DEF TypeOK, OnCPU
    <2>2. /\ task_list' = [task_list EXCEPT ![running_task] = [pc |-> pc, eax |-> eax]]
          /\ running_task' = next
          /\ pc' = (IF next \in Slots THEN task_list[next] ELSE NoFrame).pc
          /\ eax' = (IF next \in Slots THEN task_list[next] ELSE NoFrame).eax
      BY <1>2 DEF context_switch
    <2>3. /\ task_list'[running_task] = [pc |-> pc, eax |-> eax]
          /\ \A t \in Slots : t # running_task => task_list'[t] = task_list[t]
      BY <2>1, <2>2 DEF TypeOK
    <2>4. Small(pc', eax')
      BY <2>1, <2>2 DEF Bounded, Small, NoFrame
    <2> QED  BY <2>1, <2>2, <2>3, <2>4 DEF Bounded, Small
  <1> QED  BY <1>1, <1>2

LEMMA BoundedStep == TasksInv /\ Bounded /\ [Next]_vars => Bounded'
  <1> SUFFICES ASSUME TasksInv, Bounded, [Next]_vars PROVE Bounded'
    OBVIOUS
  <1>1. CASE keyboard_isr
    <2>1. eax \in Nat
      BY DEF TasksInv, TypeOK
    <2>2. eax <= 33 => eax' = 32
      BY <1>1, <2>1 DEF keyboard_isr, WithAL
    <2> QED  BY <1>1, <2>1, <2>2 DEF keyboard_isr, shared, Bounded, Small
  <1>2. CASE UNCHANGED vars
    BY <1>2 DEF vars, Bounded, Small
  <1> QED  BY <1>1, <1>2, BoundedInstruction, BoundedTimer DEF Next

(* Whatever keys do to it, critical never exceeds 33: it cannot wrap to 0  *)
(* inside a critical section.                                              *)
THEOREM NeverWraps == Spec => []CriticalBounded
  <1>1. TasksInv /\ Bounded => CriticalBounded
    BY DEF TasksInv, TypeOK, Bounded, CriticalBounded
  <1> QED  BY <1>1, InitInv, InvStep, BoundedInit, BoundedStep, PTL DEF Spec

-----------------------------------------------------------------------------
(* Refinement of CriticalSection.                                          *)

(* Who is inside is decided on the CPU alone.                              *)
LEMMA InsideIs ==
  ASSUME TasksInv
  PROVE  InsideCritical = IF pc \in InsidePCs THEN {running_task} ELSE {}
  BY DEF TasksInv, Alone, OnCPU, InsideCritical, PCof, InsidePCs, ExitPCs

LEMMA CSInit == Init => CS!Init
  <1> SUFFICES ASSUME Init PROVE CS!Init
    OBVIOUS
  <1>1. InsideCritical = {}
    BY InitInv, InsideIs DEF Init, InsidePCs, ExitPCs
  <1> QED  BY <1>1 DEF Init, CS!Init

LEMMA CSStep == TasksInv /\ [Next]_vars => [CS!Next]_CS!vars
  <1> SUFFICES ASSUME TasksInv, [Next]_vars PROVE [CS!Next]_CS!vars
    OBVIOUS
  <1>1. TasksInv'
    BY InvStep
  <1>2. /\ InsideCritical = IF pc \in InsidePCs THEN {running_task} ELSE {}
        /\ InsideCritical' = IF pc' \in InsidePCs THEN {running_task'} ELSE {}
    <2>1. InsideCritical = IF pc \in InsidePCs THEN {running_task} ELSE {}
      BY InsideIs
    <2>2. (TasksInv => InsideCritical = IF pc \in InsidePCs THEN {running_task} ELSE {})'
      BY InsideIs, PTL
    <2> QED  BY <1>1, <2>1, <2>2
  <1>3. CASE running_task' = running_task
    BY <1>2, <1>3 DEF CS!Next, CS!Enter, CS!Leave, CS!vars
  <1>4. CASE running_task' # running_task
    <2>1. timer_isr
      BY <1>4 DEF Next, Instruction, k_create_task, task_starter, CallEnter, enter_critical,
         CallExit, exit_critical, keyboard_isr, shared, vars, LoadIndex, StoreEsp, LoadCount,
         AddCount, StoreCount, EnterLoad, EnterAdd, EnterStore, ExitLoad, ExitTest, ExitReload,
         ExitSub, ExitStore
    <2>2. critical = 0 /\ critical' = critical
      <3>1. CASE critical > 0
        BY <1>4, <2>1, <3>1 DEF timer_isr, schedule_next_task, shared
      <3>2. CASE ~ (critical > 0)
        <4>1. critical = 0
          BY <3>2 DEF TasksInv, TypeOK
        <4>2. critical' = critical
          BY <2>1 DEF timer_isr, schedule_next_task, shared
        <4> QED  BY <4>1, <4>2
      <3> QED  BY <3>1, <3>2
    <2>3. pc \notin InsidePCs /\ pc' \notin InsidePCs
      BY <1>1, <2>2 DEF TasksInv, Counted
    <2>4. running_task' \in Nat
      BY <1>1 DEF TasksInv, TypeOK
    <2> QED  BY <1>2, <2>3, <2>4 DEF CS!Next, CS!Preempt
  <1> QED  BY <1>3, <1>4

(* The scheduler implements the critical sections that read_line relies on. *)
THEOREM Implements == Spec => ImplementsCriticalSection
  BY InitInv, InvStep, CSInit, CSStep, PTL DEF Spec, ImplementsCriticalSection, CS!Spec
=============================================================================
