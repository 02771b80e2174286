--------------------------- MODULE CriticalSection ---------------------------
(***************************************************************************)
(* What enter_critical and exit_critical promise their callers: one CPU is *)
(* passed from task to task, and while a task is between the two calls the *)
(* CPU stays with it.  The scheduler (Tasks) implements this, the input    *)
(* pipeline (InputPipeline) is built on it.                                *)
(***************************************************************************)
CONSTANT Runnable       \* whatever may own the CPU
VARIABLES cpu,          \* the owner of the CPU
          inside        \* the tasks between enter_critical and exit_critical

vars == <<cpu, inside>>

Init == cpu \in Runnable /\ inside = {}

(* A timer interrupt hands the CPU to another task.                        *)
Preempt == inside = {} /\ cpu' \in Runnable /\ UNCHANGED inside

Enter == inside = {} /\ inside' = {cpu} /\ UNCHANGED cpu
Leave == inside = {cpu} /\ inside' = {} /\ UNCHANGED cpu

Next == Preempt \/ Enter \/ Leave
Spec == Init /\ [][Next]_vars
=============================================================================
