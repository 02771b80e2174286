---------------------------- MODULE InputPipeline ----------------------------
(***************************************************************************)
(* The input path of the kernel, from the keyboard interrupt to the echo   *)
(* task:                                                                   *)
(*                                                                         *)
(*   keyboard_isr --char_buffer--> stdin_loop --stdin--> read_line         *)
(*                                                                         *)
(* The interrupt handler appends to char_buffer (keyboard.c); the stdin    *)
(* task moves characters to the stdin buffer and counts the newlines, the  *)
(* echo task takes whole lines out of it (stdin.c).  A task runs while it  *)
(* owns the CPU, and the timer takes the CPU away between any two steps    *)
(* unless the echo task is inside its critical section: this is what       *)
(* CriticalSection promises and Tasks implements, and it is the only part  *)
(* of the scheduler that is modelled here.                                 *)
(*                                                                         *)
(* A step of the stdin task is one access to a variable it shares with the *)
(* echo task or with the interrupt handler.  "acc" is the accumulator of   *)
(* each task; the keyboard interrupt overwrites its low byte in the task   *)
(* it interrupts (keyboard_isr loads the EOI byte after popa).             *)
(*                                                                         *)
(* The stdin buffer is a fixed address, 0xD00000, that nobody clears: it   *)
(* starts with what the memory holds, zeros after power-on in an emulator, *)
(* the text of the previous session after a warm reset.                    *)
(***************************************************************************)
EXTENDS Integers, Sequences, FiniteSets

CONSTANTS Char,          \* what a key press or release is translated to
          NL, NUL,       \* '\n'; '\0', which releases and shifts give
          Space,         \* the character 0x20, the EOI byte
          StdinSize,     \* STDIN_SIZE
          Residue,       \* what the stdin memory may hold at boot
          MallocResults, \* whether malloc finds room: a subset of BOOLEAN
          Quiet,         \* environment: keys never hit a task that uses AL
          MaxTyped       \* bound: key events

ASSUME CharAssumption  == /\ NL \in Char /\ NUL \in Char /\ NL # NUL
                          /\ Space \notin {NL, NUL} /\ Residue \subseteq Char
ASSUME SizeAssumption  == MaxTyped \in Nat /\ StdinSize \in Nat \ {0}
ASSUME FlagsAssumption == MallocResults \subseteq BOOLEAN /\ Quiet \in BOOLEAN

Tasks == {"stdin", "echo", "other"}

VARIABLES char_buffer,       \* its first current_char_in bytes
          current_char_out,
          stdin,             \* the stdin buffer
          stdin_in_count, stdin_out_count, new_line_count,
          cpu, inside,       \* who runs; who is in a critical section
          spc, c,            \* stdin_loop: next step, the character it holds
          epc,               \* echo_task: next step
          acc,               \* the accumulator of the two tasks
          lines              \* history: the lines read_line returned

vars == <<char_buffer, current_char_out, stdin, stdin_in_count, stdin_out_count,
          new_line_count, cpu, inside, spc, c, epc, acc, lines>>
buffers == <<stdin, stdin_in_count, stdin_out_count>>
echo    == <<epc, lines>>

current_char_in == Len(char_buffer)

Init ==
  /\ char_buffer = <<>> /\ current_char_out = 0
  /\ stdin \in [0 .. StdinSize - 1 -> Residue]
  /\ stdin_in_count = 0 /\ stdin_out_count = 0 /\ new_line_count = 0
  /\ cpu = "other" /\ inside = {}
  /\ spc = "poll" /\ c = NUL /\ epc = "wait"
  /\ acc = [t \in {"stdin", "echo"} |-> 0]
  /\ lines = <<>>

-----------------------------------------------------------------------------
(* stdin_loop.                                                             *)
Stdin(p, q) == cpu = "stdin" /\ spc = p /\ spc' = q /\ UNCHANGED <<char_buffer, cpu, inside, echo>>

Poll ==
  /\ Stdin("poll", "compare")
  /\ acc' = [acc EXCEPT !["stdin"] = current_char_in]
  /\ UNCHANGED <<current_char_out, buffers, new_line_count, c>>

Compare ==
  /\ Stdin("compare", IF current_char_out < acc["stdin"] THEN "take" ELSE "poll")
  /\ UNCHANGED <<current_char_out, buffers, new_line_count, c, acc>>

(* Past what was typed char_buffer still holds the zeros of .bss.          *)
Take ==
  /\ Stdin("take", "save")
  /\ c' = IF current_char_out < current_char_in THEN char_buffer[current_char_out + 1] ELSE NUL
  /\ current_char_out' = current_char_out + 1
  /\ UNCHANGED <<buffers, new_line_count, acc>>

(* The character goes from AL to the stack, and to the screen (Screen).    *)
Save ==
  /\ Stdin("save", "insert")
  /\ UNCHANGED <<current_char_out, buffers, new_line_count, c, acc>>

(* stdin_insert: the count is stored before the character is.              *)
InsertIf(go) ==
  /\ Stdin("insert", IF go THEN "fill" ELSE "poll")
  /\ stdin_in_count' = IF go THEN stdin_in_count + 1 ELSE stdin_in_count
  /\ UNCHANGED <<current_char_out, stdin, stdin_out_count, new_line_count, c, acc>>

(* Mutant of Publish: the zeros of key releases are inserted too.          *)
PublishZeros == InsertIf(stdin_in_count < StdinSize)

Publish == InsertIf(stdin_in_count < StdinSize /\ c # NUL)

Fill ==
  /\ Stdin("fill", IF c = NL THEN "nl_load" ELSE "poll")
  /\ stdin' = [stdin EXCEPT ![stdin_in_count - 1] = c]
  /\ UNCHANGED <<current_char_out, stdin_in_count, stdin_out_count, new_line_count, c, acc>>

(* new_line_count++: a load and a store, outside any critical section.     *)
LoadLines ==
  /\ Stdin("nl_load", "nl_store")
  /\ acc' = [acc EXCEPT !["stdin"] = new_line_count + 1]
  /\ UNCHANGED <<current_char_out, buffers, new_line_count, c>>

StoreLines ==
  /\ Stdin("nl_store", "poll")
  /\ new_line_count' = acc["stdin"]
  /\ UNCHANGED <<current_char_out, buffers, c, acc>>

stdin_loop == Poll \/ Compare \/ Take \/ Save \/ Publish \/ Fill \/ LoadLines \/ StoreLines

-----------------------------------------------------------------------------
(* echo_task and read_line.                                                *)
Echo(p, q) ==
  /\ cpu = "echo" /\ epc = p /\ epc' = q
  /\ UNCHANGED <<char_buffer, current_char_out, stdin, stdin_in_count, cpu, spc, c>>

LoadWait ==
  /\ Echo("wait", "test")
  /\ acc' = [acc EXCEPT !["echo"] = new_line_count]
  /\ UNCHANGED <<stdin_out_count, new_line_count, inside, lines>>

TestWait ==
  /\ Echo("test", IF acc["echo"] < 1 THEN "wait" ELSE "enter")
  /\ UNCHANGED <<stdin_out_count, new_line_count, inside, acc, lines>>

EnterRead ==
  /\ Echo("enter", "read")
  /\ inside' = {"echo"}
  /\ UNCHANGED <<stdin_out_count, new_line_count, acc, lines>>

(* The body of the critical section.  Nothing else changes what it reads:  *)
(* the interrupt handler writes char_buffer only.                          *)
LineEnd(n) ==
  /\ n \in stdin_out_count .. stdin_in_count - 1
  /\ stdin[n] = NL
  /\ \A i \in stdin_out_count .. n - 1 : stdin[i] # NL

ReadNothing ==
  /\ Echo("read", "exit")
  /\ \/ ~ \E n \in stdin_out_count .. stdin_in_count - 1 : LineEnd(n)
     \/ FALSE \in MallocResults
  /\ UNCHANGED <<stdin_out_count, new_line_count, inside, acc, lines>>

(* The line up to n is copied to the heap and taken out of the buffer.     *)
TakeLine(n, out) ==
  /\ LineEnd(n)
  /\ lines' = Append(lines, [i \in 1 .. n + 1 - stdin_out_count |-> stdin[stdin_out_count + i - 1]])
  /\ stdin_out_count' = out
  /\ UNCHANGED <<inside, acc>>

(* Mutants of ReadLine: the '\n' stays in the buffer; the count of lines   *)
(* is cleared.                                                             *)
ReadLineShort ==
  /\ Echo("read", "exit")
  /\ TRUE \in MallocResults
  /\ \E n \in stdin_out_count .. stdin_in_count - 1 : TakeLine(n, n)
  /\ new_line_count' = IF new_line_count > 0 THEN new_line_count - 1 ELSE new_line_count

ReadLineClears ==
  /\ Echo("read", "exit")
  /\ TRUE \in MallocResults
  /\ \E n \in stdin_out_count .. stdin_in_count - 1 : TakeLine(n, n + 1)
  /\ new_line_count' = 0

ReadLine ==
  /\ Echo("read", "exit")
  /\ TRUE \in MallocResults
  /\ \E n \in stdin_out_count .. stdin_in_count - 1 : TakeLine(n, n + 1)
  /\ new_line_count' = IF new_line_count > 0 THEN new_line_count - 1 ELSE new_line_count

(* exit_critical; echo_task prints what it got and calls read_line again.  *)
ExitRead ==
  /\ Echo("exit", "wait")
  /\ inside' = {}
  /\ UNCHANGED <<stdin_out_count, new_line_count, acc, lines>>

echo_task == LoadWait \/ TestWait \/ EnterRead \/ ReadNothing \/ ReadLine \/ ExitRead

-----------------------------------------------------------------------------
(* The timer interrupt hands the CPU on; not while a task is inside.       *)
SwitchTo(t) ==
  /\ inside = {} /\ cpu # t
  /\ cpu' = t
  /\ UNCHANGED <<char_buffer, current_char_out, buffers, new_line_count, inside, spc, c, acc, echo>>

(* Whether the interrupted task has something in AL at its next step.      *)
UsesAL == \/ cpu = "stdin" /\ spc \in {"compare", "save", "nl_store"}
          \/ cpu = "echo" /\ epc = "test"

WithAL(e) == (e \div 256) * 256 + 32

(* keyboard_isr: the translated scancode is appended to char_buffer, and   *)
(* the interrupted task goes on with 0x20 in AL: in the low byte of its    *)
(* counter, or for the character it was about to save.                     *)
keyboard_isr ==
  /\ Len(char_buffer) < MaxTyped
  /\ Quiet => ~ UsesAL
  /\ \E k \in Char : char_buffer' = Append(char_buffer, k)
  /\ acc' = IF UsesAL THEN [acc EXCEPT ![cpu] = WithAL(acc[cpu])] ELSE acc
  /\ c' = IF cpu = "stdin" /\ spc = "save" THEN Space ELSE c
  /\ UNCHANGED <<current_char_out, buffers, new_line_count, cpu, inside, spc, echo>>

Next == stdin_loop \/ echo_task \/ keyboard_isr \/ \E t \in Tasks : SwitchTo(t)

(* Every task gets the CPU again and again (Tasks!EveryTaskRuns) and then  *)
(* executes instructions.                                                  *)
Fairness ==
  /\ \A t \in Tasks : SF_vars(SwitchTo(t))
  /\ SF_vars(stdin_loop)
  /\ SF_vars(echo_task)

Spec     == Init /\ [][Next]_vars
FairSpec == Spec /\ Fairness

-----------------------------------------------------------------------------
(* The unlocked new_line_count++ of the stdin task races with read_line's  *)
(* decrement, and the count is only ever too high: it covers every line    *)
(* that is complete in the buffer, but for the one being counted.  Were it *)
(* ever too low, read_line would sleep on a complete line.                 *)
Pending == {i \in stdin_out_count .. stdin_in_count - 1 : stdin[i] = NL}

BeingCounted == IF spc \in {"nl_load", "nl_store"} THEN 1 ELSE 0

LinesCounted == Cardinality(Pending) <= new_line_count + BeingCounted

(* The text: what was typed without the zeros of releases and shifts.      *)
(* Rank(s, n) of its characters are among the first n typed.               *)
Visible(s, n) == {i \in 1 .. n : s[i] # NUL}
Rank(s, n)    == Cardinality(Visible(s, n))
TextOf(s) == [k \in 1 .. Rank(s, Len(s)) |-> s[CHOOSE i \in Visible(s, Len(s)) : Rank(s, i) = k]]

Text == TextOf(char_buffer)

LC == INSTANCE LineChannel WITH Char <- Char \ {NUL}, text <- Text, taken <- stdin_out_count

(* The echo task gets exactly the typed lines, complete, once each and in  *)
(* order, although the count of stdin is published before the character is *)
(* stored, newlines are miscounted, malloc may fail and the buffer fills.  *)
LinesFaithful == LC!Spec

(* What is typed beyond the room in the buffer is dropped; of the rest,    *)
(* every complete line is delivered in the end, unless malloc fails for    *)
(* ever: read_line never sleeps on a complete line.                        *)
Fitting == SubSeq(Text, 1, IF Len(Text) > StdinSize THEN StdinSize ELSE Len(Text))

Fit == INSTANCE LineChannel WITH text <- Fitting, taken <- stdin_out_count
DeliversLines == SF_vars(ReadLine) => Fit!Fairness
=============================================================================
