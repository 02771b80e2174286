------------------------------ MODULE Keyboard ------------------------------
(***************************************************************************)
(* keyboard.c: from the scancodes of the keyboard controller to the        *)
(* characters of char_buffer.                                              *)
(*                                                                         *)
(* The controller (external) queues the codes of presses, repeats and      *)
(* releases and requests an interrupt; a read of port 0x60 takes the next  *)
(* code, or shows the last one again when there is none.  keyboard_isr     *)
(* reads the port, and keyboard_handler_c reads it once more and uses only *)
(* what it read itself.  The handler runs with interrupts off: one step.   *)
(***************************************************************************)
EXTENDS Integers, Sequences, SequencesExt

CONSTANTS LShift,       \* the left shift key, the only one the code knows
          Letters,      \* keys of both scancode maps
          Unmapped,     \* keys of neither map: right shift, caps lock, ...
          QueueSize,    \* codes the controller holds
          MaxCodes      \* bound: codes sent

ASSUME KeysAssumption == LShift \notin Letters \cup Unmapped /\ Letters \cap Unmapped = {}
ASSUME SizeAssumption == QueueSize \in Nat \ {0} /\ MaxCodes \in Nat

Keys == {LShift} \cup Letters \cup Unmapped

(* A code says which key goes down (or repeats) or up.  A character is the *)
(* key and the map it was looked up in, '\0' or '?'.                       *)
Code == [key : Keys, up : BOOLEAN]
Chr(k, shifted) == [key |-> k, shifted |-> shifted]
NUL      == [nul |-> TRUE]
Question == [nul |-> FALSE]

VARIABLES down,         \* the keys held down
          sent,         \* history: the codes sent since boot
          bunched,      \* history: some code came while another was waiting
          queue, shown, \* the controller: codes not read, the last one read
          request,      \* IRQ1 is pending
          is_l_shifted, \* keyboard.c
          handled,      \* history: the codes handle_scancode was given
          chars         \* what it appended to char_buffer

vars == <<down, sent, bunched, queue, shown, request, is_l_shifted, handled, chars>>

Init ==
  /\ down = {} /\ sent = <<>> /\ bunched = FALSE
  /\ queue = <<>> /\ shown = [key |-> LShift, up |-> TRUE] /\ request = FALSE
  /\ is_l_shifted = FALSE /\ handled = <<>> /\ chars = <<>>

-----------------------------------------------------------------------------
(* The keyboard.  A key that is held repeats its press.                    *)
Send(c) ==
  /\ Len(sent) < MaxCodes /\ Len(queue) < QueueSize
  /\ bunched' = (bunched \/ queue # <<>> \/ request)
  /\ sent' = Append(sent, c) /\ queue' = Append(queue, c) /\ request' = TRUE
  /\ UNCHANGED <<shown, is_l_shifted, handled, chars>>

Press(k)   == Send([key |-> k, up |-> FALSE]) /\ down' = down \cup {k}
Release(k) == k \in down /\ Send([key |-> k, up |-> TRUE]) /\ down' = down \ {k}

(* scancode_to_char: what it returns and what it makes of is_l_shifted.    *)
ReleasesTyped(c, shifted) ==               \* mutant: "> 0x80" not tested
  CASE c.key = LShift       -> NUL
    [] c.key \in Letters    -> Chr(c.key, shifted)
    [] c.key \in Unmapped   -> Question

scancode_to_char(c, shifted) ==
  CASE c.key = LShift \/ c.up               -> NUL
    [] c.key \in Letters /\ ~ c.up          -> Chr(c.key, shifted)
    [] c.key \in Unmapped /\ ~ c.up         -> Question

ShiftPressOnly(c, shifted) ==              \* mutant: the release is ignored
  IF c.key = LShift THEN TRUE ELSE shifted

ShiftAfter(c, shifted) == IF c.key = LShift THEN ~ c.up ELSE shifted

handle_scancode(c) ==
  /\ handled' = Append(handled, c)
  /\ chars' = Append(chars, scancode_to_char(c, is_l_shifted))
  /\ is_l_shifted' = ShiftAfter(c, is_l_shifted)

(* One inb(0x60): the code read and the queue it leaves.                   *)
PortCode(q, last) == IF q = <<>> THEN last ELSE Head(q)
PortRest(q)       == IF q = <<>> THEN q ELSE Tail(q)

(* The code of the second read is handled.  The request goes on while      *)
(* codes wait; when the second read has emptied the queue the controller   *)
(* may or may not have latched another one.                                *)
HandleFirstRead ==                        \* mutant: the first read is used
  /\ request
  /\ handle_scancode(PortCode(queue, shown))
  /\ shown' = PortCode(PortRest(queue), PortCode(queue, shown))
  /\ queue' = PortRest(PortRest(queue))
  /\ request' \in BOOLEAN /\ (Len(queue) > 2 => request') /\ (Len(queue) < 2 => ~ request')
  /\ UNCHANGED <<down, sent, bunched>>

keyboard_isr ==
  /\ request
  /\ shown' = PortCode(PortRest(queue), PortCode(queue, shown))
  /\ queue' = PortRest(PortRest(queue))
  /\ handle_scancode(shown')
  /\ request' \in BOOLEAN /\ (Len(queue) > 2 => request') /\ (Len(queue) < 2 => ~ request')
  /\ UNCHANGED <<down, sent, bunched>>

Next == keyboard_isr \/ \E k \in Keys : Press(k) \/ Release(k)

Spec == Init /\ [][Next]_vars

-----------------------------------------------------------------------------
(* As long as the codes came one at a time, the text is what a typist      *)
(* expects: each press of a letter gives that letter in the case of the    *)
(* left shift key held at the moment of the press, and nothing is missed   *)
(* or typed twice, although the port is read twice for each interrupt.     *)
HeldAt(n) ==
  LET events == {i \in 1 .. n : sent[i].key = LShift}
  IN  \E i \in events : ~ sent[i].up /\ \A j \in events : j <= i

Typed(i) ==
  IF sent[i].key = LShift \/ sent[i].up THEN NUL
  ELSE IF sent[i].key \in Unmapped THEN Question
  ELSE Chr(sent[i].key, HeldAt(i))

Expected(n) == [i \in 1 .. n |-> Typed(i)]

TypedRight == ~ bunched => chars = Expected(Len(sent) - Len(queue))

(* However the codes bunch up: when the controller has nothing more to     *)
(* say, the last code it sent is the last one handled, so a stuck shift    *)
(* state is repaired by the next press or release of the shift key.        *)
LatestIsHandled ==
  ~ request /\ sent # <<>> => handled # <<>> /\ Last(handled) = Last(sent)

(* The shift state is the key's whenever the controller has nothing more   *)
(* to say and the last code was the shift key's, codes lost or not.        *)
ShiftRepaired ==
  ~ request /\ sent # <<>> /\ Last(sent).key = LShift => (is_l_shifted <=> LShift \in down)
=============================================================================
