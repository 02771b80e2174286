----------------------------- MODULE LineChannel -----------------------------
(***************************************************************************)
(* What the input path promises the echo task: the text typed at the       *)
(* keyboard comes out as lines, complete, once each and in order.          *)
(***************************************************************************)
EXTENDS Naturals, Sequences

CONSTANTS Char,         \* the characters a key press is translated to
          NL            \* '\n'

VARIABLES text,         \* the characters typed, in order
          taken,        \* how many of them have left in lines
          lines         \* the lines delivered

vars == <<text, taken, lines>>

Init == text = <<>> /\ taken = 0 /\ lines = <<>>

Type == \E ch \in Char : text' = Append(text, ch) /\ UNCHANGED <<taken, lines>>

(* The next line: up to and with the first '\n' not yet delivered.         *)
IsNextLine(n) ==
  /\ n \in taken + 1 .. Len(text)
  /\ text[n] = NL
  /\ \A i \in taken + 1 .. n - 1 : text[i] # NL

Deliver ==
  \E n \in taken + 1 .. Len(text) :
    /\ IsNextLine(n)
    /\ lines' = Append(lines, SubSeq(text, taken + 1, n))
    /\ taken' = n
    /\ UNCHANGED text

Next == Type \/ Deliver

Spec     == Init /\ [][Next]_vars
Fairness == WF_vars(Deliver)
FairSpec == Spec /\ Fairness
=============================================================================
