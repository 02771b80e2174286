------------------------------- MODULE Screen -------------------------------
(***************************************************************************)
(* put_char of SCREEN_DRIVER/screen_driver.c and the tasks that print      *)
(* through it.  The cursor is two unlocked bytes; the timer may switch     *)
(* tasks between any two accesses to them, so a step of a writer is one    *)
(* access to cursor_x, to cursor_y or to the video memory.  No caller of   *)
(* put_char is in a critical section.                                      *)
(*                                                                         *)
(* Of the video memory only the cell written last is kept ("written"), as  *)
(* an index from the top left corner: what matters is where writes go.     *)
(***************************************************************************)
EXTENDS Integers, FiniteSets

CONSTANTS Columns, Rows, TabStop,       \* 80, 25, 8
          Byte,                         \* number of values of a uint8_t
          Writers,                      \* the tasks that print
          Text,                         \* the characters a task prints alone
          SharedText,                   \* and when several tasks print
          Plain, NL, CR, BS, TAB        \* kinds of characters

ASSUME SizeAssumption == /\ Columns \in Nat \ {0} /\ Rows \in Nat \ {0}
                         /\ TabStop \in Nat \ {0} /\ Columns % TabStop = 0
                         /\ Byte \in Nat /\ Columns + TabStop < Byte /\ Rows < Byte
ASSUME TextAssumption == /\ SharedText \subseteq Text \cap {Plain, NL, CR}
                         /\ Text \subseteq {Plain, NL, CR, BS, TAB}
                         /\ NL # Plain /\ CR \notin {Plain, NL} /\ BS \notin {Plain, NL, CR}
                         /\ TAB \notin {Plain, NL, CR, BS}

VARIABLES printing,     \* the tasks that print: one during boot, then all
          cursor_x, cursor_y,
          written,      \* the cell written last
          pc, ch,       \* each writer: next step, the character it prints
          cur, reg      \* each writer: the cell it computed, its accumulator

vars == <<printing, cursor_x, cursor_y, written, pc, ch, cur, reg>>

Cells  == Columns * Rows
Cursor == cursor_y * Columns + cursor_x

Alone == printing # Writers

Init ==
  /\ printing \in {Writers} \cup {{w} : w \in Writers}
  /\ cursor_x = 0 /\ cursor_y = 0 /\ written = 0
  /\ pc = [w \in Writers |-> "idle"] /\ ch \in [Writers -> Text]
  /\ cur = [w \in Writers |-> 0] /\ reg = [w \in Writers |-> 0]

-----------------------------------------------------------------------------
(* One step of writer w from p to q: load v into its accumulator, store v  *)
(* into a cursor byte, draw cell v, or just branch.  The locals of a call  *)
(* are cleared when it returns.                                            *)
Set(f, w, v)  == [f EXCEPT ![w] = v]
Keep(f, w, q) == IF q = "idle" THEN Set(f, w, 0) ELSE f

Goto(w, p, q) == pc[w] = p /\ pc' = Set(pc, w, q) /\ UNCHANGED <<ch, printing>>

Load(w, p, v, q)   == /\ Goto(w, p, q) /\ reg' = Set(reg, w, v)
                      /\ UNCHANGED <<cursor_x, cursor_y, written, cur>>
StoreX(w, p, v, q) == /\ Goto(w, p, q) /\ cursor_x' = v
                      /\ cur' = Keep(cur, w, q) /\ reg' = Keep(reg, w, q)
                      /\ UNCHANGED <<cursor_y, written>>
StoreY(w, p, v, q) == /\ Goto(w, p, q) /\ cursor_y' = v
                      /\ cur' = Keep(cur, w, q) /\ reg' = Keep(reg, w, q)
                      /\ UNCHANGED <<cursor_x, written>>
Draw(w, p, v, q)   == /\ Goto(w, p, q) /\ written' = v
                      /\ UNCHANGED <<cursor_x, cursor_y, cur, reg>>
Branch(w, p, q)    == StoreX(w, p, cursor_x, q)

(* A task calls put_char; '\0' returns at once and is left out.            *)
Call(w) ==
  /\ w \in printing
  /\ pc[w] = "idle" /\ pc' = Set(pc, w, "locate_y")
  /\ \E c \in IF Alone THEN Text ELSE SharedText : ch' = Set(ch, w, c)
  /\ UNCHANGED <<printing, cursor_x, cursor_y, written, cur, reg>>

(* cur, before the switch on the character.                                *)
Case(c) == CASE c = Plain -> "cell" [] c = NL -> "nl" [] c = CR -> "cr"
             [] c = BS -> "bs" [] c = TAB -> "tab"

Locate(w) ==
  \/ Load(w, "locate_y", cursor_y, "locate_x")
  \/ /\ Goto(w, "locate_x", Case(ch[w]))
     /\ cur' = Set(cur, w, reg[w] * Columns + cursor_x)
     /\ UNCHANGED <<cursor_x, cursor_y, written, reg>>

NextRow(w) ==
  \/ Load(w, "row", cursor_y, "row_store")
  \/ StoreY(w, "row_store", (reg[w] + 1) % Rows, "idle")

(* Mutant of Advance: the column is stored before it is wrapped.           *)
AdvanceThenWrap(w) ==
  \/ Draw(w, "cell", cur[w], "advance")
  \/ Load(w, "advance", cursor_x, "advance_store")
  \/ StoreX(w, "advance_store", (reg[w] + 1) % Byte, "advance_test")
  \/ StoreX(w, "advance_test", IF cursor_x = Columns THEN 0 ELSE cursor_x,
                               IF cursor_x = Columns THEN "row" ELSE "idle")

Advance(w) ==
  \/ Draw(w, "cell", cur[w], "advance")
  \/ Load(w, "advance", cursor_x, "advance_store")
  \/ StoreX(w, "advance_store", (reg[w] + 1) % Columns, "advance_test")
  \/ Branch(w, "advance_test", IF cursor_x = 0 THEN "row" ELSE "idle")

Newline(w) == StoreX(w, "nl", 0, "row") \/ StoreX(w, "cr", 0, "idle")

(* The cell before the cursor is blanked, then the cursor moves back.      *)
(* Mutants: to the end of the same row, and of the row above the last one; *)
(* blanking the cursor's own cell.                                         *)
BackUp(w, blank, up) ==
  \/ Draw(w, "bs", blank, "bs_test_x")
  \/ Branch(w, "bs_test_x", IF cursor_x = 0 THEN "bs_test_y" ELSE "bs_left")
  \/ Branch(w, "bs_test_y", IF cursor_y > 0 THEN "bs_up" ELSE "bs_left")
  \/ Load(w, "bs_up", cursor_y, "bs_up_store")
  \/ StoreY(w, "bs_up_store", up, "bs_end")
  \/ StoreX(w, "bs_end", Columns - 1, "idle")
  \/ Branch(w, "bs_left", IF cursor_x > 0 THEN "bs_dec" ELSE "idle")
  \/ Load(w, "bs_dec", cursor_x, "bs_dec_store")
  \/ StoreX(w, "bs_dec_store", (reg[w] - 1) % Byte, "idle")

BackspaceSameRow(w) == BackUp(w, cur[w] - 1, reg[w])
BackspaceHere(w)    == BackUp(w, cur[w], (reg[w] - 1) % Byte)

Backspace(w) == BackUp(w, cur[w] - 1, (reg[w] - 1) % Byte)

(* Mutant of Tab: past the last column it is not wrapped.                  *)
TabPast(w) ==
  \/ Load(w, "tab", TabStop - (cursor_x % TabStop), "tab_add")
  \/ Load(w, "tab_add", reg[w] + cursor_x, "tab_store")
  \/ StoreX(w, "tab_store", reg[w] % Byte, "idle")

Tab(w) ==
  \/ Load(w, "tab", TabStop - (cursor_x % TabStop), "tab_add")
  \/ Load(w, "tab_add", reg[w] + cursor_x, "tab_store")
  \/ StoreX(w, "tab_store", reg[w] % Byte, "tab_test")
  \/ Branch(w, "tab_test", IF cursor_x >= Columns THEN "tab_wrap" ELSE "idle")
  \/ StoreX(w, "tab_wrap", 0, "row")

put_char(w) ==
  Locate(w) \/ NextRow(w) \/ Advance(w) \/ Newline(w) \/ Backspace(w) \/ Tab(w)

Next == \E w \in Writers : Call(w) \/ put_char(w)

Spec == Init /\ [][Next]_vars

-----------------------------------------------------------------------------
(* Writers that print text and newlines share the cursor bytes without a   *)
(* lock, and still every cell they draw is on the screen: the cursor may   *)
(* be lost to another task, never off the screen, not even for a moment.   *)
CellsOnScreen == ~ Alone => written \in 0 .. Cells - 1

(* One task alone: put_char moves the cursor as a terminal does, along the *)
(* screen as one line of cells that wraps at its end.  cur is the cell the *)
(* call started from.                                                      *)
After(pos, c) ==
  CASE c = Plain -> (pos + 1) % Cells
    [] c = NL    -> ((pos \div Columns + 1) * Columns) % Cells
    [] c = CR    -> (pos \div Columns) * Columns
    [] c = BS    -> IF pos = 0 THEN 0 ELSE pos - 1
    [] c = TAB   -> ((pos \div TabStop + 1) * TabStop) % Cells

Returns(w) == pc[w] # "idle" /\ pc'[w] = "idle"

PutCharMovesOn ==
  [][\A w \in Writers : Alone /\ Returns(w) => Cursor' = After(cur[w], ch[w])]_vars

(* One task alone: a backspace leaves the cursor on the cell it blanked,   *)
(* also across the start of a row.                                         *)
BackspaceErases ==
  [][\A w \in Writers : Alone /\ Returns(w) /\ ch[w] = BS /\ cur[w] # 0 => Cursor' = written]_vars

(* One task that prints anything, or all of them printing text: the cursor *)
(* is on the screen whenever nothing is being printed; a tab past the last *)
(* column leaves it only for a moment.                                     *)
CursorOnScreen ==
  (\A w \in Writers : pc[w] = "idle") => cursor_x < Columns /\ cursor_y < Rows
=============================================================================
