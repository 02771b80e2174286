----------------------------- MODULE ScreenProofs -----------------------------
(***************************************************************************)
(* For every size of the screen.  Tasks that print text without a lock,    *)
(* any number of them in any interleaving, never draw outside the screen;  *)
(* one task alone, printing anything, moves the cursor as a terminal does. *)
(***************************************************************************)
EXTENDS Screen, TLAPS

(* Where a writer of text can be: not in a backspace or a tab.             *)
TextPCs == {"idle", "locate_y", "locate_x", "cell", "advance", "advance_store", "advance_test",
            "row", "row_store", "nl", "cr"}

(* What a writer at step p relies on, with c to print, u and r its locals: *)
(* each was right when it was loaded, wherever the cursor is by now.       *)
Ready(p, c, u, r) ==
  /\ p \in {"locate_y", "locate_x"} => c \in SharedText
  /\ p = "locate_x" => r \in 0 .. Rows - 1
  /\ p = "cell" => u \in 0 .. Cells - 1
  /\ p \in {"advance_store", "row_store"} => r \in Nat

OnScreen == /\ cursor_x \in 0 .. Columns - 1 /\ cursor_y \in 0 .. Rows - 1
            /\ written \in 0 .. Cells - 1
Locals   == /\ pc \in [Writers -> TextPCs] /\ ch \in [Writers -> Text]
            /\ cur \in [Writers -> Int] /\ reg \in [Writers -> Int]
AllReady == \A w \in Writers : Ready(pc[w], ch[w], cur[w], reg[w])

SharedInv == ~ Alone => OnScreen /\ Locals /\ AllReady

LEMMA CellBound ==
  ASSUME NEW r \in 0 .. Rows - 1, NEW x \in 0 .. Columns - 1
  PROVE  r * Columns + x \in 0 .. Cells - 1
<1> USE SizeAssumption DEF Cells
<1>1. r * Columns \in Nat
  OBVIOUS
<1>2. (Rows - 1 - r) * Columns \in Nat
  OBVIOUS
<1>3. Columns * Rows = (Rows - 1 - r) * Columns + r * Columns + Columns
  OBVIOUS
<1> QED  BY <1>1, <1>2, <1>3

LEMMA SharedInit == Init => SharedInv
<1> SUFFICES ASSUME Init PROVE OnScreen /\ Locals /\ AllReady
  BY DEF SharedInv
<1>1. 0 \in 0 .. Cells - 1
  <2>1. 0 \in 0 .. Rows - 1 /\ 0 \in 0 .. Columns - 1 /\ 0 * Columns + 0 = 0
    BY SizeAssumption
  <2> QED  BY <2>1, CellBound
<1> QED
  BY <1>1, SizeAssumption DEF Init, OnScreen, Locals, AllReady, Ready, TextPCs

(* A step of one writer, by the kind of its access, leaves the others      *)
(* ready: what they rely on is their own.                                  *)
LEMMA OthersReady ==
  ASSUME Locals, AllReady, NEW w \in Writers, Locals',
         \A v \in Writers \ {w} : /\ pc'[v] = pc[v] /\ ch'[v] = ch[v]
                                  /\ cur'[v] = cur[v] /\ reg'[v] = reg[v],
         Ready(pc[w], ch[w], cur[w], reg[w])'
  PROVE  AllReady'
  BY DEF AllReady

LEMMA SharedLoad ==
  ASSUME ~ Alone, OnScreen, Locals, AllReady, NEW w \in Writers,
         NEW p \in TextPCs, NEW v \in Int, NEW q \in TextPCs, Load(w, p, v, q),
         q \in {"locate_y", "locate_x"} => ch[w] \in SharedText,
         q = "locate_x" => v \in 0 .. Rows - 1,
         q # "cell",
         q \in {"advance_store", "row_store"} => v \in Nat
  PROVE  SharedInv'
<1> USE DEF Load, Goto, Set
<1>1. OnScreen'
  BY DEF OnScreen, Cells
<1>2. Locals'
  BY DEF Locals
<1>3. Ready(pc[w], ch[w], cur[w], reg[w])'
  BY DEF Ready, Locals, Cells
<1>4. \A u \in Writers \ {w} : /\ pc'[u] = pc[u] /\ ch'[u] = ch[u]
                               /\ cur'[u] = cur[u] /\ reg'[u] = reg[u]
  BY DEF Locals
<1> QED  BY <1>1, <1>2, <1>3, <1>4, OthersReady DEF SharedInv

(* A store to a cursor byte, to both or to none.                           *)
LEMMA SharedStore ==
  ASSUME ~ Alone, OnScreen, Locals, AllReady, NEW w \in Writers,
         NEW p \in TextPCs, NEW q \in {"idle", "advance_test", "row"}, Goto(w, p, q),
         cur' = Keep(cur, w, q), reg' = Keep(reg, w, q), UNCHANGED written,
         cursor_x' \in 0 .. Columns - 1, cursor_y' \in 0 .. Rows - 1
  PROVE  SharedInv'
<1> USE DEF Goto, Set, Keep
<1>1. OnScreen'
  BY DEF OnScreen, Cells
<1>2. Locals'
  BY DEF Locals, TextPCs
<1>3. Ready(pc[w], ch[w], cur[w], reg[w])'
  BY DEF Ready, Locals
<1>4. \A u \in Writers \ {w} : /\ pc'[u] = pc[u] /\ ch'[u] = ch[u]
                               /\ cur'[u] = cur[u] /\ reg'[u] = reg[u]
  BY DEF Locals
<1> QED  BY <1>1, <1>2, <1>3, <1>4, OthersReady DEF SharedInv

LEMMA SharedPutChar ==
  ASSUME ~ Alone, OnScreen, Locals, AllReady, NEW w \in Writers, put_char(w)
  PROVE  SharedInv'
<1> USE SizeAssumption
<1>1. pc[w] \in TextPCs /\ Ready(pc[w], ch[w], cur[w], reg[w])
  BY DEF Locals, AllReady
<1>2. cursor_x \in 0 .. Columns - 1 /\ cursor_y \in 0 .. Rows - 1
  BY DEF OnScreen
<1>3. CASE Locate(w)
  <2>1. CASE Load(w, "locate_y", cursor_y, "locate_x")
    BY <1>1, <1>2, <2>1, SharedLoad DEF Load, Goto, Ready, TextPCs
  <2>2. CASE ~ Load(w, "locate_y", cursor_y, "locate_x")
    <3>1. /\ Goto(w, "locate_x", Case(ch[w])) /\ UNCHANGED <<cursor_x, cursor_y, written, reg>>
          /\ cur' = [cur EXCEPT ![w] = reg[w] * Columns + cursor_x]
      BY <1>3, <2>2 DEF Locate, Set
    <3>2. reg[w] * Columns + cursor_x \in 0 .. Cells - 1
      BY <1>1, <1>2, <3>1, CellBound DEF Goto, Ready
    <3>3. Case(ch[w]) \in {"cell", "nl", "cr"}
      BY <1>1, <3>1, TextAssumption DEF Goto, Ready, Case
    <3>4. pc' = [pc EXCEPT ![w] = Case(ch[w])] /\ UNCHANGED <<ch, printing>>
      BY <3>1 DEF Goto, Set
    <3>5. OnScreen'
      BY <3>1 DEF OnScreen, Cells
    <3>6. Locals'
      BY <3>1, <3>2, <3>3, <3>4 DEF Locals, TextPCs, Cells
    <3>7. Ready(pc[w], ch[w], cur[w], reg[w])'
      BY <3>1, <3>2, <3>3, <3>4 DEF Ready, Locals, Cells
    <3>8. \A u \in Writers \ {w} : /\ pc'[u] = pc[u] /\ ch'[u] = ch[u]
                                   /\ cur'[u] = cur[u] /\ reg'[u] = reg[u]
      BY <3>1, <3>4 DEF Locals
    <3> QED  BY <3>5, <3>6, <3>7, <3>8, OthersReady DEF SharedInv
  <2> QED  BY <2>1, <2>2
<1>4. CASE NextRow(w)
  <2>1. CASE Load(w, "row", cursor_y, "row_store")
    BY <1>2, <2>1, SharedLoad DEF TextPCs
  <2>2. CASE StoreY(w, "row_store", (reg[w] + 1) % Rows, "idle")
    <3>1. (reg[w] + 1) % Rows \in 0 .. Rows - 1
      BY <1>1, <2>2 DEF StoreY, Goto, Ready
    <3> QED  BY <1>2, <2>2, <3>1, SharedStore DEF StoreY, TextPCs
  <2> QED  BY <1>4, <2>1, <2>2 DEF NextRow
<1>5. CASE Advance(w)
  <2>1. CASE Draw(w, "cell", cur[w], "advance")
    <3>1. /\ pc[w] = "cell" /\ pc' = [pc EXCEPT ![w] = "advance"] /\ written' = cur[w]
          /\ UNCHANGED <<ch, printing, cursor_x, cursor_y, cur, reg>>
      BY <2>1 DEF Draw, Goto, Set
    <3>2. OnScreen'
      BY <1>1, <3>1 DEF OnScreen, Ready, Cells
    <3>3. Locals'
      BY <3>1 DEF Locals, TextPCs
    <3>4. Ready(pc[w], ch[w], cur[w], reg[w])'
      BY <3>1 DEF Ready, Locals
    <3>5. \A u \in Writers \ {w} : /\ pc'[u] = pc[u] /\ ch'[u] = ch[u]
                                   /\ cur'[u] = cur[u] /\ reg'[u] = reg[u]
      BY <3>1 DEF Locals
    <3> QED  BY <3>2, <3>3, <3>4, <3>5, OthersReady DEF SharedInv
  <2>2. CASE Load(w, "advance", cursor_x, "advance_store")
    BY <1>2, <2>2, SharedLoad DEF TextPCs
  <2>3. CASE StoreX(w, "advance_store", (reg[w] + 1) % Columns, "advance_test")
    <3>1. (reg[w] + 1) % Columns \in 0 .. Columns - 1
      BY <1>1, <2>3 DEF StoreX, Goto, Ready
    <3> QED  BY <1>2, <2>3, <3>1, SharedStore DEF StoreX, TextPCs
  <2>4. CASE Branch(w, "advance_test", IF cursor_x = 0 THEN "row" ELSE "idle")
    BY <1>2, <2>4, SharedStore DEF Branch, StoreX, TextPCs
  <2> QED  BY <1>5, <2>1, <2>2, <2>3, <2>4 DEF Advance
<1>6. CASE Newline(w)
  <2>1. CASE StoreX(w, "nl", 0, "row")
    BY <1>2, <2>1, SharedStore DEF StoreX, TextPCs
  <2>2. CASE StoreX(w, "cr", 0, "idle")
    BY <1>2, <2>2, SharedStore DEF StoreX, TextPCs
  <2> QED  BY <1>6, <2>1, <2>2 DEF Newline
<1>7. ~ Backspace(w) /\ ~ Tab(w)
  BY <1>1 DEF TextPCs, Backspace, BackUp, Tab, Load, StoreX, StoreY, Draw, Branch, Goto
<1> QED  BY <1>3, <1>4, <1>5, <1>6, <1>7 DEF put_char

LEMMA SharedStep == SharedInv /\ [Next]_vars => SharedInv'
<1> SUFFICES ASSUME SharedInv, [Next]_vars PROVE SharedInv'
  OBVIOUS
<1>1. printing' = printing
  BY DEF Next, Call, put_char, Locate, NextRow, Advance, Newline, Backspace, BackUp, Tab, Load,
     StoreX, StoreY, Draw, Branch, Goto, vars
<1>2. CASE Alone
  BY <1>1, <1>2 DEF SharedInv, Alone
<1>3. CASE ~ Alone
  <2>1. OnScreen /\ Locals /\ AllReady
    BY <1>3 DEF SharedInv
  <2>2. CASE UNCHANGED vars
    BY <2>1, <2>2 DEF vars, SharedInv, OnScreen, Cells, Locals, AllReady, Ready
  <2>3. ASSUME NEW w \in Writers, Call(w) PROVE SharedInv'
    <3>1. PICK c \in SharedText : ch' = [ch EXCEPT ![w] = c]
      BY <1>3, <2>3 DEF Call, Set
    <3>2. /\ pc' = [pc EXCEPT ![w] = "locate_y"]
          /\ UNCHANGED <<printing, cursor_x, cursor_y, written, cur, reg>>
      BY <2>3 DEF Call, Set
    <3>3. OnScreen'
      BY <2>1, <3>2 DEF OnScreen, Cells
    <3>4. Locals'
      BY <2>1, <3>1, <3>2, TextAssumption DEF Locals, TextPCs
    <3>5. Ready(pc[w], ch[w], cur[w], reg[w])'
      BY <2>1, <3>1, <3>2 DEF Ready, Locals
    <3>6. \A u \in Writers \ {w} : /\ pc'[u] = pc[u] /\ ch'[u] = ch[u]
                                   /\ cur'[u] = cur[u] /\ reg'[u] = reg[u]
      BY <2>1, <3>1, <3>2 DEF Locals
    <3> QED  BY <2>1, <3>3, <3>4, <3>5, <3>6, OthersReady DEF SharedInv
  <2> QED  BY <1>3, <2>1, <2>2, <2>3, SharedPutChar DEF Next
<1> QED  BY <1>2, <1>3

(* Every cell that put_char draws is on the screen, although other tasks   *)
(* move the cursor between any two accesses to it.                         *)
THEOREM DrawnOnScreen == Spec => []CellsOnScreen
<1>1. SharedInv => CellsOnScreen
  BY DEF SharedInv, OnScreen, CellsOnScreen
<1> QED  BY <1>1, SharedInit, SharedStep, PTL DEF Spec

-----------------------------------------------------------------------------
(* One task alone.  What it knows at step p, with k to print, u and r its  *)
(* locals, (x, y) the cursor and d the cell drawn last.                    *)
PCs == {"idle", "locate_y", "locate_x", "cell", "advance", "advance_store", "advance_test",
        "row", "row_store", "nl", "cr", "bs", "bs_test_x", "bs_test_y", "bs_up", "bs_up_store",
        "bs_end", "bs_left", "bs_dec", "bs_dec_store", "tab", "tab_add", "tab_store",
        "tab_test", "tab_wrap"}

(* The step belongs to the character.                                      *)
Belongs(p, k) ==
  /\ p \in {"cell", "advance", "advance_store", "advance_test"} => k = Plain
  /\ p = "nl" => k = NL
  /\ p = "cr" => k = CR
  /\ p \in {"row", "row_store"} => k \in {Plain, NL, TAB}
  /\ p \in {"bs", "bs_test_x", "bs_test_y", "bs_up", "bs_up_store", "bs_end",
            "bs_left", "bs_dec", "bs_dec_store"} => k = BS
  /\ p \in {"tab", "tab_add", "tab_store", "tab_test", "tab_wrap"} => k = TAB

(* The accumulator holds what was loaded.                                  *)
Loaded(p, r, x, y) ==
  /\ p \in {"locate_x", "row_store", "bs_up_store"} => r = y
  /\ p \in {"advance_store", "bs_dec_store"} => r = x
  /\ p = "tab_add" => r = TabStop - (x % TabStop)
  /\ p = "tab_store" => r = x + (TabStop - (x % TabStop))

(* Where the cursor is, seen from the cell u where the call began; "start" *)
(* is the first cell of its row.                                           *)
Located(p, k, u, x, start) ==
  /\ p \in {"cell", "advance", "advance_store", "nl", "cr", "bs", "bs_test_x", "bs_test_y", "bs_up",
            "bs_up_store", "bs_left", "bs_dec", "bs_dec_store", "tab", "tab_add", "tab_store"} =>
       u = start + x
  /\ p = "advance_test" => u + 1 = IF x = 0 THEN start + Columns ELSE start + x
  /\ p \in {"row", "row_store"} =>
       /\ x = 0 /\ start <= u /\ u < start + Columns
       /\ k = Plain => u + 1 = start + Columns
       /\ k = TAB => start + Columns <= u + TabStop
  /\ p = "bs_end" => u = start + Columns
  /\ p \in {"tab_test", "tab_wrap"} =>
       /\ x % TabStop = 0 /\ start <= u /\ u < start + x /\ start + x <= u + TabStop
  /\ p = "tab_wrap" => x = Columns

(* A backspace has drawn the cell before u, and tests as it goes.          *)
Erasing(p, u, x, y, d) ==
  /\ p \in {"bs_test_x", "bs_test_y", "bs_up", "bs_up_store", "bs_end", "bs_left", "bs_dec",
            "bs_dec_store"} => d = u - 1
  /\ p \in {"bs_test_y", "bs_up", "bs_up_store", "bs_end"} => x = 0
  /\ p \in {"bs_up", "bs_up_store"} => y > 0
  /\ p = "bs_left" => (x = 0 => y = 0)
  /\ p \in {"bs_dec", "bs_dec_store"} => x > 0

Steady(p, k, u, r, x, y, d) ==
  /\ y \in 0 .. Rows - 1 /\ x \in 0 .. Columns
  /\ p \notin {"tab_test", "tab_wrap"} => x < Columns
  /\ Belongs(p, k) /\ Loaded(p, r, x, y) /\ Located(p, k, u, x, y * Columns) /\ Erasing(p, u, x, y, d)

AloneInv ==
  Alone =>
    /\ pc \in [Writers -> PCs] /\ ch \in [Writers -> Text]
    /\ cur \in [Writers -> Int] /\ reg \in [Writers -> Int] /\ written \in Int
    /\ \A w \in printing : Steady(pc[w], ch[w], cur[w], reg[w], cursor_x, cursor_y, written)
    /\ \E w \in Writers : printing = {w} /\ \A v \in Writers \ {w} : pc[v] = "idle"

-----------------------------------------------------------------------------
(* Rows and tab stops as multiples of a length c.                          *)
LEMMA Multiples ==
  ASSUME NEW c \in Nat \ {0}, NEW q \in Nat
  PROVE  q * c \in Nat /\ (q + 1) * c = q * c + c /\ (q > 0 => (q - 1) * c = q * c - c /\ q * c >= c)
<1>1. q * c \in Nat /\ (q + 1) * c = q * c + c
  OBVIOUS
<1>2. ASSUME q > 0 PROVE (q - 1) * c = q * c - c /\ q * c >= c
  <2>1. (q - 1) * c \in Nat
    BY <1>2
  <2>2. ((q - 1) + 1) * c = (q - 1) * c + c
    BY <1>2
  <2>3. (q - 1) + 1 = q
    OBVIOUS
  <2> QED  BY <2>1, <2>2, <2>3
<1> QED  BY <1>1, <1>2

LEMMA Ordered ==
  ASSUME NEW c \in Nat \ {0}, NEW p \in Nat, NEW q \in Nat, p < q
  PROVE  p * c + c <= q * c
<1>1. (q - p - 1) * c \in Nat
  OBVIOUS
<1>2. q * c = (q - p - 1) * c + (p * c + c)
  OBVIOUS
<1> QED  BY <1>1, <1>2

LEMMA Quotient ==
  ASSUME NEW c \in Nat \ {0}, NEW q \in Nat, NEW u \in Nat, q * c <= u, u < q * c + c
  PROVE  u \div c = q /\ (u % c) = u - q * c
<1>1. /\ u \div c \in Nat /\ u % c \in 0 .. c - 1 /\ u = (u \div c) * c + (u % c)
  OBVIOUS
<1>2. ASSUME u \div c < q PROVE FALSE
  <2>1. (u \div c) * c + c <= q * c
    BY <1>1, <1>2, Ordered
  <2> QED  BY <1>1, <2>1
<1>3. ASSUME q < u \div c PROVE FALSE
  <2>1. q * c + c <= (u \div c) * c
    BY <1>1, <1>3, Ordered
  <2> QED  BY <1>1, <2>1
<1>4. u \div c = q
  BY <1>1, <1>2, <1>3
<1> QED  BY <1>1, <1>4

LEMMA Small ==
  ASSUME NEW c \in Nat \ {0}, NEW u \in 0 .. c - 1
  PROVE  u % c = u
<1>1. 0 \in Nat /\ u \in Nat /\ 0 * c = 0 /\ u < c
  OBVIOUS
<1> QED  BY <1>1, Quotient

(* The rows of the screen, the last one followed by the first.             *)
LEMMA NextRowStart ==
  ASSUME NEW y \in 0 .. Rows - 1
  PROVE  /\ (y + 1) % Rows \in 0 .. Rows - 1
         /\ (y * Columns + Columns) % Cells = ((y + 1) % Rows) * Columns
<1> USE SizeAssumption
<1>1. Cells \in Nat \ {0} /\ Cells = Rows * Columns
  BY DEF Cells
<1>2. (y + 1) * Columns = y * Columns + Columns /\ y * Columns \in Nat
  BY Multiples
<1>3. CASE y + 1 < Rows
  <2>1. (y + 1) % Rows = y + 1
    BY <1>3
  <2>2. (y + 1) * Columns + Columns <= Cells
    BY <1>1, <1>3, Ordered
  <2>3. (y * Columns + Columns) % Cells = y * Columns + Columns
    BY <1>1, <1>2, <2>2
  <2> QED  BY <1>2, <1>3, <2>1, <2>3
<1>4. CASE y + 1 = Rows
  <2>1. (y + 1) % Rows = 0
    BY <1>4
  <2>2. y * Columns + Columns = Cells
    BY <1>1, <1>2, <1>4
  <2>3. Cells % Cells = 0
    BY <1>1
  <2> QED  BY <2>1, <2>2, <2>3
<1> QED  BY <1>3, <1>4

(* Tab stops: the next one is in the row or at its end.                    *)
LEMMA NextTab ==
  ASSUME NEW x \in 0 .. Columns - 1
  PROVE  LET t == x + (TabStop - (x % TabStop))
         IN  t \in x + 1 .. x + TabStop /\ t \in 0 .. Columns /\ t % TabStop = 0
<1> USE SizeAssumption
<1> DEFINE q == x \div TabStop
           m == Columns \div TabStop
           t == x + (TabStop - (x % TabStop))
<1>1. q \in Nat /\ x % TabStop \in 0 .. TabStop - 1 /\ x = q * TabStop + (x % TabStop)
  OBVIOUS
<1>2. m \in Nat /\ Columns = m * TabStop
  OBVIOUS
<1> HIDE DEF q, m
<1>3. t = q * TabStop + TabStop /\ q * TabStop \in Nat /\ (q + 1) * TabStop = q * TabStop + TabStop
  <2>1. q * TabStop \in Nat /\ (q + 1) * TabStop = q * TabStop + TabStop
    BY <1>1, Multiples
  <2> DEFINE n == q * TabStop
             r == x % TabStop
  <2>2. n \in Nat /\ r \in 0 .. TabStop - 1 /\ x = n + r
    BY <1>1, <2>1
  <2> HIDE DEF n, r
  <2>3. x + (TabStop - r) = n + TabStop
    BY <2>2
  <2> QED  BY <2>1, <2>3 DEF n, r
<1>4. q < m
  <2>1. ASSUME m <= q PROVE FALSE
    <3>1. m * TabStop <= q * TabStop
      <4>1. (q - m) * TabStop \in Nat
        BY <1>1, <1>2, <2>1
      <4>2. q * TabStop = (q - m) * TabStop + m * TabStop
        BY <1>1, <1>2
      <4>3. m * TabStop \in Nat
        BY <1>2
      <4> QED  BY <1>3, <4>1, <4>2, <4>3
    <3> QED  BY <1>1, <1>2, <1>3, <3>1
  <2> QED  BY <1>1, <1>2, <2>1
<1>5. t <= Columns
  <2>1. q * TabStop + TabStop <= m * TabStop
    BY <1>1, <1>2, <1>4, Ordered
  <2> QED  BY <1>2, <1>3, <2>1
<1>6. t % TabStop = 0
  <2> DEFINE k == q + 1
             n == k * TabStop
  <2>1. k \in Nat
    BY <1>1
  <2>2. n \in Nat
    BY <1>3
  <2> HIDE DEF k
  <2>3. n <= n /\ n < n + TabStop
    BY <2>2
  <2>4. n % TabStop = n - n
    BY <2>1, <2>2, <2>3, Quotient
  <2> HIDE DEF n
  <2>5. n % TabStop = 0
    BY <2>2, <2>4
  <2> QED  BY <1>3, <2>5 DEF n, k
<1> QED  BY <1>1, <1>3, <1>5, <1>6

(* The tab stop after u, when it is x cells into row y.                    *)
LEMMA TabAfter ==
  ASSUME NEW y \in 0 .. Rows - 1, NEW x \in 0 .. Columns, NEW u \in Nat, x % TabStop = 0,
         u < y * Columns + x, y * Columns + x <= u + TabStop
  PROVE  (u \div TabStop + 1) * TabStop = y * Columns + x
<1> USE SizeAssumption
<1> DEFINE q == x \div TabStop
           m == Columns \div TabStop
           n == y * m + q
<1>1. q \in Nat /\ x = q * TabStop /\ m \in Nat /\ Columns = m * TabStop /\ y \in Nat
  OBVIOUS
<1>2. y * Columns = (y * m) * TabStop /\ y * m \in Nat
  <2>1. m \in Nat /\ Columns = m * TabStop
    BY <1>1
  <2> HIDE DEF m
  <2> QED  BY <2>1
<1>3. n \in Nat /\ n * TabStop = y * Columns + x
  <2>1. q \in Nat /\ x = q * TabStop /\ m \in Nat /\ y * m \in Nat /\ y * Columns = (y * m) * TabStop
    BY <1>1, <1>2
  <2> HIDE DEF q, m
  <2>2. n * TabStop = (y * m) * TabStop + q * TabStop
    BY <2>1
  <2> QED  BY <2>1, <2>2
<1> HIDE DEF n
<1>4. n > 0
  <2>1. n * TabStop > 0
    BY <1>3
  <2>2. 0 * TabStop = 0
    OBVIOUS
  <2> QED  BY <1>3, <2>1, <2>2
<1>5. (n - 1) * TabStop = n * TabStop - TabStop /\ n - 1 \in Nat
  BY <1>3, <1>4, Multiples
<1>6. (n - 1) * TabStop <= u /\ u < (n - 1) * TabStop + TabStop
  BY <1>3, <1>5
<1>7. u \div TabStop = n - 1
  BY <1>5, <1>6, Quotient
<1> QED  BY <1>3, <1>7

-----------------------------------------------------------------------------
(* A step of put_char takes the one writer w to step q with the values     *)
(* u, r, x, y, d, and the call that ends there has done what it promises.  *)
Moved(w, q, u, r, x, y, d) ==
  /\ pc' = [pc EXCEPT ![w] = q] /\ UNCHANGED <<ch, printing>>
  /\ cur' = [cur EXCEPT ![w] = u] /\ reg' = [reg EXCEPT ![w] = r]
  /\ cursor_x' = x /\ cursor_y' = y /\ written' = d

Done(k, u, x, start, d) ==
  start + x = After(u, k) /\ (k = BS /\ u # 0 => start + x = d)

Lands(w, q, u, r, x, y, d) ==
  /\ q \in PCs /\ u \in Int /\ r \in Int /\ d \in Int
  /\ Moved(w, q, u, r, x, y, d)
  /\ Steady(q, ch[w], u, r, x, y, d)
  /\ q = "idle" => Done(ch[w], cur[w], x, y * Columns, written)

Goes(w) == \E q \in PCs, u, r, x, y, d \in Int : Lands(w, q, u, r, x, y, d)

LEMMA Landing ==
  ASSUME NEW w, NEW q, NEW u, NEW r, NEW x, NEW y, NEW d, Lands(w, q, u, r, x, y, d)
  PROVE  Goes(w)
<1>1. x \in Int /\ y \in Int
  BY SizeAssumption DEF Lands, Steady
<1> QED  BY <1>1 DEF Lands, Goes

(* What the one writer knows before its step.                              *)
Going(w) ==
  /\ w \in Writers
  /\ pc \in [Writers -> PCs] /\ ch \in [Writers -> Text]
  /\ cur \in [Writers -> Int] /\ reg \in [Writers -> Int] /\ written \in Int
  /\ Steady(pc[w], ch[w], cur[w], reg[w], cursor_x, cursor_y, written)

LEMMA StepMoves ==
  ASSUME NEW w, Going(w), NEW p, NEW q, NEW v
  PROVE  /\ Load(w, p, v, q) => Moved(w, q, cur[w], v, cursor_x, cursor_y, written)
         /\ Draw(w, p, v, q) => Moved(w, q, cur[w], reg[w], cursor_x, cursor_y, v)
         /\ StoreX(w, p, v, q) /\ q # "idle" => Moved(w, q, cur[w], reg[w], v, cursor_y, written)
         /\ StoreX(w, p, v, q) /\ q = "idle" => Moved(w, q, 0, 0, v, cursor_y, written)
         /\ StoreY(w, p, v, q) /\ q # "idle" => Moved(w, q, cur[w], reg[w], cursor_x, v, written)
         /\ StoreY(w, p, v, q) /\ q = "idle" => Moved(w, q, 0, 0, cursor_x, v, written)
<1>1. cur = [cur EXCEPT ![w] = cur[w]] /\ reg = [reg EXCEPT ![w] = reg[w]]
  BY DEF Going
<1> QED  BY <1>1 DEF Load, Draw, StoreX, StoreY, Goto, Set, Keep, Moved

(* Facts about the cursor that every case uses.                            *)
LEMMA RowFacts ==
  ASSUME NEW w, Going(w)
  PROVE  /\ Columns \in Nat \ {0} /\ TabStop \in Nat \ {0} /\ Columns < Byte /\ Rows < Byte /\ Byte \in Nat
         /\ TabStop <= Columns /\ Columns + TabStop < Byte
         /\ cursor_y \in 0 .. Rows - 1 /\ cursor_x \in 0 .. Columns
         /\ cursor_y * Columns \in Nat /\ cursor_y * Columns + Columns <= Cells /\ Cells \in Nat \ {0}
         /\ cur[w] \in Int /\ reg[w] \in Int /\ written \in Int /\ ch[w] \in Text /\ pc[w] \in PCs
<1> USE SizeAssumption
<1>1. cursor_y \in 0 .. Rows - 1 /\ cursor_x \in 0 .. Columns
  BY DEF Going, Steady
<1>2. cursor_y * Columns \in Nat
  BY <1>1, Multiples
<1>3. cursor_y * Columns + Columns <= Cells /\ Cells \in Nat \ {0}
  <2>1. Cells = Rows * Columns /\ Cells \in Nat \ {0}
    BY DEF Cells
  <2>2. cursor_y * Columns + Columns <= Rows * Columns
    BY <1>1, Ordered
  <2> QED  BY <2>1, <2>2
<1>4. TabStop <= Columns
  <2>1. CASE Columns < TabStop
    <3>1. 0 * TabStop = 0
      OBVIOUS
    <3>2. Columns % TabStop = Columns - 0 * TabStop
      BY <2>1, <3>1, Quotient
    <3> QED  BY <3>1, <3>2
  <2> QED  BY <2>1
<1> QED  BY <1>1, <1>2, <1>3, <1>4 DEF Going

LEMMA LocateGoes ==
  ASSUME NEW w, Going(w), Locate(w)
  PROVE  Goes(w)
<1> USE RowFacts
<1>1. CASE Load(w, "locate_y", cursor_y, "locate_x")
  <2>1. Moved(w, "locate_x", cur[w], cursor_y, cursor_x, cursor_y, written) /\ pc[w] = "locate_y"
    BY <1>1, StepMoves DEF Load, Goto
  <2>2. Steady("locate_x", ch[w], cur[w], cursor_y, cursor_x, cursor_y, written)
    BY <2>1 DEF Going, Steady, Belongs, Loaded, Located, Erasing
  <2> QED  BY <2>1, <2>2, Landing DEF Lands, PCs
<1>2. CASE ~ Load(w, "locate_y", cursor_y, "locate_x")
  <2>1. /\ pc[w] = "locate_x" /\ pc' = [pc EXCEPT ![w] = Case(ch[w])] /\ UNCHANGED <<ch, printing>>
        /\ cur' = [cur EXCEPT ![w] = reg[w] * Columns + cursor_x]
        /\ UNCHANGED <<cursor_x, cursor_y, written, reg>>
    BY <1>2 DEF Locate, Goto, Set
  <2>2. reg[w] = cursor_y /\ cursor_x < Columns
    BY <2>1 DEF Going, Steady, Loaded
  <2> DEFINE u == cursor_y * Columns + cursor_x
             q == Case(ch[w])
  <2>3. Moved(w, q, u, reg[w], cursor_x, cursor_y, written)
    BY <2>1, <2>2 DEF Going, Moved
  <2>4. \/ q = "cell" /\ ch[w] = Plain
        \/ q = "nl" /\ ch[w] = NL
        \/ q = "cr" /\ ch[w] = CR
        \/ q = "bs" /\ ch[w] = BS
        \/ q = "tab" /\ ch[w] = TAB
    BY TextAssumption DEF Case
  <2>5. u \in Int
    OBVIOUS
  <2> HIDE DEF q
  <2>6. Steady(q, ch[w], u, reg[w], cursor_x, cursor_y, written)
    BY <2>2, <2>4 DEF Steady, Belongs, Loaded, Located, Erasing
  <2> HIDE DEF u
  <2> QED  BY <2>3, <2>4, <2>5, <2>6, Landing DEF Lands, PCs
<1> QED  BY <1>1, <1>2

LEMMA NextRowGoes ==
  ASSUME NEW w, Going(w), NextRow(w)
  PROVE  Goes(w)
<1> USE RowFacts
<1>1. CASE Load(w, "row", cursor_y, "row_store")
  <2>1. Moved(w, "row_store", cur[w], cursor_y, cursor_x, cursor_y, written) /\ pc[w] = "row"
    BY <1>1, StepMoves DEF Load, Goto
  <2>2. Steady("row_store", ch[w], cur[w], cursor_y, cursor_x, cursor_y, written)
    BY <2>1 DEF Going, Steady, Belongs, Loaded, Located, Erasing
  <2> QED  BY <2>1, <2>2, Landing DEF Lands, PCs
<1>2. CASE StoreY(w, "row_store", (reg[w] + 1) % Rows, "idle")
  <2> DEFINE y == (cursor_y + 1) % Rows
             start == cursor_y * Columns
  <2>1. pc[w] = "row_store" /\ reg[w] = cursor_y
    BY <1>2 DEF StoreY, Goto, Going, Steady, Loaded
  <2>2. Moved(w, "idle", 0, 0, cursor_x, y, written)
    BY <1>2, <2>1, StepMoves
  <2>3. /\ cursor_x = 0 /\ start <= cur[w] /\ cur[w] < start + Columns
        /\ ch[w] = Plain => cur[w] + 1 = start + Columns
        /\ ch[w] = TAB => start + Columns <= cur[w] + TabStop
        /\ ch[w] \in {Plain, NL, TAB}
    BY <2>1 DEF Going, Steady, Located, Belongs
  <2>4. y \in 0 .. Rows - 1 /\ (start + Columns) % Cells = y * Columns
    BY NextRowStart
  <2>5. Steady("idle", ch[w], 0, 0, cursor_x, y, written)
    <3> HIDE DEF y
    <3> QED  BY <2>3, <2>4 DEF Steady, Belongs, Loaded, Located, Erasing
  <2>6. After(cur[w], ch[w]) = (start + Columns) % Cells
    <3>1. CASE ch[w] = Plain
      BY <2>3, <3>1, TextAssumption DEF After
    <3>2. CASE ch[w] = NL
      <4>1. cur[w] \div Columns = cursor_y
        <5>1. cur[w] \in Nat /\ cursor_y \in Nat
          BY <2>3
        <5> QED  BY <2>3, <5>1, Quotient
      <4>2. (cursor_y + 1) * Columns = start + Columns
        BY Multiples
      <4> QED  BY <3>2, <4>1, <4>2, TextAssumption DEF After
    <3>3. CASE ch[w] = TAB
      <4>1. (cur[w] \div TabStop + 1) * TabStop = start + Columns
        <5>1. cur[w] \in Nat /\ Columns \in 0 .. Columns /\ Columns % TabStop = 0
          BY <2>3, SizeAssumption
        <5> QED  BY <2>3, <3>3, <5>1, TabAfter
      <4> QED  BY <3>3, <4>1, TextAssumption DEF After
    <3> QED  BY <2>3, <3>1, <3>2, <3>3
  <2>7. Done(ch[w], cur[w], cursor_x, y * Columns, written)
    <3>1. y * Columns \in Int /\ ch[w] # BS
      BY <2>3, <2>4, TextAssumption
    <3> HIDE DEF y
    <3> QED  BY <2>3, <2>4, <2>6, <3>1 DEF Done
  <2> HIDE DEF y
  <2> QED  BY <2>2, <2>5, <2>7, Landing DEF Lands, PCs
<1> QED  BY <1>1, <1>2 DEF NextRow

LEMMA AdvanceGoes ==
  ASSUME NEW w, Going(w), Advance(w)
  PROVE  Goes(w)
<1> USE RowFacts
<1> DEFINE start == cursor_y * Columns
<1>1. CASE Draw(w, "cell", cur[w], "advance")
  <2>1. Moved(w, "advance", cur[w], reg[w], cursor_x, cursor_y, cur[w]) /\ pc[w] = "cell"
    BY <1>1, StepMoves DEF Draw, Goto
  <2>2. Steady("advance", ch[w], cur[w], reg[w], cursor_x, cursor_y, cur[w])
    BY <2>1 DEF Going, Steady, Belongs, Loaded, Located, Erasing
  <2> QED  BY <2>1, <2>2, Landing DEF Lands, PCs
<1>2. CASE Load(w, "advance", cursor_x, "advance_store")
  <2>1. Moved(w, "advance_store", cur[w], cursor_x, cursor_x, cursor_y, written) /\ pc[w] = "advance"
    BY <1>2, StepMoves DEF Load, Goto
  <2>2. Steady("advance_store", ch[w], cur[w], cursor_x, cursor_x, cursor_y, written)
    BY <2>1 DEF Going, Steady, Belongs, Loaded, Located, Erasing
  <2> QED  BY <2>1, <2>2, Landing DEF Lands, PCs
<1>3. CASE StoreX(w, "advance_store", (reg[w] + 1) % Columns, "advance_test")
  <2> DEFINE x == (cursor_x + 1) % Columns
  <2>1. pc[w] = "advance_store" /\ reg[w] = cursor_x /\ ch[w] = Plain /\ cursor_x < Columns
        /\ cur[w] = start + cursor_x
    BY <1>3 DEF StoreX, Goto, Going, Steady, Loaded, Belongs, Located
  <2>2. Moved(w, "advance_test", cur[w], reg[w], x, cursor_y, written)
    BY <1>3, <2>1, StepMoves
  <2>3. x \in 0 .. Columns - 1 /\ x = IF cursor_x + 1 = Columns THEN 0 ELSE cursor_x + 1
    BY <2>1
  <2> HIDE DEF x
  <2>4. cur[w] + 1 = IF x = 0 THEN start + Columns ELSE start + x
    BY <2>1, <2>3
  <2>5. Steady("advance_test", ch[w], cur[w], reg[w], x, cursor_y, written)
    BY <2>1, <2>3, <2>4 DEF Steady, Belongs, Loaded, Located, Erasing
  <2> QED  BY <2>2, <2>5, Landing DEF Lands, PCs
<1>4. CASE Branch(w, "advance_test", IF cursor_x = 0 THEN "row" ELSE "idle")
  <2>1. pc[w] = "advance_test" /\ ch[w] = Plain /\ cursor_x < Columns
        /\ cur[w] + 1 = IF cursor_x = 0 THEN start + Columns ELSE start + cursor_x
    BY <1>4 DEF Branch, StoreX, Goto, Going, Steady, Belongs, Located
  <2>2. CASE cursor_x = 0
    <3>1. Moved(w, "row", cur[w], reg[w], cursor_x, cursor_y, written)
      BY <1>4, <2>2, StepMoves DEF Branch
    <3>2. Steady("row", ch[w], cur[w], reg[w], cursor_x, cursor_y, written)
      BY <2>1, <2>2, TextAssumption DEF Steady, Belongs, Loaded, Located, Erasing
    <3> QED  BY <3>1, <3>2, Landing DEF Lands, PCs
  <2>3. CASE cursor_x # 0
    <3>1. Moved(w, "idle", 0, 0, cursor_x, cursor_y, written)
      BY <1>4, <2>3, StepMoves DEF Branch
    <3>2. Steady("idle", ch[w], 0, 0, cursor_x, cursor_y, written)
      BY <2>1 DEF Steady, Belongs, Loaded, Located, Erasing
    <3>3. After(cur[w], ch[w]) = start + cursor_x
      <4>1. After(cur[w], ch[w]) = (cur[w] + 1) % Cells
        BY <2>1, TextAssumption DEF After
      <4>2. cur[w] + 1 = start + cursor_x /\ cur[w] + 1 \in 0 .. Cells - 1
        BY <2>1, <2>3
      <4> QED  BY <4>1, <4>2
    <3>4. Done(ch[w], cur[w], cursor_x, start, written)
      BY <2>1, <3>3, TextAssumption DEF Done
    <3> QED  BY <3>1, <3>2, <3>4, Landing DEF Lands, PCs
  <2> QED  BY <2>2, <2>3
<1> QED  BY <1>1, <1>2, <1>3, <1>4 DEF Advance

LEMMA NewlineGoes ==
  ASSUME NEW w, Going(w), Newline(w)
  PROVE  Goes(w)
<1> USE RowFacts
<1> DEFINE start == cursor_y * Columns
<1>1. CASE StoreX(w, "nl", 0, "row")
  <2>1. Moved(w, "row", cur[w], reg[w], 0, cursor_y, written)
    BY <1>1, StepMoves
  <2>2. pc[w] = "nl" /\ ch[w] = NL /\ cur[w] = start + cursor_x /\ cursor_x < Columns
    BY <1>1 DEF StoreX, Goto, Going, Steady, Belongs, Located
  <2>3. Steady("row", ch[w], cur[w], reg[w], 0, cursor_y, written)
    BY <2>2, TextAssumption DEF Steady, Belongs, Loaded, Located, Erasing
  <2> QED  BY <2>1, <2>3, Landing DEF Lands, PCs
<1>2. CASE StoreX(w, "cr", 0, "idle")
  <2>1. Moved(w, "idle", 0, 0, 0, cursor_y, written)
    BY <1>2, StepMoves
  <2>2. pc[w] = "cr" /\ ch[w] = CR /\ cur[w] = start + cursor_x /\ cursor_x < Columns
    BY <1>2 DEF StoreX, Goto, Going, Steady, Belongs, Located
  <2>3. Steady("idle", ch[w], 0, 0, 0, cursor_y, written)
    BY DEF Steady, Belongs, Loaded, Located, Erasing
  <2>4. cur[w] \div Columns = cursor_y
    <3>1. cur[w] \in Nat /\ cursor_y \in Nat /\ start <= cur[w] /\ cur[w] < start + Columns
      BY <2>2
    <3> QED  BY <3>1, Quotient
  <2>5. Done(ch[w], cur[w], 0, start, written)
    BY <2>2, <2>4, TextAssumption DEF Done, After
  <2> QED  BY <2>1, <2>3, <2>5, Landing DEF Lands, PCs
<1> QED  BY <1>1, <1>2 DEF Newline

LEMMA TabGoes ==
  ASSUME NEW w, Going(w), Tab(w)
  PROVE  Goes(w)
<1> USE RowFacts
<1> DEFINE start == cursor_y * Columns
           t == cursor_x + (TabStop - (cursor_x % TabStop))
<1>1. CASE Load(w, "tab", TabStop - (cursor_x % TabStop), "tab_add")
  <2> DEFINE r == TabStop - (cursor_x % TabStop)
  <2>1. Moved(w, "tab_add", cur[w], r, cursor_x, cursor_y, written) /\ pc[w] = "tab"
    BY <1>1, StepMoves DEF Load, Goto
  <2>2. Steady("tab_add", ch[w], cur[w], r, cursor_x, cursor_y, written) /\ r \in Int
    BY <2>1 DEF Going, Steady, Belongs, Loaded, Located, Erasing
  <2> HIDE DEF r
  <2> QED  BY <2>1, <2>2, Landing DEF Lands, PCs
<1>2. CASE Load(w, "tab_add", reg[w] + cursor_x, "tab_store")
  <2>1. Moved(w, "tab_store", cur[w], reg[w] + cursor_x, cursor_x, cursor_y, written) /\ pc[w] = "tab_add"
    BY <1>2, StepMoves DEF Load, Goto
  <2>2. reg[w] + cursor_x = t /\ t \in Int
    BY <2>1 DEF Going, Steady, Loaded
  <2>3. Steady("tab_store", ch[w], cur[w], t, cursor_x, cursor_y, written)
    BY <2>1 DEF Going, Steady, Belongs, Loaded, Located, Erasing
  <2> HIDE DEF t
  <2> QED  BY <2>1, <2>2, <2>3, Landing DEF Lands, PCs
<1>3. CASE StoreX(w, "tab_store", reg[w] % Byte, "tab_test")
  <2>1. pc[w] = "tab_store" /\ ch[w] = TAB /\ cursor_x < Columns /\ cur[w] = start + cursor_x /\ reg[w] = t
    BY <1>3 DEF StoreX, Goto, Going, Steady, Belongs, Loaded, Located
  <2>2. t \in cursor_x + 1 .. cursor_x + TabStop /\ t \in 0 .. Columns /\ t % TabStop = 0
    BY <2>1, NextTab
  <2> HIDE DEF t
  <2>3. reg[w] % Byte = t
    <3>1. t \in 0 .. Byte - 1 /\ Byte \in Nat \ {0}
      BY <2>2
    <3> QED  BY <2>1, <3>1, Small
  <2>4. Moved(w, "tab_test", cur[w], reg[w], t, cursor_y, written)
    BY <1>3, <2>3, StepMoves
  <2>5. start <= cur[w] /\ cur[w] < start + t /\ start + t <= cur[w] + TabStop
    BY <2>1, <2>2
  <2>6. Steady("tab_test", ch[w], cur[w], reg[w], t, cursor_y, written)
    BY <2>1, <2>2, <2>5 DEF Steady, Belongs, Loaded, Located, Erasing
  <2> QED  BY <2>4, <2>6, Landing DEF Lands, PCs
<1>4. CASE Branch(w, "tab_test", IF cursor_x >= Columns THEN "tab_wrap" ELSE "idle")
  <2>1. /\ pc[w] = "tab_test" /\ ch[w] = TAB /\ cursor_x % TabStop = 0
        /\ start <= cur[w] /\ cur[w] < start + cursor_x /\ start + cursor_x <= cur[w] + TabStop
    BY <1>4 DEF Branch, StoreX, Goto, Going, Steady, Belongs, Located
  <2>2. CASE cursor_x >= Columns
    <3>1. Moved(w, "tab_wrap", cur[w], reg[w], cursor_x, cursor_y, written)
      BY <1>4, <2>2, StepMoves DEF Branch
    <3>2. Steady("tab_wrap", ch[w], cur[w], reg[w], cursor_x, cursor_y, written)
      BY <2>1, <2>2 DEF Steady, Belongs, Loaded, Located, Erasing
    <3> QED  BY <3>1, <3>2, Landing DEF Lands, PCs
  <2>3. CASE ~ (cursor_x >= Columns)
    <3>1. Moved(w, "idle", 0, 0, cursor_x, cursor_y, written)
      BY <1>4, <2>3, StepMoves DEF Branch
    <3>2. Steady("idle", ch[w], 0, 0, cursor_x, cursor_y, written)
      BY <2>3 DEF Steady, Belongs, Loaded, Located, Erasing
    <3>3. After(cur[w], ch[w]) = start + cursor_x
      <4>1. cur[w] \in Nat
        BY <2>1
      <4>2. (cur[w] \div TabStop + 1) * TabStop = start + cursor_x
        BY <2>1, <4>1, TabAfter
      <4>3. start + cursor_x \in 0 .. Cells - 1
        BY <2>3
      <4>4. (start + cursor_x) % Cells = start + cursor_x
        BY <4>3, Small
      <4> QED  BY <2>1, <4>2, <4>4, TextAssumption DEF After
    <3>4. Done(ch[w], cur[w], cursor_x, start, written)
      BY <2>1, <3>3, TextAssumption DEF Done
    <3> QED  BY <3>1, <3>2, <3>4, Landing DEF Lands, PCs
  <2> QED  BY <2>2, <2>3
<1>5. CASE StoreX(w, "tab_wrap", 0, "row")
  <2>1. /\ pc[w] = "tab_wrap" /\ ch[w] = TAB /\ cursor_x = Columns
        /\ start <= cur[w] /\ cur[w] < start + cursor_x /\ start + cursor_x <= cur[w] + TabStop
    BY <1>5 DEF StoreX, Goto, Going, Steady, Belongs, Located
  <2>2. Moved(w, "row", cur[w], reg[w], 0, cursor_y, written)
    BY <1>5, StepMoves
  <2>3. Steady("row", ch[w], cur[w], reg[w], 0, cursor_y, written)
    BY <2>1, TextAssumption DEF Steady, Belongs, Loaded, Located, Erasing
  <2> QED  BY <2>2, <2>3, Landing DEF Lands, PCs
<1> QED  BY <1>1, <1>2, <1>3, <1>4, <1>5 DEF Tab

LEMMA BackspaceGoes ==
  ASSUME NEW w, Going(w), Backspace(w)
  PROVE  Goes(w)
<1> USE RowFacts
<1> DEFINE start == cursor_y * Columns
<1>1. CASE Draw(w, "bs", cur[w] - 1, "bs_test_x")
  <2>1. Moved(w, "bs_test_x", cur[w], reg[w], cursor_x, cursor_y, cur[w] - 1) /\ pc[w] = "bs"
    BY <1>1, StepMoves DEF Draw, Goto
  <2>2. Steady("bs_test_x", ch[w], cur[w], reg[w], cursor_x, cursor_y, cur[w] - 1)
    BY <2>1 DEF Going, Steady, Belongs, Loaded, Located, Erasing
  <2> QED  BY <2>1, <2>2, Landing DEF Lands, PCs
<1>2. CASE Branch(w, "bs_test_x", IF cursor_x = 0 THEN "bs_test_y" ELSE "bs_left")
  <2> DEFINE q == IF cursor_x = 0 THEN "bs_test_y" ELSE "bs_left"
  <2>1. Moved(w, q, cur[w], reg[w], cursor_x, cursor_y, written) /\ pc[w] = "bs_test_x" /\ q \in PCs /\ q # "idle"
    BY <1>2, StepMoves DEF Branch, StoreX, Goto, PCs
  <2>2. Steady(q, ch[w], cur[w], reg[w], cursor_x, cursor_y, written)
    BY <2>1 DEF Going, Steady, Belongs, Loaded, Located, Erasing
  <2> HIDE DEF q
  <2> QED  BY <2>1, <2>2, Landing DEF Lands
<1>3. CASE Branch(w, "bs_test_y", IF cursor_y > 0 THEN "bs_up" ELSE "bs_left")
  <2> DEFINE q == IF cursor_y > 0 THEN "bs_up" ELSE "bs_left"
  <2>1. Moved(w, q, cur[w], reg[w], cursor_x, cursor_y, written) /\ pc[w] = "bs_test_y" /\ q \in PCs /\ q # "idle"
    BY <1>3, StepMoves DEF Branch, StoreX, Goto, PCs
  <2>2. Steady(q, ch[w], cur[w], reg[w], cursor_x, cursor_y, written)
    BY <2>1 DEF Going, Steady, Belongs, Loaded, Located, Erasing
  <2> HIDE DEF q
  <2> QED  BY <2>1, <2>2, Landing DEF Lands
<1>4. CASE Load(w, "bs_up", cursor_y, "bs_up_store")
  <2>1. Moved(w, "bs_up_store", cur[w], cursor_y, cursor_x, cursor_y, written) /\ pc[w] = "bs_up"
    BY <1>4, StepMoves DEF Load, Goto
  <2>2. Steady("bs_up_store", ch[w], cur[w], cursor_y, cursor_x, cursor_y, written)
    BY <2>1 DEF Going, Steady, Belongs, Loaded, Located, Erasing
  <2> QED  BY <2>1, <2>2, Landing DEF Lands, PCs
<1>5. CASE StoreY(w, "bs_up_store", (reg[w] - 1) % Byte, "bs_end")
  <2>1. /\ pc[w] = "bs_up_store" /\ ch[w] = BS /\ reg[w] = cursor_y /\ cursor_x = 0 /\ cursor_y > 0
        /\ cur[w] = start + cursor_x /\ written = cur[w] - 1
    BY <1>5 DEF StoreY, Goto, Going, Steady, Belongs, Loaded, Located, Erasing
  <2> DEFINE y == cursor_y - 1
  <2>2. (reg[w] - 1) % Byte = y /\ y \in 0 .. Rows - 1
    <3>1. y \in 0 .. Rows - 1 /\ y \in 0 .. Byte - 1 /\ reg[w] - 1 = y /\ Byte \in Nat \ {0}
      BY <2>1, SizeAssumption
    <3> HIDE DEF y
    <3> QED  BY <3>1, Small
  <2>3. Moved(w, "bs_end", cur[w], reg[w], cursor_x, y, written)
    BY <1>5, <2>2, StepMoves
  <2>4. cur[w] = y * Columns + Columns
    BY <2>1, Multiples
  <2> HIDE DEF y
  <2>5. Steady("bs_end", ch[w], cur[w], reg[w], cursor_x, y, written)
    BY <2>1, <2>2, <2>4 DEF Steady, Belongs, Loaded, Located, Erasing
  <2> QED  BY <2>3, <2>5, Landing DEF Lands, PCs
<1>6. CASE StoreX(w, "bs_end", Columns - 1, "idle")
  <2>1. pc[w] = "bs_end" /\ ch[w] = BS /\ cur[w] = start + Columns /\ written = cur[w] - 1
    BY <1>6 DEF StoreX, Goto, Going, Steady, Belongs, Located, Erasing
  <2> DEFINE x == Columns - 1
  <2>2. Moved(w, "idle", 0, 0, x, cursor_y, written)
    BY <1>6, StepMoves
  <2>3. Steady("idle", ch[w], 0, 0, x, cursor_y, written)
    BY DEF Steady, Belongs, Loaded, Located, Erasing
  <2>4. Done(ch[w], cur[w], x, start, written)
    BY <2>1, TextAssumption DEF Done, After
  <2> QED  BY <2>2, <2>3, <2>4, Landing DEF Lands, PCs
<1>7. CASE Branch(w, "bs_left", IF cursor_x > 0 THEN "bs_dec" ELSE "idle")
  <2>1. /\ pc[w] = "bs_left" /\ ch[w] = BS /\ cur[w] = start + cursor_x /\ cursor_x < Columns
        /\ cursor_x = 0 => cursor_y = 0
    BY <1>7 DEF Branch, StoreX, Goto, Going, Steady, Belongs, Located, Erasing
  <2>2. CASE cursor_x > 0
    <3>1. Moved(w, "bs_dec", cur[w], reg[w], cursor_x, cursor_y, written)
      BY <1>7, <2>2, StepMoves DEF Branch
    <3>2. Steady("bs_dec", ch[w], cur[w], reg[w], cursor_x, cursor_y, written)
      BY <2>1, <2>2 DEF Going, Steady, Belongs, Loaded, Located, Erasing
    <3> QED  BY <3>1, <3>2, Landing DEF Lands, PCs
  <2>3. CASE ~ (cursor_x > 0)
    <3>1. Moved(w, "idle", 0, 0, cursor_x, cursor_y, written)
      BY <1>7, <2>3, StepMoves DEF Branch
    <3>2. Steady("idle", ch[w], 0, 0, cursor_x, cursor_y, written)
      BY <2>1 DEF Steady, Belongs, Loaded, Located, Erasing
    <3>3. start + cursor_x = 0 /\ cur[w] = 0
      <4>1. 0 * Columns = 0 /\ cursor_x = 0 /\ cursor_y = 0
        BY <2>1, <2>3
      <4> QED  BY <2>1, <4>1
    <3>4. Done(ch[w], cur[w], cursor_x, start, written)
      BY <2>1, <3>3, TextAssumption DEF Done, After
    <3> QED  BY <3>1, <3>2, <3>4, Landing DEF Lands, PCs
  <2> QED  BY <2>2, <2>3
<1>8. CASE Load(w, "bs_dec", cursor_x, "bs_dec_store")
  <2>1. Moved(w, "bs_dec_store", cur[w], cursor_x, cursor_x, cursor_y, written) /\ pc[w] = "bs_dec"
    BY <1>8, StepMoves DEF Load, Goto
  <2>2. Steady("bs_dec_store", ch[w], cur[w], cursor_x, cursor_x, cursor_y, written)
    BY <2>1 DEF Going, Steady, Belongs, Loaded, Located, Erasing
  <2> QED  BY <2>1, <2>2, Landing DEF Lands, PCs
<1>9. CASE StoreX(w, "bs_dec_store", (reg[w] - 1) % Byte, "idle")
  <2>1. /\ pc[w] = "bs_dec_store" /\ ch[w] = BS /\ reg[w] = cursor_x /\ cursor_x > 0 /\ cursor_x < Columns
        /\ cur[w] = start + cursor_x /\ written = cur[w] - 1
    BY <1>9 DEF StoreX, Goto, Going, Steady, Belongs, Loaded, Located, Erasing
  <2> DEFINE x == cursor_x - 1
  <2>2. (reg[w] - 1) % Byte = x /\ x \in 0 .. Columns - 1
    BY <2>1
  <2>3. Moved(w, "idle", 0, 0, x, cursor_y, written)
    BY <1>9, <2>2, StepMoves
  <2>4. Steady("idle", ch[w], 0, 0, x, cursor_y, written)
    BY <2>2 DEF Steady, Belongs, Loaded, Located, Erasing
  <2>5. Done(ch[w], cur[w], x, start, written)
    BY <2>1, TextAssumption DEF Done, After
  <2> QED  BY <2>3, <2>4, <2>5, Landing DEF Lands, PCs
<1> QED  BY <1>1, <1>2, <1>3, <1>4, <1>5, <1>6, <1>7, <1>8, <1>9 DEF Backspace, BackUp

-----------------------------------------------------------------------------
(* The inductive invariant of one task alone.                              *)
LEMMA AloneInit == Init => AloneInv
<1> SUFFICES ASSUME Init, Alone PROVE AloneInv
  BY DEF AloneInv
<1>1. PICK w \in Writers : printing = {w}
  BY DEF Init, Alone
<1>2. Steady(pc[w], ch[w], cur[w], reg[w], cursor_x, cursor_y, written)
  BY SizeAssumption DEF Init, Steady, Belongs, Loaded, Located, Erasing
<1>3. pc \in [Writers -> PCs] /\ ch \in [Writers -> Text]
      /\ cur \in [Writers -> Int] /\ reg \in [Writers -> Int] /\ written \in Int
  BY DEF Init, PCs
<1> QED  BY <1>1, <1>2, <1>3 DEF Init, AloneInv

LEMMA PrintingKept == [Next]_vars => printing' = printing
BY DEF Next, Call, put_char, Locate, NextRow, Advance, Newline, Backspace, BackUp, Tab, Load,
   StoreX, StoreY, Draw, Branch, Goto, vars

LEMMA IdleWaits == ASSUME NEW w, pc[w] = "idle" PROVE ~ put_char(w)
BY DEF put_char, Locate, NextRow, Advance, Newline, Backspace, BackUp, Tab, Load, StoreX, StoreY,
   Draw, Branch, Goto

(* Only the one task steps, and put_char lands where it should.            *)
LEMMA OneSteps ==
  ASSUME AloneInv, Alone, NEW v \in Writers, put_char(v)
  PROVE  printing = {v} /\ Going(v) /\ Goes(v) /\ \A u \in Writers \ {v} : pc[u] = "idle"
<1>1. PICK w \in Writers : printing = {w} /\ \A u \in Writers \ {w} : pc[u] = "idle"
  BY DEF AloneInv
<1>2. v = w
  BY <1>1, IdleWaits
<1>3. Going(v)
  BY <1>1, <1>2 DEF AloneInv, Going
<1>4. Goes(v)
  BY <1>3, LocateGoes, NextRowGoes, AdvanceGoes, NewlineGoes, TabGoes, BackspaceGoes DEF put_char
<1> QED  BY <1>1, <1>2, <1>3, <1>4

LEMMA AloneStep == AloneInv /\ [Next]_vars => AloneInv'
<1> SUFFICES ASSUME AloneInv, [Next]_vars, Alone PROVE AloneInv'
  BY PrintingKept DEF AloneInv, Alone
<1>1. printing' = printing
  BY PrintingKept
<1>2. ASSUME NEW v \in Writers, put_char(v) PROVE AloneInv'
  <2>1. printing = {v} /\ Going(v) /\ Goes(v) /\ \A u \in Writers \ {v} : pc[u] = "idle"
    BY <1>2, OneSteps
  <2>2. PICK q \in PCs, u \in Int, r \in Int, x \in Int, y \in Int, d \in Int : Lands(v, q, u, r, x, y, d)
    BY <2>1 DEF Goes
  <2>3. /\ pc' \in [Writers -> PCs] /\ ch' \in [Writers -> Text]
        /\ cur' \in [Writers -> Int] /\ reg' \in [Writers -> Int] /\ written' \in Int
    BY <2>1, <2>2 DEF Going, Lands, Moved
  <2>4. Steady(pc'[v], ch'[v], cur'[v], reg'[v], cursor_x', cursor_y', written')
    <3>1. /\ pc'[v] = q /\ ch'[v] = ch[v] /\ cur'[v] = u /\ reg'[v] = r
          /\ cursor_x' = x /\ cursor_y' = y /\ written' = d
      BY <2>1, <2>2 DEF Going, Lands, Moved
    <3>2. Steady(q, ch[v], u, r, x, y, d)
      BY <2>2 DEF Lands
    <3> QED  BY <3>1, <3>2
  <2>5. \A z \in Writers \ {v} : pc'[z] = "idle"
    BY <2>1, <2>2 DEF Going, Lands, Moved
  <2> QED  BY <1>1, <2>1, <2>3, <2>4, <2>5 DEF AloneInv
<1>3. ASSUME NEW v \in Writers, Call(v) PROVE AloneInv'
  <2>1. printing = {v} /\ \A u \in Writers \ {v} : pc[u] = "idle"
    BY <1>3 DEF AloneInv, Call
  <2>2. PICK c \in Text : ch' = [ch EXCEPT ![v] = c]
    BY <1>3 DEF Call, Set
  <2>3. pc[v] = "idle" /\ pc' = [pc EXCEPT ![v] = "locate_y"] /\ UNCHANGED <<cursor_x, cursor_y, written, cur, reg>>
    BY <1>3 DEF Call, Set
  <2>4. /\ pc' \in [Writers -> PCs] /\ ch' \in [Writers -> Text]
        /\ cur' \in [Writers -> Int] /\ reg' \in [Writers -> Int] /\ written' \in Int
    BY <2>2, <2>3 DEF AloneInv, PCs
  <2>5. Steady("locate_y", c, cur[v], reg[v], cursor_x, cursor_y, written)
    <3>1. Steady("idle", ch[v], cur[v], reg[v], cursor_x, cursor_y, written)
      BY <2>1, <2>3 DEF AloneInv
    <3> QED  BY <3>1 DEF Steady, Belongs, Loaded, Located, Erasing
  <2>6. pc'[v] = "locate_y" /\ ch'[v] = c /\ \A z \in Writers \ {v} : pc'[z] = "idle"
    BY <2>1, <2>2, <2>3 DEF AloneInv
  <2>7. Steady(pc'[v], ch'[v], cur'[v], reg'[v], cursor_x', cursor_y', written')
    BY <2>3, <2>5, <2>6
  <2> QED  BY <1>1, <2>1, <2>4, <2>6, <2>7 DEF AloneInv
<1>4. CASE UNCHANGED vars
  BY <1>4 DEF AloneInv, vars, Alone
<1> QED  BY <1>2, <1>3, <1>4 DEF Next

(* What a call that returns has done.                                      *)
LEMMA ReturnDone ==
  ASSUME AloneInv, [Next]_vars, NEW w \in Writers, Alone, Returns(w)
  PROVE  Cursor' = After(cur[w], ch[w]) /\ (ch[w] = BS /\ cur[w] # 0 => Cursor' = written)
<1>1. put_char(w)
  <2>1. PICK v \in Writers : Call(v) \/ put_char(v)
    BY DEF Next, Returns, vars
  <2>2. CASE Call(v)
    BY <2>2 DEF Call, Set, Returns, AloneInv
  <2>3. CASE put_char(v)
    <3>1. \A u \in Writers \ {v} : pc[u] = "idle"
      BY <2>3, OneSteps
    <3> QED  BY <2>3, <3>1 DEF Returns
  <2> QED  BY <2>1, <2>2, <2>3
<1>2. Going(w) /\ Goes(w)
  BY <1>1, OneSteps
<1>3. PICK q \in PCs, u \in Int, r \in Int, x \in Int, y \in Int, d \in Int : Lands(w, q, u, r, x, y, d)
  BY <1>2 DEF Goes
<1>4. q = "idle" /\ cursor_x' = x /\ cursor_y' = y
  BY <1>2, <1>3 DEF Going, Lands, Moved, Returns
<1>5. Done(ch[w], cur[w], x, y * Columns, written)
  BY <1>3, <1>4 DEF Lands
<1>6. Cursor' = y * Columns + x
  BY <1>4 DEF Cursor
<1> QED  BY <1>4, <1>5, <1>6 DEF Done

(* One task alone: put_char moves the cursor as a terminal does.           *)
THEOREM MovesLikeATerminal == Spec => PutCharMovesOn
<1>1. AloneInv /\ [Next]_vars =>
        [\A w \in Writers : Alone /\ Returns(w) => Cursor' = After(cur[w], ch[w])]_vars
  BY ReturnDone
<1> QED  BY <1>1, AloneInit, AloneStep, PTL DEF Spec, PutCharMovesOn

(* One task alone: a backspace ends on the cell it blanked.                *)
THEOREM ErasesBehind == Spec => BackspaceErases
<1>1. AloneInv /\ [Next]_vars =>
        [\A w \in Writers : Alone /\ Returns(w) /\ ch[w] = BS /\ cur[w] # 0 => Cursor' = written]_vars
  BY ReturnDone
<1> QED  BY <1>1, AloneInit, AloneStep, PTL DEF Spec, BackspaceErases

(* Whoever printed, the cursor is left on the screen.                      *)
THEOREM LeftOnScreen == Spec => []CursorOnScreen
<1>1. SharedInv /\ AloneInv => CursorOnScreen
  <2> SUFFICES ASSUME SharedInv, AloneInv, \A w \in Writers : pc[w] = "idle"
               PROVE  cursor_x < Columns /\ cursor_y < Rows
    BY DEF CursorOnScreen
  <2>1. CASE ~ Alone
    BY <2>1, SizeAssumption DEF SharedInv, OnScreen
  <2>2. CASE Alone
    <3>1. PICK w \in Writers : printing = {w}
      BY <2>2 DEF AloneInv
    <3>2. Steady("idle", ch[w], cur[w], reg[w], cursor_x, cursor_y, written)
      BY <2>2, <3>1 DEF AloneInv
    <3> QED  BY <3>2, SizeAssumption DEF Steady
  <2> QED  BY <2>1, <2>2
<1> QED  BY <1>1, SharedInit, SharedStep, AloneInit, AloneStep, PTL DEF Spec
=============================================================================
