-------------------------- MODULE KernelHeapProofs --------------------------
(***************************************************************************)
(* For every width, table size and set of callers: the allocator keeps its *)
(* types, its rows stay in step with what the callers own, a request that  *)
(* fails costs nobody anything, and no two callers own a common byte until *)
(* the 16-bit high-water mark wraps.                                       *)
(***************************************************************************)
EXTENDS KernelHeap, FiniteSetTheorems, TLAPS

Used(i) == table[i].offset # FREE
Off(h)  == held[h].ptr - HeapBase

(* The strengthening of DisjointUntilWrap.  Blocks are compared through    *)
(* the rows that record them: rows lie below heap_top and apart from each  *)
(* other, every owner's bytes lie inside the row with its offset, and no   *)
(* two owners hold the same pointer.                                       *)
Untouched      == ~ initialized => given = 0 /\ \A h \in Owners : ~ Live(h)
TopIsGiven     == initialized => heap_top = given
RowsInside     == initialized => \A i \in Slots : Used(i) =>
                    table[i].size > 0 /\ table[i].offset + table[i].size <= given
RowsApart      == initialized => \A i, j \in Slots : i # j /\ Used(i) /\ Used(j) =>
                    \/ table[i].offset + table[i].size <= table[j].offset
                    \/ table[j].offset + table[j].size <= table[i].offset
Recorded       == \A h \in Owners : Live(h) => \E i \in Slots :
                    /\ Used(i)
                    /\ table[i].offset = Off(h)
                    /\ held[h].len <= table[i].size
OwnersDistinct == \A g, h \in Owners :
                    g # h /\ Live(g) /\ Live(h) => held[g].ptr # held[h].ptr

BelowWrap == TopIsGiven /\ RowsInside /\ RowsApart /\ Recorded /\ OwnersDistinct
HeapInv   == TypeOK /\ Untouched /\ (given < Width => BelowWrap)

-----------------------------------------------------------------------------
(* A size that leaves the total below the width is rounded up, not wrapped. *)
LEMMA AlignedFits ==
  ASSUME NEW n \in Word, n + (n % 2) < Width
  PROVE  Aligned(n) = n + (n % 2)
  BY WidthAssumption DEF Word, Aligned

LEMMA AlignedInWord ==
  ASSUME NEW n \in Word
  PROVE  Aligned(n) \in Word /\ n + (n % 2) \in Nat /\ n + (n % 2) >= n
  BY WidthAssumption DEF Word, Aligned

(* The offset of a pointer is recovered from it when it did not wrap.      *)
LEMMA OffsetRecovered ==
  ASSUME NEW o \in Word
  PROVE  OffsetOf(HeapBase + o) = o
  BY WidthAssumption, HeapAssumption DEF Word, OffsetOf

LEMMA TableTypes ==
  ASSUME TypeOK
  PROVE  /\ FreeRow \in Row
         /\ InitTable \in [Slots -> Row]
         /\ InitTop \in Word
         /\ \A i \in Slots, n \in Word : Taken(i, n) \in [Slots -> Row]
  <1>1. FreeRow \in Row /\ 0 \in Word
    BY WidthAssumption DEF FreeRow, Row, Word, FREE
  <1>2. InitTable \in [Slots -> Row] /\ InitTop \in Word
    BY <1>1 DEF TypeOK, InitTable, InitTop
  <1>3. ASSUME NEW i \in Slots, NEW n \in Word
        PROVE  Taken(i, n) \in [Slots -> Row]
    <2>1. Aligned(n) \in Word
      BY AlignedInWord
    <2>2. [offset |-> InitTop, size |-> Aligned(n)] \in Row
      BY <1>2, <2>1 DEF Row
    <2> QED  BY <1>2, <2>2 DEF Taken
  <1> QED  BY <1>1, <1>2, <1>3

LEMMA GiveTypes ==
  ASSUME TypeOK, NEW h \in Owners, NEW n \in Sizes, Give(h, n)
  PROVE  /\ heap_top' \in Word
         /\ initialized' \in BOOLEAN
         /\ held' \in [Owners -> [ptr : Nat, len : Word]]
         /\ given' \in Nat
  <1>1. n \in Word /\ Aligned(n) \in Word /\ n + (n % 2) \in Nat
    BY AlignedInWord, RequestAssumption
  <1>2. InitTop \in Word
    BY TableTypes
  <1>3. heap_top' \in Word
    BY <1>1, <1>2, WidthAssumption DEF Give, Word
  <1>4. [ptr |-> HeapBase + InitTop, len |-> n] \in [ptr : Nat, len : Word]
    BY <1>1, <1>2, HeapAssumption DEF Word
  <1>5. held' \in [Owners -> [ptr : Nat, len : Word]]
    BY <1>4 DEF Give, TypeOK
  <1>6. given' = given + n + (n % 2) /\ given \in Nat
    BY DEF Give, TypeOK
  <1>7. given' \in Nat
    BY <1>6, <1>1, WidthAssumption DEF Word
  <1> QED  BY <1>3, <1>5, <1>7 DEF Give

LEMMA RefuseTypes ==
  ASSUME TypeOK, NEW n \in Sizes, Refuse(n)
  PROVE  TypeOK'
  <1>1. MallocError(n) \in Errors
    <2>1. n \in Word /\ Aligned(n) \in Word
      BY AlignedInWord, RequestAssumption
    <2>2. InitTop \in Word
      BY TableTypes
    <2>3. \/ HeapBase + InitTop + Aligned(n) > HeapBase + HeapSize
          \/ HeapBase + InitTop + Aligned(n) <= HeapBase + HeapSize
      BY <2>1, <2>2, HeapAssumption DEF Word
    <2> QED  BY <2>3 DEF MallocError, Errors
  <1> QED  BY <1>1, TableTypes DEF Refuse, TypeOK

LEMMA TypeStep ==
  ASSUME TypeOK, [Next]_vars
  PROVE  TypeOK'
  <1>1. CASE free_unknown \/ realloc_unknown
    BY <1>1 DEF free_unknown, realloc_unknown, NotFound, TypeOK, Errors
  <1>2. ASSUME NEW h \in Owners, free(h)
        PROVE  TypeOK'
    <2>1. FreeRow \in Row
      BY TableTypes
    <2>2. NoBlock \in [ptr : Nat, len : Word]
      BY WidthAssumption DEF NoBlock, Word
    <2> QED  BY <1>2, <2>1, <2>2 DEF free, TypeOK, Errors
  <1>3. ASSUME NEW h \in Owners, NEW n \in Sizes, malloc(h, n)
        PROVE  TypeOK'
    <2>1. CASE Refuse(n)
      BY <2>1, RefuseTypes
    <2>2. CASE ~ Refuse(n)
      <3>1. PICK i \in Slots : table' = Taken(i, n)
        BY <1>3, <2>2 DEF malloc
      <3>2. table' \in [Slots -> Row]
        BY <3>1, TableTypes, RequestAssumption
      <3> QED  BY <1>3, <2>2, <3>2, GiveTypes DEF malloc, TypeOK, Errors
    <2> QED  BY <2>1, <2>2
  <1>4. ASSUME NEW h \in Owners, NEW n \in Sizes, ReallocInPlace(h, n)
        PROVE  TypeOK'
    <2>1. held' \in [Owners -> [ptr : Nat, len : Word]]
      BY <1>4, RequestAssumption DEF ReallocInPlace, TypeOK
    <2> QED  BY <1>4, <2>1 DEF ReallocInPlace, TypeOK, Errors
  <1>5. ASSUME NEW h \in Owners, NEW n \in Sizes, ReallocMove(h, n)
        PROVE  TypeOK'
    <2>1. CASE Refuse(n)
      BY <2>1, RefuseTypes
    <2>2. CASE ~ Refuse(n)
      <3>1. PICK i \in Slots, j \in Slots : table' = [Taken(i, n) EXCEPT ![j] = FreeRow]
        BY <1>5, <2>2 DEF ReallocMove
      <3>2. table' \in [Slots -> Row]
        BY <3>1, TableTypes, RequestAssumption
      <3> QED  BY <1>5, <2>2, <3>2, GiveTypes DEF ReallocMove, TypeOK, Errors
    <2> QED  BY <2>1, <2>2
  <1>6. CASE UNCHANGED vars
    BY <1>6 DEF vars, TypeOK
  <1> QED  BY <1>1, <1>2, <1>3, <1>4, <1>5, <1>6 DEF Next, realloc

-----------------------------------------------------------------------------
(* What the rows and the new block look like when malloc takes row i.      *)
LEMMA TakenRow ==
  ASSUME HeapInv, NEW h \in Owners, NEW n \in Sizes, NEW i \in Slots,
         First(i, Rows(InitTable, FREE)), Give(h, n), given' < Width
  PROVE  /\ given < Width /\ InitTop = given
         /\ Aligned(n) = n + (n % 2) /\ n \in Word
         /\ given' = given + Aligned(n) /\ given \in Nat /\ Aligned(n) \in Nat
         /\ heap_top' = given'
         /\ Taken(i, n)[i] = [offset |-> given, size |-> Aligned(n)]
         /\ InitTable[i].offset = FREE
         /\ \A j \in Slots : j # i => Taken(i, n)[j] = InitTable[j]
  <1>1. n \in Word /\ n + (n % 2) \in Nat /\ given \in Nat /\ given' = given + (n + (n % 2))
    BY AlignedInWord, RequestAssumption, WidthAssumption DEF Give, HeapInv, TypeOK, Word
  <1>2. given < Width /\ n + (n % 2) < Width
    BY <1>1, WidthAssumption
  <1>3. Aligned(n) = n + (n % 2)
    BY <1>1, <1>2, AlignedFits
  <1>4. InitTop = given
    BY <1>2 DEF InitTop, HeapInv, Untouched, BelowWrap, TopIsGiven
  <1>5. heap_top' = given'
    BY <1>1, <1>3, <1>4, WidthAssumption DEF Give
  <1>6. InitTable \in [Slots -> Row]
    BY TableTypes DEF HeapInv
  <1>7. InitTable[i].offset = FREE
    BY DEF First, Rows
  <1> QED  BY <1>1, <1>2, <1>3, <1>4, <1>5, <1>6, <1>7 DEF Taken

(* The rows in use before malloc, seen through mem_init.                   *)
LEMMA InitTableUsed ==
  ASSUME HeapInv, given < Width
  PROVE  /\ \A j \in Slots : InitTable[j].offset # FREE =>
                initialized /\ InitTable[j] = table[j] /\ Used(j)
         /\ \A h \in Owners : Live(h) => initialized
  BY DEF HeapInv, Untouched, InitTable, FreeRow, Used

LEMMA InitInv == Init => HeapInv
  <1> SUFFICES ASSUME Init PROVE HeapInv
    OBVIOUS
  <1>1. TypeOK
    <2>1. 0 \in Word
      BY WidthAssumption DEF Word
    <2>2. table \in [Slots -> Row]
      BY RequestAssumption DEF Init
    <2>3. held \in [Owners -> [ptr : Nat, len : Word]]
      BY <2>1 DEF Init, NoBlock
    <2> QED  BY <2>1, <2>2, <2>3 DEF Init, TypeOK, Errors
  <1>2. \A h \in Owners : ~ Live(h)
    BY DEF Init, Live
  <1> QED
    BY <1>1, <1>2 DEF Init, HeapInv, Untouched, BelowWrap, TopIsGiven, RowsInside,
       RowsApart, Recorded, OwnersDistinct

(* A new block lies in the bytes from given to given', above every row in  *)
(* use; the rows that stay and the owners other than h are as before.      *)
LEMMA NewBlock ==
  ASSUME HeapInv, NEW h \in Owners, NEW n \in Sizes, n # 0, NEW i \in Slots,
         First(i, Rows(InitTable, FREE)), Give(h, n), given' < Width,
         table'[i] = [offset |-> given, size |-> Aligned(n)],
         \A j \in Slots : j # i /\ Used(j)' =>
            initialized /\ Used(j) /\ table'[j] = table[j],
         \A g \in Owners : g # h /\ Live(g) => \E j \in Slots :
            /\ j # i /\ Used(j) /\ table'[j] = table[j]
            /\ table[j].offset = Off(g) /\ held[g].len <= table[j].size
  PROVE  BelowWrap'
  <1>1. /\ given < Width /\ InitTop = given /\ n \in Word
        /\ Aligned(n) = n + (n % 2)
        /\ given' = given + Aligned(n) /\ given \in Nat /\ Aligned(n) \in Nat
        /\ heap_top' = given'
    BY TakenRow
  <1>2. Aligned(n) > 0 /\ n <= Aligned(n) /\ given < FREE
    BY <1>1, WidthAssumption DEF Word, FREE
  <1>3. \A j \in Slots : Used(j)' /\ j # i =>
            /\ initialized /\ table'[j] = table[j] /\ Used(j)
            /\ table[j] \in Row
            /\ table[j].size > 0 /\ table[j].offset + table[j].size <= given
    BY <1>1 DEF HeapInv, TypeOK, BelowWrap, RowsInside
  <1>4. TopIsGiven'
    BY <1>1 DEF TopIsGiven
  <1>5. RowsInside'
    <2> SUFFICES ASSUME NEW j \in Slots, Used(j)'
                 PROVE  table'[j].size > 0 /\ table'[j].offset + table'[j].size <= given'
      BY DEF RowsInside
    <2>1. CASE j = i
      BY <2>1, <1>1, <1>2
    <2>2. CASE j # i
      BY <2>2, <1>1, <1>3 DEF Row, Word
    <2> QED  BY <2>1, <2>2
  <1>6. RowsApart'
    <2> SUFFICES ASSUME NEW j \in Slots, NEW k \in Slots, j # k, Used(j)', Used(k)'
                 PROVE  \/ table'[j].offset + table'[j].size <= table'[k].offset
                        \/ table'[k].offset + table'[k].size <= table'[j].offset
      BY DEF RowsApart
    <2>1. CASE j = i
      BY <2>1, <1>1, <1>3
    <2>2. CASE k = i
      BY <2>2, <1>1, <1>3
    <2>3. CASE j # i /\ k # i
      BY <2>3, <1>1, <1>3 DEF HeapInv, BelowWrap, RowsApart
    <2> QED  BY <2>1, <2>2, <2>3
  <1>7. /\ held'[h] = [ptr |-> HeapBase + given, len |-> n]
        /\ \A g \in Owners : g # h => held'[g] = held[g] /\ (Live(g)' => Live(g))
    BY <1>1 DEF Give, HeapInv, TypeOK, Live
  <1>8. Recorded'
    <2> SUFFICES ASSUME NEW g \in Owners, Live(g)'
                 PROVE  \E j \in Slots : /\ Used(j)'
                                          /\ table'[j].offset = Off(g)'
                                          /\ held'[g].len <= table'[j].size
      BY DEF Recorded
    <2>1. CASE g = h
      BY <2>1, <1>1, <1>2, <1>7, HeapAssumption DEF Used, Off
    <2>2. CASE g # h
      BY <2>2, <1>7 DEF Off, Used
    <2> QED  BY <2>1, <2>2
  <1>9. OwnersDistinct'
    <2>1. ASSUME NEW g \in Owners, g # h, Live(g)'
          PROVE  held'[g].ptr # held'[h].ptr
      <3>1. PICK j \in Slots : j # i /\ Used(j) /\ table'[j] = table[j] /\ table[j].offset = Off(g)
        BY <2>1, <1>7
      <3>2. Off(g) < given
        BY <3>1, <1>3, <1>1 DEF Row, Word, Used
      <3> QED  BY <3>2, <2>1, <1>7, <1>1, HeapAssumption DEF Off, HeapInv, TypeOK
    <2>2. ASSUME NEW g \in Owners, NEW k \in Owners, g # k, g # h, k # h, Live(g)', Live(k)'
          PROVE  held'[g].ptr # held'[k].ptr
      BY <2>2, <1>1, <1>7 DEF HeapInv, BelowWrap, OwnersDistinct
    <2> QED  BY <2>1, <2>2 DEF OwnersDistinct
  <1> QED  BY <1>4, <1>5, <1>6, <1>8, <1>9 DEF BelowWrap

LEMMA MallocInv ==
  ASSUME HeapInv, NEW h \in Owners, NEW n \in Sizes, malloc(h, n), given' < Width,
         MallocError(n) = "OK"
  PROVE  BelowWrap'
  <1>1. ~ Live(h) /\ Give(h, n) /\ n # 0
    BY DEF malloc, Refuse, MallocError
  <1>2. PICK i \in Slots : First(i, Rows(InitTable, FREE)) /\ table' = Taken(i, n)
    BY DEF malloc, Refuse
  <1>3. /\ given < Width
        /\ table'[i] = [offset |-> given, size |-> Aligned(n)]
        /\ InitTable[i].offset = FREE
        /\ \A j \in Slots : j # i => table'[j] = InitTable[j]
    BY <1>1, <1>2, TakenRow
  <1>4. \A j \in Slots : j # i /\ Used(j)' => initialized /\ Used(j) /\ table'[j] = table[j]
    BY <1>3, InitTableUsed DEF Used
  <1>5. ASSUME NEW g \in Owners, g # h, Live(g)
        PROVE  \E j \in Slots : /\ j # i /\ Used(j) /\ table'[j] = table[j]
                                 /\ table[j].offset = Off(g) /\ held[g].len <= table[j].size
    <2>1. initialized
      BY <1>3, <1>5, InitTableUsed
    <2>2. PICK j \in Slots : Used(j) /\ table[j].offset = Off(g) /\ held[g].len <= table[j].size
      BY <1>3, <1>5 DEF HeapInv, BelowWrap, Recorded
    <2> QED  BY <2>1, <2>2, <1>3 DEF InitTable, Used
  <1> QED  BY <1>1, <1>2, <1>3, <1>4, <1>5, NewBlock

(* realloc that moves: the new row is above the old one, so free(src)      *)
(* inside realloc releases the old row and nothing else.                   *)
LEMMA MoveInv ==
  ASSUME HeapInv, NEW h \in Owners, NEW n \in Sizes, ReallocMove(h, n), given' < Width,
         MallocError(n) = "OK"
  PROVE  BelowWrap'
  <1>1. Live(h) /\ Give(h, n) /\ n # 0
    BY DEF ReallocMove, Refuse
  <1>2. PICK i \in Slots, r \in Slots :
          /\ First(i, Rows(InitTable, FREE))
          /\ First(r, Rows(Taken(i, n), OffsetOf(held[h].ptr)))
          /\ table' = [Taken(i, n) EXCEPT ![r] = FreeRow]
    BY DEF ReallocMove, Refuse
  <1>3. /\ given < Width
        /\ Taken(i, n)[i] = [offset |-> given, size |-> Aligned(n)]
        /\ InitTable[i].offset = FREE
        /\ \A j \in Slots : j # i => Taken(i, n)[j] = InitTable[j]
    BY <1>1, <1>2, TakenRow
  <1>4. initialized /\ InitTable = table /\ BelowWrap /\ TypeOK
    BY <1>1, <1>3, InitTableUsed DEF InitTable, HeapInv
  <1>5. PICK q \in Slots : Used(q) /\ table[q].offset = Off(h) /\ held[h].len <= table[q].size
    BY <1>1, <1>4 DEF BelowWrap, Recorded
  <1>6. OffsetOf(held[h].ptr) = Off(h) /\ Off(h) < given /\ Off(h) # FREE
    <2>1. Off(h) \in Word /\ Off(h) < given /\ Off(h) # FREE
      BY <1>4, <1>5 DEF TypeOK, Row, Word, BelowWrap, RowsInside, Used
    <2>2. held[h].ptr = HeapBase + Off(h)
      BY <1>4, HeapAssumption DEF Off, TypeOK
    <2> QED  BY <2>1, <2>2, OffsetRecovered
  <1>7. r # i /\ table[r].offset = Off(h) /\ Used(r)
    <2>1. Taken(i, n)[r].offset = Off(h)
      BY <1>2, <1>6 DEF First, Rows
    <2>2. r # i
      BY <2>1, <1>3, <1>4, <1>6 DEF TypeOK
    <2> QED  BY <2>1, <2>2, <1>3, <1>4, <1>6 DEF Used
  <1>8. Taken(i, n) \in [Slots -> Row]
    BY <1>4, TableTypes, RequestAssumption
  <1>9. /\ table'[i] = [offset |-> given, size |-> Aligned(n)]
        /\ table'[r] = FreeRow
        /\ \A j \in Slots : j # i /\ j # r => table'[j] = table[j]
    BY <1>2, <1>3, <1>4, <1>7, <1>8
  <1>10. \A j \in Slots : j # i /\ Used(j)' => initialized /\ Used(j) /\ table'[j] = table[j]
    BY <1>4, <1>9 DEF Used, FreeRow
  <1>11. ASSUME NEW g \in Owners, g # h, Live(g)
         PROVE  \E j \in Slots : /\ j # i /\ Used(j) /\ table'[j] = table[j]
                                  /\ table[j].offset = Off(g) /\ held[g].len <= table[j].size
    <2>1. PICK j \in Slots : Used(j) /\ table[j].offset = Off(g) /\ held[g].len <= table[j].size
      BY <1>4, <1>11 DEF BelowWrap, Recorded
    <2>2. Off(g) # Off(h)
      <3>1. held[g].ptr # held[h].ptr
        BY <1>1, <1>4, <1>11 DEF BelowWrap, OwnersDistinct
      <3>2. held[g].ptr \in Nat /\ held[h].ptr \in Nat
        BY <1>4 DEF TypeOK
      <3> QED  BY <3>1, <3>2, HeapAssumption DEF Off
    <2> QED  BY <2>1, <2>2, <1>3, <1>4, <1>7, <1>9 DEF Used
  <1> QED  BY <1>1, <1>2, <1>9, <1>10, <1>11, NewBlock

(* free of a held block: only its own row is released.                     *)
LEMMA FreeInv ==
  ASSUME HeapInv, TypeOK', NEW h \in Owners, free(h), given < Width
  PROVE  BelowWrap'
  <1>1. /\ Live(h) /\ initialized /\ initialized' = initialized
        /\ given' = given /\ heap_top' = heap_top
        /\ BelowWrap /\ TypeOK
    BY InitTableUsed DEF free, HeapInv
  <1>2. PICK i \in Slots : /\ First(i, Rows(table, OffsetOf(held[h].ptr)))
                           /\ table' = [table EXCEPT ![i] = FreeRow]
    BY DEF free
  <1>3. PICK r \in Slots : Used(r) /\ table[r].offset = Off(h) /\ held[h].len <= table[r].size
    BY <1>1 DEF BelowWrap, Recorded
  <1>4. OffsetOf(held[h].ptr) = Off(h) /\ Off(h) \in Word /\ Off(h) # FREE
    <2>1. Off(h) \in Word /\ Off(h) # FREE
      BY <1>1, <1>3 DEF TypeOK, Row, Used
    <2>2. held[h].ptr = HeapBase + Off(h)
      BY <1>1, HeapAssumption DEF Off, TypeOK
    <2> QED  BY <2>1, <2>2, OffsetRecovered
  <1>5. table[i].offset = Off(h) /\ Used(i)
    BY <1>2, <1>4 DEF First, Rows, Used
  <1>6. /\ table'[i] = FreeRow
        /\ \A j \in Slots : j # i => table'[j] = table[j]
    BY <1>1, <1>2 DEF TypeOK
  <1>7. \A j \in Slots : Used(j)' => j # i /\ Used(j) /\ table'[j] = table[j]
    BY <1>6 DEF Used, FreeRow
  <1>8. /\ held'[h] = NoBlock
        /\ \A g \in Owners : g # h => held'[g] = held[g]
    BY <1>1 DEF free, TypeOK
  <1>9. TopIsGiven' /\ RowsInside' /\ RowsApart'
    BY <1>1, <1>7 DEF BelowWrap, TopIsGiven, RowsInside, RowsApart
  <1>10. OwnersDistinct'
    BY <1>1, <1>8 DEF BelowWrap, OwnersDistinct, Live
  <1>11. Recorded'
    <2> SUFFICES ASSUME NEW g \in Owners, Live(g)'
                 PROVE  \E j \in Slots : /\ Used(j)'
                                          /\ table'[j].offset = Off(g)'
                                          /\ held'[g].len <= table'[j].size
      BY DEF Recorded
    <2>1. g # h /\ Live(g) /\ held'[g] = held[g]
      BY <1>8 DEF Live
    <2>2. PICK j \in Slots : Used(j) /\ table[j].offset = Off(g) /\ held[g].len <= table[j].size
      BY <1>1, <2>1 DEF BelowWrap, Recorded
    <2>3. Off(g) # Off(h)
      <3>1. held[g].ptr # held[h].ptr
        BY <1>1, <2>1 DEF BelowWrap, OwnersDistinct
      <3>2. held[g].ptr \in Nat /\ held[h].ptr \in Nat
        BY <1>1 DEF TypeOK
      <3> QED  BY <3>1, <3>2, HeapAssumption DEF Off
    <2>4. j # i
      BY <2>2, <2>3, <1>5
    <2>5. table'[j] = table[j]
      BY <2>4, <1>6
    <2> QED  BY <2>1, <2>2, <2>5 DEF Off, Used
  <1> QED  BY <1>9, <1>10, <1>11 DEF BelowWrap

(* realloc within the row: the owner's bytes stay inside its row.          *)
LEMMA InPlaceInv ==
  ASSUME HeapInv, NEW h \in Owners, NEW n \in Sizes, ReallocInPlace(h, n), given < Width
  PROVE  BelowWrap'
  <1>1. /\ Live(h) /\ BelowWrap /\ TypeOK
        /\ UNCHANGED <<table, heap_top, initialized, given>>
        /\ held' = [held EXCEPT ![h].len = n]
    BY DEF ReallocInPlace, HeapInv
  <1>2. /\ held'[h].ptr = held[h].ptr /\ held'[h].len = n
        /\ \A g \in Owners : g # h => held'[g] = held[g]
    BY <1>1 DEF TypeOK
  <1>3. PICK i \in Slots : /\ First(i, Rows(table, OffsetOf(held[h].ptr)))
                           /\ n <= table[i].size
    BY DEF ReallocInPlace
  <1>4. PICK r \in Slots : Used(r) /\ table[r].offset = Off(h) /\ held[h].len <= table[r].size
    BY <1>1 DEF BelowWrap, Recorded
  <1>5. OffsetOf(held[h].ptr) = Off(h)
    <2>1. Off(h) \in Word
      BY <1>1, <1>4 DEF TypeOK, Row
    <2>2. held[h].ptr = HeapBase + Off(h)
      BY <1>1, HeapAssumption DEF Off, TypeOK
    <2> QED  BY <2>1, <2>2, OffsetRecovered
  <1>6. Used(i) /\ table[i].offset = Off(h)
    BY <1>3, <1>4, <1>5 DEF First, Rows, Used
  <1>7. Recorded'
    <2> SUFFICES ASSUME NEW g \in Owners, Live(g)'
                 PROVE  \E j \in Slots : /\ Used(j)'
                                          /\ table'[j].offset = Off(g)'
                                          /\ held'[g].len <= table'[j].size
      BY DEF Recorded
    <2>1. CASE g = h
      BY <2>1, <1>1, <1>2, <1>3, <1>6 DEF Used, Off
    <2>2. CASE g # h
      BY <2>2, <1>1, <1>2 DEF BelowWrap, Recorded, Live, Used, Off
    <2> QED  BY <2>1, <2>2
  <1>8. OwnersDistinct'
    BY <1>1, <1>2 DEF BelowWrap, OwnersDistinct, Live
  <1>9. TopIsGiven' /\ RowsInside' /\ RowsApart'
    BY <1>1 DEF BelowWrap, TopIsGiven, RowsInside, RowsApart, Used
  <1> QED  BY <1>7, <1>8, <1>9 DEF BelowWrap

-----------------------------------------------------------------------------
LEMMA InvStep == HeapInv /\ [Next]_vars => HeapInv'
  <1> SUFFICES ASSUME HeapInv, [Next]_vars PROVE HeapInv'
    OBVIOUS
  <1>1. TypeOK'
    BY TypeStep DEF HeapInv
  <1>2. CASE UNCHANGED vars
    BY <1>1, <1>2 DEF vars, HeapInv, Untouched, Live, BelowWrap, TopIsGiven, RowsInside,
       RowsApart, Recorded, OwnersDistinct, Used, Off
  <1>3. CASE free_unknown \/ realloc_unknown
    BY <1>1, <1>3 DEF free_unknown, realloc_unknown, NotFound, HeapInv, Untouched, Live,
       BelowWrap, TopIsGiven, RowsInside, RowsApart, Recorded, OwnersDistinct, Used, Off
  <1>4. ASSUME NEW h \in Owners, free(h)
        PROVE  HeapInv'
    <2>1. Untouched'
      BY <1>4 DEF free, HeapInv, Untouched, Live
    <2> QED  BY <1>1, <1>4, <2>1, FreeInv DEF HeapInv, free
  <1>5. ASSUME NEW n \in Sizes, Refuse(n)
        PROVE  HeapInv'
    <2>1. initialized' = TRUE /\ held' = held /\ given' = given /\ table' = InitTable
            /\ heap_top' = InitTop
      BY <1>5 DEF Refuse
    <2>2. Untouched'
      BY <2>1 DEF Untouched
    <2>3. CASE initialized
      BY <2>1, <2>2, <2>3, <1>1 DEF InitTable, InitTop, HeapInv, Live,
         BelowWrap, TopIsGiven, RowsInside, RowsApart, Recorded, OwnersDistinct, Used, Off
    <2>4. CASE ~ initialized
      <3>1. given' = 0 /\ heap_top' = 0 /\ \A h \in Owners : ~ Live(h)'
        BY <2>1, <2>4 DEF InitTop, HeapInv, Untouched, Live
      <3>2. \A i \in Slots : ~ Used(i)'
        BY <2>1, <2>4 DEF InitTable, Used, FreeRow
      <3> QED  BY <2>2, <3>1, <3>2, <1>1 DEF HeapInv, BelowWrap, TopIsGiven, RowsInside,
               RowsApart, Recorded, OwnersDistinct
    <2> QED  BY <2>3, <2>4 DEF HeapInv, TypeOK
  <1>6. ASSUME NEW h \in Owners, NEW n \in Sizes, malloc(h, n)
        PROVE  HeapInv'
    <2>1. CASE Refuse(n)
      BY <2>1, <1>5
    <2>2. CASE ~ Refuse(n)
      BY <1>1, <1>6, <2>2, MallocInv DEF malloc, Give, HeapInv, Untouched
    <2> QED  BY <2>1, <2>2
  <1>7. ASSUME NEW h \in Owners, NEW n \in Sizes, ReallocInPlace(h, n)
        PROVE  HeapInv'
    <2>1. Untouched'
      BY <1>7 DEF ReallocInPlace, HeapInv, Untouched, Live
    <2> QED  BY <1>1, <1>7, <2>1, InPlaceInv DEF ReallocInPlace, HeapInv
  <1>8. ASSUME NEW h \in Owners, NEW n \in Sizes, ReallocMove(h, n)
        PROVE  HeapInv'
    <2>1. CASE Refuse(n)
      BY <2>1, <1>5
    <2>2. CASE ~ Refuse(n)
      BY <1>1, <1>8, <2>2, MoveInv DEF ReallocMove, Give, HeapInv, Untouched
    <2> QED  BY <2>1, <2>2
  <1> QED  BY <1>2, <1>3, <1>4, <1>6, <1>7, <1>8 DEF Next, realloc

(* Owners' bytes lie inside their rows, and rows lie apart.                *)
LEMMA InvImpliesDisjoint == HeapInv => DisjointUntilWrap
  <1> SUFFICES ASSUME HeapInv, given < Width, NEW g \in Owners, NEW h \in Owners,
                      g # h, Live(g), Live(h)
               PROVE  ~ Overlap(held[g], held[h])
    BY DEF DisjointUntilWrap
  <1>1. initialized /\ BelowWrap /\ TypeOK
    BY InitTableUsed DEF HeapInv
  <1>2. PICK i \in Slots : Used(i) /\ table[i].offset = Off(g) /\ held[g].len <= table[i].size
    BY <1>1 DEF BelowWrap, Recorded
  <1>3. PICK j \in Slots : Used(j) /\ table[j].offset = Off(h) /\ held[h].len <= table[j].size
    BY <1>1 DEF BelowWrap, Recorded
  <1>4. /\ held[g].ptr \in Nat /\ held[h].ptr \in Nat /\ held[g].ptr # held[h].ptr
        /\ held[g].len \in Nat /\ held[h].len \in Nat
        /\ table[i].size \in Nat /\ table[j].size \in Nat
        /\ table[i].offset \in Nat /\ table[j].offset \in Nat
    BY <1>1 DEF BelowWrap, OwnersDistinct, TypeOK, Row, Word
  <1>5. i # j
    BY <1>2, <1>3, <1>4, HeapAssumption DEF Off
  <1>6. \/ table[i].offset + table[i].size <= table[j].offset
        \/ table[j].offset + table[j].size <= table[i].offset
    BY <1>1, <1>2, <1>3, <1>5 DEF BelowWrap, RowsApart
  <1> QED  BY <1>2, <1>3, <1>4, <1>6, HeapAssumption DEF Overlap, Off

-----------------------------------------------------------------------------
(* Rows and owners in step.  This half of the argument does not stop where *)
(* heap_top wraps: blocks may then share an offset, so rows and owners are *)
(* counted, offset by offset.  heap_top stays even, because malloc rounds  *)
(* up and the width is even; so no block is ever recorded under the odd    *)
(* marker FREE.                                                            *)
Holders(blocks, off) ==
  {h \in Owners : blocks[h] # NoBlock /\ OffsetOf(blocks[h].ptr) = off}

Matched(tab, blocks) ==
  \A off \in Word \ {FREE} :
     /\ IsFiniteSet(Holders(blocks, off))
     /\ Cardinality(Rows(tab, off)) = Cardinality(Holders(blocks, off))

TopEven    == heap_top % 2 = 0
HeldAtEven == \A h \in Owners : Live(h) => OffsetOf(held[h].ptr) \in Word \ {FREE}
MatchInv   == /\ TypeOK /\ Untouched /\ TopEven /\ HeldAtEven
              /\ initialized => Matched(table, held)

Is(a, b) == IF a = b THEN 1 ELSE 0

SameBut(i, tab, new) == \A j \in Slots : j # i => new[j] = tab[j]

LEMMA EvenIsNotFree ==
  ASSUME NEW w \in Word, w % 2 = 0
  PROVE  w \in Word \ {FREE}
  BY WidthAssumption DEF Word, FREE

LEMMA AlignedEven ==
  ASSUME NEW n \in Word
  PROVE  Aligned(n) % 2 = 0 /\ Aligned(n) \in Word
  BY WidthAssumption DEF Word, Aligned

LEMMA TopStaysEven ==
  ASSUME NEW a \in Word, NEW b \in Word, a % 2 = 0, b % 2 = 0
  PROVE  ((a + b) % Width) % 2 = 0
  BY WidthAssumption DEF Word

LEMMA RowsCounted ==
  ASSUME NEW tab, NEW off
  PROVE  IsFiniteSet(Rows(tab, off)) /\ Cardinality(Rows(tab, off)) \in Nat
  <1>1. IsFiniteSet(Slots)
    BY FS_Interval, TableAssumption DEF Slots
  <1>2. Rows(tab, off) \subseteq Slots
    BY DEF Rows
  <1> QED  BY <1>1, <1>2, FS_Subset, FS_CardinalityType

(* One row more is recorded under an offset, or one row fewer.             *)
LEMMA RowWritten ==
  ASSUME NEW tab, NEW new, NEW i \in Slots, NEW off,
         SameBut(i, tab, new), tab[i].offset # off
  PROVE  Cardinality(Rows(new, off))
           = Cardinality(Rows(tab, off)) + Is(off, new[i].offset)
  <1>1. CASE new[i].offset = off
    <2>1. Rows(new, off) = Rows(tab, off) \cup {i} /\ i \notin Rows(tab, off)
      BY <1>1 DEF SameBut, Rows
    <2>2. Cardinality(Rows(new, off)) = Cardinality(Rows(tab, off)) + 1
      BY <2>1, RowsCounted, FS_AddElement
    <2> QED  BY <1>1, <2>2 DEF Is
  <1>2. CASE new[i].offset # off
    <2>1. Rows(new, off) = Rows(tab, off)
      BY <1>2 DEF SameBut, Rows
    <2> QED  BY <1>2, <2>1, RowsCounted DEF Is
  <1> QED  BY <1>1, <1>2

(* One owner more holds a block at an offset.                              *)
LEMMA BlockGained ==
  ASSUME NEW old, NEW new, NEW h \in Owners, NEW off,
         \A g \in Owners : g # h => new[g] = old[g],
         old[h] = NoBlock, new[h] # NoBlock,
         IsFiniteSet(Holders(old, off))
  PROVE  /\ IsFiniteSet(Holders(new, off))
         /\ Cardinality(Holders(new, off))
              = Cardinality(Holders(old, off)) + Is(off, OffsetOf(new[h].ptr))
         /\ Cardinality(Holders(old, off)) \in Nat
  <1>1. h \notin Holders(old, off) /\ Cardinality(Holders(old, off)) \in Nat
    BY FS_CardinalityType DEF Holders
  <1>2. CASE OffsetOf(new[h].ptr) = off
    <2>1. Holders(new, off) = Holders(old, off) \cup {h}
      BY <1>2 DEF Holders
    <2>2. /\ IsFiniteSet(Holders(new, off))
          /\ Cardinality(Holders(new, off)) = Cardinality(Holders(old, off)) + 1
      BY <1>1, <2>1, FS_AddElement
    <2> QED  BY <1>1, <1>2, <2>2 DEF Is
  <1>3. CASE OffsetOf(new[h].ptr) # off
    <2>1. Holders(new, off) = Holders(old, off)
      BY <1>3 DEF Holders
    <2> QED  BY <1>1, <1>3, <2>1 DEF Is
  <1> QED  BY <1>2, <1>3

(* One owner gives its block up.                                           *)
LEMMA BlockLost ==
  ASSUME NEW old, NEW new, NEW h \in Owners, NEW off,
         \A g \in Owners : g # h => new[g] = old[g],
         old[h] # NoBlock, new[h] = NoBlock,
         IsFiniteSet(Holders(old, off))
  PROVE  /\ IsFiniteSet(Holders(new, off))
         /\ Cardinality(Holders(old, off))
              = Cardinality(Holders(new, off)) + Is(off, OffsetOf(old[h].ptr))
         /\ Cardinality(Holders(new, off)) \in Nat
  <1>1. Holders(new, off) \subseteq Holders(old, off)
    BY DEF Holders
  <1>2. IsFiniteSet(Holders(new, off))
    BY <1>1, FS_Subset
  <1> QED  BY <1>2, BlockGained

(* The table malloc works on matches the owners, also when mem_init has    *)
(* just cleared it.                                                        *)
LEMMA InitTableMatches ==
  ASSUME MatchInv
  PROVE  /\ Matched(InitTable, held)
         /\ InitTop \in Word \ {FREE} /\ InitTop % 2 = 0
         /\ OffsetOf(HeapBase + InitTop) = InitTop
  <1>1. InitTop \in Word /\ InitTop % 2 = 0
    BY WidthAssumption DEF MatchInv, TypeOK, TopEven, InitTop, Word
  <1>2. OffsetOf(HeapBase + InitTop) = InitTop
    BY <1>1, OffsetRecovered
  <1>3. CASE initialized
    <2>1. InitTable = table /\ Matched(table, held)
      BY <1>3 DEF MatchInv, InitTable
    <2> QED  BY <1>1, <1>2, <2>1, EvenIsNotFree
  <1>4. CASE ~ initialized
    <2>1. ASSUME NEW off \in Word \ {FREE}
          PROVE  Rows(InitTable, off) = {} /\ Holders(held, off) = {}
      BY <1>4 DEF MatchInv, Untouched, Live, InitTable, FreeRow, Rows, Holders
    <2>2. Matched(InitTable, held)
      BY <2>1, FS_EmptySet DEF Matched
    <2> QED  BY <1>1, <1>2, <2>2, EvenIsNotFree
  <1> QED  BY <1>3, <1>4

(* Facts every successful malloc leaves, alone or inside realloc.          *)
LEMMA GiveEven ==
  ASSUME MatchInv, NEW h \in Owners, NEW n \in Sizes, n # 0, Give(h, n)
  PROVE  /\ TopEven' /\ HeldAtEven' /\ Untouched' /\ initialized'
         /\ held'[h] # NoBlock /\ OffsetOf(held'[h].ptr) = InitTop
         /\ \A g \in Owners : g # h => held'[g] = held[g]
  <1>1. /\ held'[h] = [ptr |-> HeapBase + InitTop, len |-> n]
        /\ \A g \in Owners : g # h => held'[g] = held[g]
    BY DEF Give, MatchInv, TypeOK
  <1>2. held'[h] # NoBlock /\ OffsetOf(held'[h].ptr) = InitTop
    BY <1>1, InitTableMatches DEF NoBlock
  <1>3. TopEven'
    BY InitTableMatches, AlignedEven, TopStaysEven, RequestAssumption DEF Give, TopEven
  <1>4. HeldAtEven'
    <2> SUFFICES ASSUME NEW g \in Owners, Live(g)'
                 PROVE  OffsetOf(held'[g].ptr) \in Word \ {FREE}
      BY DEF HeldAtEven
    <2>1. CASE g = h
      BY <2>1, <1>2, InitTableMatches
    <2>2. CASE g # h
      BY <2>2, <1>1 DEF MatchInv, HeldAtEven, Live
    <2> QED  BY <2>1, <2>2
  <1> QED  BY <1>1, <1>2, <1>3, <1>4 DEF Give, Untouched

(* malloc's row: unused before, recorded at heap_top after.                *)
LEMMA TakenCounted ==
  ASSUME MatchInv, NEW n \in Sizes, NEW i \in Slots, First(i, Rows(InitTable, FREE)),
         NEW off \in Word \ {FREE}
  PROVE  Cardinality(Rows(Taken(i, n), off))
           = Cardinality(Rows(InitTable, off)) + Is(off, InitTop)
  <1>1. InitTable \in [Slots -> Row]
    BY TableTypes DEF MatchInv
  <1> DEFINE new == Taken(i, n)
  <1>2. SameBut(i, InitTable, new) /\ new[i].offset = InitTop
    BY <1>1 DEF Taken, SameBut
  <1>3. InitTable[i].offset # off
    BY DEF First, Rows
  <1> HIDE DEF new
  <1>4. Cardinality(Rows(new, off)) = Cardinality(Rows(InitTable, off)) + Is(off, new[i].offset)
    BY <1>2, <1>3, RowWritten
  <1> QED  BY <1>2, <1>4 DEF new

(* free's row: recorded under the pointer's offset before, unused after.   *)
LEMMA FreedCounted ==
  ASSUME NEW tab \in [Slots -> Row], NEW o \in Word \ {FREE}, NEW j \in Slots,
         First(j, Rows(tab, o)), NEW off \in Word \ {FREE}
  PROVE  Cardinality(Rows(tab, off))
           = Cardinality(Rows([tab EXCEPT ![j] = FreeRow], off)) + Is(off, o)
  <1> DEFINE new == [tab EXCEPT ![j] = FreeRow]
  <1>1. SameBut(j, new, tab) /\ new[j].offset # off /\ tab[j].offset = o
    BY DEF First, Rows, FreeRow, SameBut
  <1> HIDE DEF new
  <1>2. Cardinality(Rows(tab, off)) = Cardinality(Rows(new, off)) + Is(off, tab[j].offset)
    BY <1>1, RowWritten
  <1> QED  BY <1>1, <1>2 DEF new

LEMMA MallocMatch ==
  ASSUME MatchInv, TypeOK', NEW h \in Owners, NEW n \in Sizes, malloc(h, n), ~ Refuse(n)
  PROVE  MatchInv'
  <1>1. ~ Live(h) /\ Give(h, n) /\ MallocError(n) = "OK"
    BY DEF malloc
  <1>2. n # 0
    BY <1>1 DEF MallocError
  <1>3. PICK i \in Slots : First(i, Rows(InitTable, FREE)) /\ table' = Taken(i, n)
    BY DEF malloc
  <1>4. Matched(table, held)'
    <2> SUFFICES ASSUME NEW off \in Word \ {FREE}
                 PROVE  /\ IsFiniteSet(Holders(held', off))
                        /\ Cardinality(Rows(table', off)) = Cardinality(Holders(held', off))
      BY DEF Matched
    <2>1. /\ IsFiniteSet(Holders(held, off))
          /\ Cardinality(Rows(InitTable, off)) = Cardinality(Holders(held, off))
      BY InitTableMatches DEF Matched
    <2>2. Cardinality(Rows(table', off)) = Cardinality(Rows(InitTable, off)) + Is(off, InitTop)
      BY <1>3, TakenCounted
    <2>3. /\ IsFiniteSet(Holders(held', off))
          /\ Cardinality(Holders(held', off)) = Cardinality(Holders(held, off)) + Is(off, InitTop)
      BY <1>1, <1>2, <2>1, GiveEven, BlockGained DEF Live
    <2> QED  BY <2>1, <2>2, <2>3
  <1> QED  BY <1>1, <1>2, <1>4, GiveEven DEF MatchInv

LEMMA FreeMatch ==
  ASSUME MatchInv, TypeOK', NEW h \in Owners, free(h)
  PROVE  MatchInv'
  <1>1. /\ Live(h) /\ initialized /\ initialized' = initialized
        /\ given' = given /\ heap_top' = heap_top /\ TypeOK /\ Matched(table, held)
    BY DEF free, MatchInv, Untouched
  <1>2. PICK j \in Slots : /\ First(j, Rows(table, OffsetOf(held[h].ptr)))
                           /\ table' = [table EXCEPT ![j] = FreeRow]
    BY DEF free
  <1>3. held'[h] = NoBlock /\ \A g \in Owners : g # h => held'[g] = held[g]
    BY <1>1 DEF free, TypeOK
  <1>4. OffsetOf(held[h].ptr) \in Word \ {FREE}
    BY <1>1 DEF MatchInv, HeldAtEven
  <1>5. Matched(table, held)'
    <2> SUFFICES ASSUME NEW off \in Word \ {FREE}
                 PROVE  /\ IsFiniteSet(Holders(held', off))
                        /\ Cardinality(Rows(table', off)) = Cardinality(Holders(held', off))
      BY DEF Matched
    <2>1. /\ IsFiniteSet(Holders(held, off))
          /\ Cardinality(Rows(table, off)) = Cardinality(Holders(held, off))
      BY <1>1 DEF Matched
    <2>2. Cardinality(Rows(table, off))
            = Cardinality(Rows(table', off)) + Is(off, OffsetOf(held[h].ptr))
      BY <1>1, <1>2, <1>4, FreedCounted DEF TypeOK
    <2>3. /\ IsFiniteSet(Holders(held', off))
          /\ Cardinality(Holders(held, off))
               = Cardinality(Holders(held', off)) + Is(off, OffsetOf(held[h].ptr))
          /\ Cardinality(Holders(held', off)) \in Nat
      BY <1>1, <1>3, <2>1, BlockLost DEF Live
    <2>4. Is(off, OffsetOf(held[h].ptr)) \in Nat /\ Cardinality(Rows(table', off)) \in Nat
      BY RowsCounted DEF Is
    <2>5. \A r, o, d \in Nat : r + d = o + d => r = o
      OBVIOUS
    <2>6. Cardinality(Rows(table', off)) = Cardinality(Holders(held', off))
      BY <2>1, <2>2, <2>3, <2>4, <2>5
    <2> QED  BY <2>3, <2>6
  <1>6. HeldAtEven'
    BY <1>3 DEF MatchInv, HeldAtEven, Live
  <1> QED  BY <1>1, <1>5, <1>6 DEF MatchInv, TopEven, Untouched

(* realloc within the row moves no block.                                  *)
LEMMA InPlaceMatch ==
  ASSUME MatchInv, TypeOK', NEW h \in Owners, NEW n \in Sizes, ReallocInPlace(h, n)
  PROVE  MatchInv'
  <1>1. /\ Live(h) /\ n # 0 /\ initialized /\ Matched(table, held)
        /\ UNCHANGED <<table, heap_top, initialized, given>>
    BY DEF ReallocInPlace, MatchInv, Untouched
  <1>2. /\ \A g \in Owners : held'[g].ptr = held[g].ptr /\ (Live(g)' <=> Live(g))
    BY <1>1 DEF ReallocInPlace, MatchInv, TypeOK, Live, NoBlock
  <1>3. \A off : Holders(held', off) = Holders(held, off)
    BY <1>2 DEF Holders, Live
  <1>4. Matched(table, held)'
    BY <1>1, <1>3 DEF Matched
  <1>5. HeldAtEven'
    BY <1>2 DEF MatchInv, HeldAtEven
  <1> QED  BY <1>1, <1>4, <1>5 DEF MatchInv, TopEven, Untouched

(* realloc that moves: the count goes up at the new offset and down at the *)
(* old one, in that order, and the two may be the same offset.             *)
LEMMA MoveMatch ==
  ASSUME MatchInv, TypeOK', NEW h \in Owners, NEW n \in Sizes, ReallocMove(h, n), ~ Refuse(n)
  PROVE  MatchInv'
  <1> DEFINE o    == OffsetOf(held[h].ptr)
             none == [held EXCEPT ![h] = NoBlock]
  <1>1. Live(h) /\ n # 0 /\ Give(h, n)
    BY DEF ReallocMove
  <1>2. PICK i \in Slots, j \in Slots :
          /\ First(i, Rows(InitTable, FREE))
          /\ First(j, Rows(Taken(i, n), o))
          /\ table' = [Taken(i, n) EXCEPT ![j] = FreeRow]
    BY DEF ReallocMove
  <1>3. o \in Word \ {FREE} /\ Taken(i, n) \in [Slots -> Row]
    BY <1>1, TableTypes, RequestAssumption DEF MatchInv, HeldAtEven
  <1>4. none[h] = NoBlock /\ \A g \in Owners : g # h => none[g] = held[g]
    BY DEF MatchInv, TypeOK
  <1> HIDE DEF o, none
  <1>5. Matched(table, held)'
    <2> SUFFICES ASSUME NEW off \in Word \ {FREE}
                 PROVE  /\ IsFiniteSet(Holders(held', off))
                        /\ Cardinality(Rows(table', off)) = Cardinality(Holders(held', off))
      BY DEF Matched
    <2>1. /\ IsFiniteSet(Holders(held, off))
          /\ Cardinality(Rows(InitTable, off)) = Cardinality(Holders(held, off))
      BY InitTableMatches DEF Matched
    <2>2. Cardinality(Rows(Taken(i, n), off))
            = Cardinality(Rows(InitTable, off)) + Is(off, InitTop)
      BY <1>2, TakenCounted
    <2>3. Cardinality(Rows(Taken(i, n), off)) = Cardinality(Rows(table', off)) + Is(off, o)
      BY <1>2, <1>3, FreedCounted
    <2>4. /\ IsFiniteSet(Holders(none, off))
          /\ Cardinality(Holders(held, off)) = Cardinality(Holders(none, off)) + Is(off, o)
          /\ Cardinality(Holders(none, off)) \in Nat
      BY <1>1, <1>4, <2>1, BlockLost DEF Live, o
    <2>5. /\ IsFiniteSet(Holders(held', off))
          /\ Cardinality(Holders(held', off)) = Cardinality(Holders(none, off)) + Is(off, InitTop)
      BY <1>1, <1>4, <2>4, GiveEven, BlockGained
    <2>6. Is(off, o) \in Nat /\ Is(off, InitTop) \in Nat
      BY DEF Is
    <2> QED  BY <2>1, <2>2, <2>3, <2>4, <2>5, <2>6, RowsCounted
  <1> QED  BY <1>1, <1>5, GiveEven DEF MatchInv

LEMMA MatchStep == MatchInv /\ [Next]_vars => MatchInv'
  <1> SUFFICES ASSUME MatchInv, [Next]_vars PROVE MatchInv'
    OBVIOUS
  <1>1. TypeOK'
    BY TypeStep DEF MatchInv
  <1>2. CASE UNCHANGED <<table, heap_top, initialized, held, given>>
    BY <1>1, <1>2 DEF MatchInv, Untouched, TopEven, HeldAtEven, Live
  <1>3. ASSUME NEW h \in Owners, free(h)
        PROVE  MatchInv'
    BY <1>1, <1>3, FreeMatch
  <1>4. ASSUME NEW n \in Sizes, Refuse(n)
        PROVE  MatchInv'
    <2>1. /\ initialized' /\ held' = held /\ given' = given
          /\ table' = InitTable /\ heap_top' = InitTop
      BY <1>4 DEF Refuse
    <2>2. Matched(table, held)' /\ TopEven'
      BY <2>1, InitTableMatches DEF TopEven
    <2> QED  BY <1>1, <2>1, <2>2 DEF MatchInv, Untouched, HeldAtEven, Live
  <1>5. ASSUME NEW h \in Owners, NEW n \in Sizes, malloc(h, n)
        PROVE  MatchInv'
    BY <1>1, <1>4, <1>5, MallocMatch
  <1>6. ASSUME NEW h \in Owners, NEW n \in Sizes, realloc(h, n)
        PROVE  MatchInv'
    BY <1>1, <1>4, <1>6, InPlaceMatch, MoveMatch DEF realloc
  <1> QED  BY <1>2, <1>3, <1>5, <1>6
           DEF Next, vars, free_unknown, realloc_unknown, NotFound

LEMMA MatchInit == Init => MatchInv
  <1> SUFFICES ASSUME Init PROVE MatchInv
    OBVIOUS
  <1>1. TypeOK /\ Untouched
    BY InitInv DEF HeapInv
  <1> QED  BY <1>1, WidthAssumption DEF Init, MatchInv, TopEven, HeldAtEven, Untouched

LEMMA MatchInvImplies == MatchInv => RowsMatchOwners
  <1> SUFFICES ASSUME MatchInv, initialized,
                      NEW off \in {table[i].offset : i \in Slots}
                                    \cup {OffsetOf(held[h].ptr) : h \in Owners},
                      off # FREE
               PROVE  Cardinality(Rows(table, off))
                        = Cardinality({h \in Owners : Live(h) /\ OffsetOf(held[h].ptr) = off})
    BY DEF RowsMatchOwners
  <1>1. \A i \in Slots : table[i].offset \in Word
    BY DEF MatchInv, TypeOK, Row
  <1>2. \A h \in Owners : OffsetOf(held[h].ptr) \in Word
    BY WidthAssumption, HeapAssumption DEF MatchInv, TypeOK, OffsetOf, Word
  <1>3. Holders(held, off) = {h \in Owners : Live(h) /\ OffsetOf(held[h].ptr) = off}
    BY DEF Holders, Live
  <1> QED  BY <1>1, <1>2, <1>3 DEF MatchInv, Matched

-----------------------------------------------------------------------------
(* The allocator never leaves the types of its variables: offsets and      *)
(* sizes stay 16-bit words, the error code one of the enumeration.         *)
THEOREM TypeCorrect == Spec => []TypeOK
  <1>1. HeapInv => TypeOK
    BY DEF HeapInv
  <1> QED  BY <1>1, InitInv, InvStep, PTL DEF Spec

(* Whatever callers request, grow and free, as long as fewer than Width    *)
(* bytes were handed out since mem_init no two of them own a common byte.  *)
THEOREM BlocksDisjoint == Spec => []DisjointUntilWrap
  BY InitInv, InvStep, InvImpliesDisjoint, PTL DEF Spec

(* Every offset stays recorded by as many rows as there are callers that   *)
(* hold a block at it, for good: no row leaks and no held pointer loses    *)
(* its row, also after the 16-bit high-water mark has wrapped.             *)
THEOREM RowsInStep == Spec => []RowsMatchOwners
  BY MatchInit, MatchStep, MatchInvImplies, PTL DEF Spec

(* A request that fails leaves every caller its block and every row of an  *)
(* initialised table as it was.                                            *)
THEOREM FailureIsHarmless == Spec => FailureKeepsBlocks
  <1> DEFINE Kept == mem_last_error' # "OK" => held' = held /\ (initialized => table' = table)
  <1>1. ASSUME [Next]_vars
        PROVE  [Kept]_vars
    <2>1. CASE free_unknown \/ realloc_unknown
      BY <2>1 DEF free_unknown, realloc_unknown, NotFound
    <2>2. ASSUME NEW n \in Sizes, Refuse(n)
          PROVE  Kept
      BY <2>2 DEF Refuse, InitTable
    <2>3. ASSUME NEW h \in Owners, free(h)
          PROVE  Kept
      BY <2>3 DEF free
    <2>4. ASSUME NEW h \in Owners, NEW n \in Sizes, malloc(h, n)
          PROVE  Kept
      BY <2>2, <2>4 DEF malloc
    <2>5. ASSUME NEW h \in Owners, NEW n \in Sizes, realloc(h, n)
          PROVE  Kept
      BY <2>2, <2>5 DEF realloc, ReallocInPlace, ReallocMove
    <2> QED  BY <1>1, <2>1, <2>3, <2>4, <2>5 DEF Next
  <1> QED  BY <1>1, PTL DEF Spec, FailureKeepsBlocks
=============================================================================
