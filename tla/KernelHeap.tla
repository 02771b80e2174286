----------------------------- MODULE KernelHeap -----------------------------
(***************************************************************************)
(* The bump allocator of MEMORY_MANAGMENT/memory_managment.c.  The file is *)
(* built twice, into stage 2 and into the kernel, from the same text.      *)
(*                                                                         *)
(* The allocator keeps a table of (offset, size) pairs of two uint16_t     *)
(* each and one uint16_t high-water mark, heap_top.  A block is taken at   *)
(* heap_top and recorded in the first unused row; free() only marks the    *)
(* row unused, heap_top never comes down.  Offsets and sizes keep their    *)
(* width here (arithmetic modulo Width), pointers are plain addresses.     *)
(*                                                                         *)
(* The callers are pointer variables (Owners) that hold what malloc        *)
(* returned until they free it.  "held" and "given" are history: which     *)
(* block each caller believes it owns, and how many bytes were handed out. *)
(***************************************************************************)
EXTENDS Integers, FiniteSets

CONSTANTS Width,        \* number of values of a uint16_t
          MaxEntries,   \* MAX_ENTRIES, the rows of the table
          HeapBase,     \* HEAP_BASE
          HeapSize,     \* HEAP_SIZE
          Owners,       \* the pointer variables of the callers
          Sizes,        \* the sizes callers ask for
          Strays,       \* addresses that are no block's first byte
          BootRows,     \* what a row of the table may hold before mem_init
          MaxGiven      \* bound: no more bytes than this are handed out

Slots   == 0 .. MaxEntries - 1
Word    == 0 .. Width - 1
FREE    == Width - 1                       \* the marker 0xFFFF
Row     == [offset : Word, size : Word]
FreeRow == [offset |-> FREE, size |-> 0]

ASSUME WidthAssumption   == Width \in Nat \ {0} /\ Width % 2 = 0
ASSUME TableAssumption   == MaxEntries \in Nat \ {0}
ASSUME HeapAssumption    == HeapBase \in Nat \ {0} /\ HeapSize \in Nat
ASSUME RequestAssumption == Sizes \subseteq Word /\ BootRows \subseteq Row
ASSUME StrayAssumption   == \A p \in Strays : p \in Int /\ (p - HeapBase) % 2 = 1
ASSUME BoundAssumption   == MaxGiven \in Nat

Errors == {"OK", "ZERO_SIZE", "NO_METADATA", "HEAP_EXHAUSTED",
           "INVALID_PTR", "REALLOC_NOT_FOUND"}

VARIABLES table, heap_top, initialized, mem_last_error,
          held,     \* history: the block each owner holds, NoBlock if none
          given     \* history: bytes handed out since mem_init

vars == <<table, heap_top, initialized, mem_last_error, held, given>>

NoBlock == [ptr |-> 0, len |-> 0]
Live(h) == held[h] # NoBlock

-----------------------------------------------------------------------------
(* malloc's "if (size & 1) size++" on a uint16_t: 65535 becomes 0.         *)
AlignedWide(n) == n + (n % 2)                    \* mutant: no 16-bit wrap
Aligned(n) == (n + (n % 2)) % Width

(* The first row that satisfies the loop's test.                           *)
Rows(tab, off) == {i \in Slots : tab[i].offset = off}
First(i, S)    == i \in S /\ \A j \in S : i <= j

(* mem_init, called by the first malloc.                                   *)
InitTable == IF initialized THEN table ELSE [i \in Slots |-> FreeRow]
InitTop   == IF initialized THEN heap_top ELSE 0

OffsetOf(ptr) == (ptr - HeapBase) % Width

MallocError(n) ==
  CASE n = 0 -> "ZERO_SIZE"
    [] n # 0 /\ HeapBase + InitTop + Aligned(n) > HeapBase + HeapSize
         -> "HEAP_EXHAUSTED"
    [] n # 0 /\ HeapBase + InitTop + Aligned(n) <= HeapBase + HeapSize
         -> IF Rows(InitTable, FREE) = {} THEN "NO_METADATA" ELSE "OK"

(* The state malloc leaves: row i taken at heap_top, which moves up.       *)
Taken(i, n) == [InitTable EXCEPT ![i] = [offset |-> InitTop, size |-> Aligned(n)]]

Give(h, n) ==
  /\ given + n + (n % 2) <= MaxGiven
  /\ given' = given + n + (n % 2)
  /\ heap_top' = (InitTop + Aligned(n)) % Width
  /\ held' = [held EXCEPT ![h] = [ptr |-> HeapBase + InitTop, len |-> n]]
  /\ initialized' = TRUE

Refuse(n) ==
  /\ MallocError(n) # "OK"
  /\ mem_last_error' = MallocError(n)
  /\ table' = InitTable /\ heap_top' = InitTop /\ initialized' = TRUE
  /\ UNCHANGED <<held, given>>

Init ==
  /\ table \in [Slots -> BootRows]
  /\ heap_top = 0
  /\ initialized = FALSE
  /\ mem_last_error = "OK"
  /\ held = [h \in Owners |-> NoBlock]
  /\ given = 0

(* malloc(size); zalloc(size) is malloc followed by writes inside the block. *)
malloc(h, n) ==
  /\ ~ Live(h)
  /\ \/ Refuse(n)
     \/ /\ MallocError(n) = "OK"
        /\ \E i \in Slots : First(i, Rows(InitTable, FREE)) /\ table' = Taken(i, n)
        /\ mem_last_error' = "OK"
        /\ Give(h, n)

(* free(ptr): the first row with the pointer's offset is released, whoever *)
(* took it; free(NULL) does nothing and is left out.                       *)
free(h) ==
  /\ Live(h)
  /\ \E i \in Slots :
       /\ First(i, Rows(table, OffsetOf(held[h].ptr)))
       /\ table' = [table EXCEPT ![i] = FreeRow]
  /\ held' = [held EXCEPT ![h] = NoBlock]
  /\ mem_last_error' = "OK"
  /\ UNCHANGED <<heap_top, initialized, given>>

(* free or realloc of a pointer that no row records.                       *)
Passed == Strays \cup {held[h].ptr : h \in {g \in Owners : Live(g)}}

NotFound(err) ==
  /\ initialized
  /\ \E p \in Passed : Rows(table, OffsetOf(p)) = {}
  /\ mem_last_error' = err
  /\ UNCHANGED <<table, heap_top, initialized, held, given>>

free_unknown    == NotFound("INVALID_PTR")
realloc_unknown == NotFound("REALLOC_NOT_FOUND")

(* realloc(src, newSize) for src # NULL and newSize # 0; the two other     *)
(* cases are malloc and free.                                              *)
ReallocAnySize(h, n) ==                          \* mutant: size not compared
  /\ Live(h) /\ n # 0
  /\ held' = [held EXCEPT ![h].len = n]
  /\ mem_last_error' = "OK"
  /\ UNCHANGED <<table, heap_top, initialized, given>>

ReallocInPlace(h, n) ==
  /\ Live(h) /\ n # 0
  /\ \E i \in Slots :
       /\ First(i, Rows(table, OffsetOf(held[h].ptr)))
       /\ n <= table[i].size
  /\ held' = [held EXCEPT ![h].len = n]
  /\ mem_last_error' = "OK"
  /\ UNCHANGED <<table, heap_top, initialized, given>>

ReallocFreesFirst(h, n) ==                       \* mutant: free before malloc
  /\ Live(h) /\ n # 0
  /\ \E i \in Slots :
       /\ First(i, Rows(table, OffsetOf(held[h].ptr)))
       /\ n > table[i].size
       /\ table' = [table EXCEPT ![i] = FreeRow]
  /\ mem_last_error' = "NO_METADATA"
  /\ UNCHANGED <<heap_top, initialized, held, given>>

ReallocLeaks(h, n) ==                            \* mutant: src never freed
  /\ Live(h) /\ n # 0
  /\ \E i \in Slots :
       /\ First(i, Rows(table, OffsetOf(held[h].ptr)))
       /\ n > table[i].size
  /\ MallocError(n) = "OK"
  /\ \E i \in Slots : First(i, Rows(InitTable, FREE)) /\ table' = Taken(i, n)
  /\ mem_last_error' = "OK"
  /\ Give(h, n)

ReallocMove(h, n) ==
  /\ Live(h) /\ n # 0
  /\ \E i \in Slots :
       /\ First(i, Rows(table, OffsetOf(held[h].ptr)))
       /\ n > table[i].size
  /\ \/ Refuse(n)
     \/ /\ MallocError(n) = "OK"
        /\ \E i, j \in Slots :
             /\ First(i, Rows(InitTable, FREE))
             /\ First(j, Rows(Taken(i, n), OffsetOf(held[h].ptr)))
             /\ table' = [Taken(i, n) EXCEPT ![j] = FreeRow]
        /\ mem_last_error' = "OK"
        /\ Give(h, n)

realloc(h, n) == ReallocInPlace(h, n) \/ ReallocMove(h, n)

Next ==
  \/ free_unknown \/ realloc_unknown
  \/ \E h \in Owners :
       \/ free(h)
       \/ \E n \in Sizes : malloc(h, n) \/ realloc(h, n)

Spec == Init /\ [][Next]_vars

-----------------------------------------------------------------------------
TypeOK ==
  /\ table \in [Slots -> Row]
  /\ heap_top \in Word
  /\ initialized \in BOOLEAN
  /\ mem_last_error \in Errors
  /\ held \in [Owners -> [ptr : Nat, len : Word]]
  /\ given \in Nat

Overlap(a, b) == a.ptr < b.ptr + b.len /\ b.ptr < a.ptr + a.len

(* Until the 16-bit high-water mark wraps, no two callers of malloc and    *)
(* realloc ever own a common byte, whatever they free and grow in between. *)
DisjointUntilWrap ==
  given < Width =>
    \A g, h \in Owners : g # h /\ Live(g) /\ Live(h) => ~ Overlap(held[g], held[h])

(* Rows and owners stay in step, also after heap_top has wrapped and two   *)
(* blocks share an offset: each offset is recorded by as many rows as      *)
(* there are callers holding it, so no free or realloc of a held pointer   *)
(* fails to find a row, and no row of the table leaks.                     *)
RowsMatchOwners ==
  initialized =>
    \A off \in {table[i].offset : i \in Slots} \cup {OffsetOf(held[h].ptr) : h \in Owners} :
      off # FREE =>
        Cardinality(Rows(table, off))
          = Cardinality({h \in Owners : Live(h) /\ OffsetOf(held[h].ptr) = off})

(* A request that fails, for any reason and at any point of realloc, costs *)
(* nobody a block: every caller keeps what it held and every row stands.   *)
FailureKeepsBlocks ==
  [][mem_last_error' # "OK" => held' = held /\ (initialized => table' = table)]_vars

(* The unconditional form of DisjointUntilWrap: what the limit check of    *)
(* malloc is there to ensure.                                              *)
LiveBlocksDisjoint ==
  \A g, h \in Owners : g # h /\ Live(g) /\ Live(h) => ~ Overlap(held[g], held[h])
=============================================================================
