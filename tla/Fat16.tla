--------------------------------- MODULE Fat16 ---------------------------------
(***************************************************************************)
(* The functions of stage 2 that look at a FAT16 volume after its sectors  *)
(* have been read: following a cluster chain (FAT16/chain.c), parsing a    *)
(* directory (parse_dir.c, lfn.c), splitting a path (STRING/string.c).     *)
(*                                                                         *)
(* A FAT is a function from the cluster numbers 0 .. n-1; a directory      *)
(* entry is a record [kind, name, cluster, size] whose kind is what        *)
(* parse_dir tells apart; a string is a sequence of characters.            *)
(***************************************************************************)
EXTENDS Integers, FiniteSets, SequencesExt

CONSTANTS FAT_EOC_START,    \* 0xFFF8: this value and those above end a chain
          MaxLfn,           \* 20, the pieces of a long name that are kept
          BaseLen, ExtLen,  \* 8 and 3, the parts of a short name
          ClusterBytes      \* sectors_per_cluster * bytes_per_sector

ASSUME Fat16Assumption ==
  {FAT_EOC_START, MaxLfn, BaseLen, ExtLen, ClusterBytes} \subseteq Nat \ {0}

FAT_FREE_SECTOR == 0
FAT_BAD_SECTOR  == FAT_EOC_START - 1

-----------------------------------------------------------------------------
(* Cluster chains.  NULL is the empty sequence: no chain is empty.         *)
NULL == <<>>

(* A link that can be followed: a cluster of the table, neither free nor   *)
(* bad.  Mutant of Usable: a free cluster is followed.                     *)
UsableFree(fat, c) == c \in DOMAIN fat /\ c # FAT_BAD_SECTOR
Usable(fat, c)     == c \in DOMAIN fat /\ c \notin {FAT_FREE_SECTOR, FAT_BAD_SECTOR}

(* The loop runs at most once for every cluster of the table; Walk(..)[i]  *)
(* is what it has after i times.                                           *)
Follow(fat, w) ==
  IF Usable(fat, w.current)
  THEN [chain |-> Append(w.chain, w.current), current |-> fat[w.current]]
  ELSE w

Walk(fat, chain_start) ==
  LET walk[i \in 0 .. Cardinality(DOMAIN fat)] ==
        IF i = 0 THEN [chain |-> NULL, current |-> chain_start] ELSE Follow(fat, walk[i - 1])
  IN  walk

traverse_chain(fat, chain_start) ==
  LET n    == Cardinality(DOMAIN fat)
      last == Walk(fat, chain_start)[n]
  IN  IF Len(last.chain) = n \/ last.current >= FAT_EOC_START THEN last.chain ELSE NULL

(* The same in terms of the graph that the table is.  A chain is returned  *)
(* if and only if every cluster on the way from its start is a cluster of  *)
(* the table, neither free nor bad, up to an end of chain or for ever; it  *)
(* holds the clusters in their order, and twice only those of a loop.      *)
Sane(fat, start) ==
  \E way \in SUBSET (DOMAIN fat \ {FAT_FREE_SECTOR, FAT_BAD_SECTOR}) :
    start \in way /\ \A c \in way : fat[c] \in way \/ fat[c] >= FAT_EOC_START

IsChain(chain, fat, start) ==
  /\ chain[1] = start
  /\ \A i \in 1 .. Len(chain) - 1 : chain[i + 1] = fat[chain[i]]
  /\ IF fat[Last(chain)] >= FAT_EOC_START
     THEN IsInjective(chain)
     ELSE Len(chain) = Cardinality(DOMAIN fat)

-----------------------------------------------------------------------------
(* Names.                                                                  *)
UpTo(s, c) ==
  LET i == SelectInSeq(s, LAMBDA x : x = c) IN IF i = 0 THEN s ELSE SubSeq(s, 1, i - 1)

utf16_to_ascii(s) == [i \in DOMAIN s |-> IF s[i] = "wide" THEN "?" ELSE s[i]]

(* lfn is the buffer for the pieces of a long name; what does not fit is   *)
(* dropped.                                                                *)
parse_LFN_entry(lfn, piece) ==
  IF Len(lfn) < MaxLfn THEN Append(lfn, utf16_to_ascii(piece)) ELSE lfn

(* The pieces of a long name stand before the short entry, the last piece  *)
(* first.                                                                  *)
parse_LFN_buffer(lfn) ==
  FlattenSeq([i \in DOMAIN lfn |-> UpTo(lfn[Len(lfn) + 1 - i], "NUL")])

normalize_SFN(s) ==
  LET base == UpTo(SubSeq(s, 1, BaseLen), " ")
      ext  == UpTo(SubSeq(s, BaseLen + 1, BaseLen + ExtLen), " ")
  IN  IF ext = <<>> THEN base ELSE base \o <<".">> \o ext

-----------------------------------------------------------------------------
(* Directories.  "null" says that traverse_chain returned NULL for a       *)
(* subdirectory and parse_dir used the pointer: the size is then whatever  *)
(* is in memory at address 0.                                              *)
Unknown == -1

Parsed(pd, e, fat) ==
  LET chain == IF e.kind = "dir" THEN traverse_chain(fat, e.cluster) ELSE NULL
      size  == IF e.kind # "dir" THEN e.size
               ELSE IF chain = NULL THEN Unknown ELSE Len(chain) * ClusterBytes
      name  == IF pd.lfn # <<>> THEN parse_LFN_buffer(pd.lfn) ELSE normalize_SFN(e.name)
  IN  [e EXCEPT !.name = name, !.size = size]

Add(pd, e) ==
  [pd EXCEPT !.entries = Append(@, e), !.lfn = <<>>, !.null = @ \/ e.size = Unknown]

(* What follows the end of the directory is not looked at.                 *)
ParseEntry(pd, e, fat) ==
  IF pd.end THEN pd
  ELSE CASE e.kind = "end"     -> [pd EXCEPT !.end = TRUE]
         [] e.kind = "deleted" -> [pd EXCEPT !.lfn = <<>>]
         [] e.kind = "lfn"     -> [pd EXCEPT !.lfn = parse_LFN_entry(@, e.name)]
         [] OTHER              -> Add(pd, Parsed(pd, e, fat))

(* The loop over the entries; Parsing(..)[i] is what it has after i.       *)
Parsing(fat, dir) ==
  LET parse[i \in 0 .. Len(dir)] ==
        IF i = 0 THEN [entries |-> <<>>, lfn |-> <<>>, end |-> FALSE, null |-> FALSE]
                 ELSE ParseEntry(parse[i - 1], dir[i], fat)
  IN  parse

parse_dir(fat, dir) == Parsing(fat, dir)[Len(dir)]

find_parsed_dir_entry(pd, name) ==
  LET i == SelectInSeq(pd.entries, LAMBDA e : e.name = name)
  IN  IF i = 0 THEN [kind |-> "none"] ELSE pd.entries[i]

-----------------------------------------------------------------------------
(* Paths.  Mutant of Cut: only in front of the first segment an empty one  *)
(* is dropped.                                                             *)
CutOff(s)   == [dest |-> Append(s.dest, s.buffer), buffer |-> <<>>]
CutInner(s) == IF s.buffer = <<>> /\ s.dest = <<>> THEN s ELSE CutOff(s)
Cut(s)      == IF s.buffer = <<>> THEN s ELSE CutOff(s)

(* The loop over the string; Splitting(..)[i] is what it has after i       *)
(* characters: the segments so far and the one it is in.                   *)
Split(s, c, delimiter) ==
  IF c = delimiter THEN Cut(s) ELSE [dest |-> s.dest, buffer |-> Append(s.buffer, c)]

Splitting(str, delimiter) ==
  LET split[i \in 0 .. Len(str)] ==
        IF i = 0 THEN [dest |-> <<>>, buffer |-> <<>>] ELSE Split(split[i - 1], str[i], delimiter)
  IN  split

strsplit(str, delimiter) == Cut(Splitting(str, delimiter)[Len(str)]).dest

(* The same without a loop: there is a segment for each place where one    *)
(* starts, and it runs from there up to the next delimiter.                *)
Starts(str, delimiter) ==
  {i \in 1 .. Len(str) : str[i] # delimiter /\ (i = 1 \/ str[i - 1] = delimiter)}

StartsTo(str, delimiter, i) == {j \in Starts(str, delimiter) : j <= i}

SegmentFrom(str, delimiter, i) == UpTo(SubSeq(str, i, Len(str)), delimiter)

IsSplit(segments, str, delimiter) ==
  /\ Len(segments) = Cardinality(Starts(str, delimiter))
  /\ \A i \in Starts(str, delimiter) :
       segments[Cardinality(StartsTo(str, delimiter, i))] = SegmentFrom(str, delimiter, i)
=============================================================================
