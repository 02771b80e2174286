------------------------- MODULE InputPipelineProofs -------------------------
(***************************************************************************)
(* For every stdin buffer, text and interleaving of the keyboard           *)
(* interrupt, the timer and the two tasks: stdin.c delivers the typed      *)
(* lines (LineChannel), and its count of lines is never too low.           *)
(*                                                                         *)
(* Both need a boot that finds no '\n' in the stdin memory and keys that   *)
(* do not hit a task while it uses AL; the README shows what happens       *)
(* otherwise.                                                              *)
(***************************************************************************)
EXTENDS InputPipeline, SequenceTheorems, FiniteSetTheorems, TLAPS

Clean == Quiet /\ NL \notin Residue

-----------------------------------------------------------------------------
(* Ranks.                                                                  *)
LEMMA Ranks ==
  ASSUME NEW s, NEW n \in Nat, NEW m \in 0 .. n
  PROVE  /\ IsFiniteSet(Visible(s, n)) /\ Rank(s, n) \in Nat
         /\ Rank(s, m) <= Rank(s, n) /\ Rank(s, 0) = 0
<1>1. IsFiniteSet(Visible(s, n)) /\ IsFiniteSet(Visible(s, m)) /\ Visible(s, m) \subseteq Visible(s, n)
  <2>1. IsFiniteSet(1 .. n) /\ Visible(s, n) \subseteq 1 .. n
    BY FS_Interval DEF Visible
  <2>2. Visible(s, m) \subseteq Visible(s, n)
    BY DEF Visible
  <2>3. IsFiniteSet(Visible(s, n))
    BY <2>1, FS_Subset
  <2> QED  BY <2>2, <2>3, FS_Subset
<1>2. Visible(s, 0) = {}
  BY DEF Visible
<1> QED  BY <1>1, <1>2, FS_Subset, FS_CardinalityType, FS_EmptySet DEF Rank

LEMMA RankOfNext ==
  ASSUME NEW S, NEW s \in Seq(S), NEW n \in 1 .. Len(s)
  PROVE  Rank(s, n) = IF s[n] = NUL THEN Rank(s, n - 1) ELSE Rank(s, n - 1) + 1
<1>1. IsFiniteSet(Visible(s, n - 1)) /\ n \notin Visible(s, n - 1)
  <2>1. n - 1 \in Nat
    OBVIOUS
  <2>2. IsFiniteSet(Visible(s, n - 1))
    BY <2>1, Ranks
  <2>3. n \notin Visible(s, n - 1)
    BY DEF Visible
  <2> QED  BY <2>2, <2>3
<1>2. CASE s[n] = NUL
  <2>1. Visible(s, n) = Visible(s, n - 1)
    BY <1>2 DEF Visible
  <2> QED  BY <1>2, <2>1 DEF Rank
<1>3. CASE s[n] # NUL
  <2>1. Visible(s, n) = Visible(s, n - 1) \cup {n}
    BY <1>3 DEF Visible
  <2> QED  BY <1>1, <1>3, <2>1, FS_AddElement DEF Rank
<1> QED  BY <1>2, <1>3

(* Characters that are no zeros have ranks of their own, and every place   *)
(* of the text is the rank of one.                                         *)
LEMMA RanksDiffer ==
  ASSUME NEW S, NEW s \in Seq(S), NEW i \in Visible(s, Len(s)), NEW j \in Visible(s, Len(s)), i < j
  PROVE  Rank(s, i) < Rank(s, j)
<1>1. Len(s) \in Nat /\ i \in 1 .. Len(s) /\ j \in 1 .. Len(s) /\ s[j] # NUL
  BY DEF Visible
<1>2. Rank(s, j) = Rank(s, j - 1) + 1
  BY <1>1, RankOfNext
<1>3. Rank(s, i) \in Nat /\ Rank(s, j - 1) \in Nat /\ Rank(s, i) <= Rank(s, j - 1)
  BY <1>1, Ranks
<1> QED  BY <1>2, <1>3

LEMMA EveryPlaceTaken ==
  ASSUME NEW S, NEW s \in Seq(S), NEW k \in 1 .. Rank(s, Len(s))
  PROVE  \E i \in Visible(s, Len(s)) : Rank(s, i) = k
<1> DEFINE V == Visible(s, Len(s))
           P == 1 .. Rank(s, Len(s))
           f == [i \in V |-> Rank(s, i)]
<1>1. Len(s) \in Nat /\ Rank(s, Len(s)) \in Nat /\ IsFiniteSet(V)
  BY Ranks
<1>2. ASSUME NEW i \in V PROVE Rank(s, i) \in P
  <2>1. i \in 1 .. Len(s) /\ s[i] # NUL
    BY DEF Visible
  <2>2. Rank(s, i) = Rank(s, i - 1) + 1
    BY <2>1, RankOfNext
  <2>3. Rank(s, i - 1) \in Nat /\ Rank(s, i) <= Rank(s, Len(s))
    BY <1>1, <2>1, Ranks
  <2> QED  BY <1>1, <2>2, <2>3
<1>3. f \in [V -> P]
  BY <1>2
<1>4. ASSUME NEW i \in V, NEW j \in V, f[i] = f[j] PROVE i = j
  <2>1. i \in Nat /\ j \in Nat /\ Rank(s, i) = Rank(s, j) /\ Rank(s, i) \in P
    BY <1>2, <1>4 DEF Visible
  <2>2. ~ (i < j) /\ ~ (j < i)
    BY <1>1, <2>1, RanksDiffer
  <2> QED  BY <2>1, <2>2
<1>5. f \in Injection(V, P)
  BY <1>3, <1>4 DEF Injection, IsInjective
<1>6. IsFiniteSet(P) /\ Cardinality(P) = Cardinality(V)
  BY <1>1, FS_Interval DEF Rank
<1>7. f \in Surjection(V, P)
  BY <1>5, <1>6, FS_Injection
<1>8. k \in P
  OBVIOUS
<1> HIDE DEF V, P
<1>9. PICK i \in V : f[i] = k
  BY <1>7, <1>8 DEF Surjection
<1> QED  BY <1>9 DEF V

(* The k-th character of the text is the one of rank k.                    *)
LEMMA TextIsRanked ==
  ASSUME NEW S, NEW s \in Seq(S)
  PROVE  /\ TextOf(s) \in Seq(S) /\ Len(TextOf(s)) = Rank(s, Len(s))
         /\ \A i \in Visible(s, Len(s)) : Rank(s, i) \in 1 .. Rank(s, Len(s)) /\ TextOf(s)[Rank(s, i)] = s[i]
<1> DEFINE at(k) == CHOOSE i \in Visible(s, Len(s)) : Rank(s, i) = k
<1>1. ASSUME NEW k \in 1 .. Rank(s, Len(s)) PROVE at(k) \in Visible(s, Len(s)) /\ Rank(s, at(k)) = k
  BY EveryPlaceTaken
<1>2. TextOf(s) = [k \in 1 .. Rank(s, Len(s)) |-> s[at(k)]]
  BY DEF TextOf
<1> HIDE DEF at
<1>3. Len(s) \in Nat /\ Rank(s, Len(s)) \in Nat
  BY Ranks
<1>4. \A i \in Visible(s, Len(s)) : i \in 1 .. Len(s) /\ s[i] \in S
  BY DEF Visible
<1>5. TextOf(s) \in [1 .. Rank(s, Len(s)) -> S]
  BY <1>1, <1>2, <1>4
<1>6. ASSUME NEW i \in Visible(s, Len(s))
      PROVE  Rank(s, i) \in 1 .. Rank(s, Len(s)) /\ TextOf(s)[Rank(s, i)] = s[i]
  <2>1. Rank(s, i) = Rank(s, i - 1) + 1
    BY <1>4, RankOfNext DEF Visible
  <2>2. Rank(s, i - 1) \in Nat /\ Rank(s, i) <= Rank(s, Len(s))
    BY <1>3, <1>4, Ranks
  <2>3. Rank(s, i) \in 1 .. Rank(s, Len(s))
    BY <1>3, <2>1, <2>2
  <2> DEFINE j == at(Rank(s, i))
  <2>4. j \in Visible(s, Len(s)) /\ Rank(s, j) = Rank(s, i)
    BY <1>1, <2>3
  <2>5. TextOf(s)[Rank(s, i)] = s[j]
    BY <1>2, <2>3
  <2> HIDE DEF j
  <2>6. i = j
    <3>1. ~ (i < j) /\ ~ (j < i)
      BY <2>3, <2>4, RanksDiffer
    <3> QED  BY <1>4, <2>4, <3>1
  <2> QED  BY <2>3, <2>5, <2>6
<1>7. TextOf(s) \in Seq(S) /\ Len(TextOf(s)) = Rank(s, Len(s))
  BY <1>3, <1>5
<1> QED  BY <1>6, <1>7

(* The text grows at its end, by the characters that are no zeros.         *)
LEMMA TextGrows ==
  ASSUME NEW S, NEW s \in Seq(S), NEW k \in S
  PROVE  TextOf(Append(s, k)) = IF k = NUL THEN TextOf(s) ELSE Append(TextOf(s), k)
<1> DEFINE t == Append(s, k)
           N == Len(s)
           T == IF k = NUL THEN TextOf(s) ELSE Append(TextOf(s), k)
<1>1. t \in Seq(S) /\ N \in Nat /\ Len(t) = N + 1 /\ t[N + 1] = k /\ \A i \in 1 .. N : t[i] = s[i]
  BY AppendProperties
<1>2. TextOf(s) \in Seq(S) /\ Len(TextOf(s)) = Rank(s, N)
  BY TextIsRanked
<1> SUFFICES TextOf(t) = T
  OBVIOUS
<1> HIDE DEF t, N
<1>3. TextOf(t) \in Seq(S) /\ Len(TextOf(t)) = Rank(t, N + 1)
  BY <1>1, TextIsRanked
<1>4. ASSUME NEW n \in 0 .. N PROVE Visible(t, n) = Visible(s, n) /\ Rank(t, n) = Rank(s, n)
  <2>1. Visible(t, n) = Visible(s, n)
    BY <1>1 DEF Visible
  <2> QED  BY <2>1 DEF Rank
<1>5. Rank(t, N + 1) = IF k = NUL THEN Rank(s, N) ELSE Rank(s, N) + 1
  <2>1. Rank(t, N + 1) = IF t[N + 1] = NUL THEN Rank(t, N) ELSE Rank(t, N) + 1
    BY <1>1, RankOfNext
  <2> QED  BY <1>1, <1>4, <2>1
<1>6. T \in Seq(S) /\ Len(T) = Rank(t, N + 1)
  BY <1>2, <1>5, AppendProperties
<1>7. ASSUME NEW j \in 1 .. Rank(t, N + 1) PROVE TextOf(t)[j] = T[j]
  <2>1. CASE j \in 1 .. Rank(s, N)
    <3>1. PICK i \in Visible(s, N) : Rank(s, i) = j
      BY <2>1, EveryPlaceTaken DEF N
    <3>2. i \in 1 .. N /\ i \in Visible(t, N + 1) /\ Rank(t, i) = j /\ t[i] = s[i]
      BY <1>1, <1>4, <3>1 DEF Visible
    <3>3. TextOf(t)[j] = t[i]
      BY <1>1, <3>2, TextIsRanked
    <3>4. TextOf(s)[j] = s[i]
      BY <3>1, TextIsRanked DEF N
    <3>5. T[j] = TextOf(s)[j]
      BY <1>2, <2>1, AppendProperties
    <3> QED  BY <3>2, <3>3, <3>4, <3>5
  <2>2. CASE k # NUL /\ j = Rank(s, N) + 1
    <3>1. N + 1 \in Visible(t, N + 1)
      BY <1>1, <2>2 DEF Visible
    <3>2. TextOf(t)[j] = k
      BY <1>1, <1>5, <2>2, <3>1, TextIsRanked
    <3>3. T[j] = k
      BY <1>2, <2>2, AppendProperties
    <3> QED  BY <3>2, <3>3
  <2>3. Rank(s, N) \in Nat
    BY <1>1, Ranks
  <2>4. j \in 1 .. Rank(s, N) \/ (k # NUL /\ j = Rank(s, N) + 1)
    BY <1>5, <2>3
  <2> HIDE DEF T
  <2> QED  BY <2>1, <2>2, <2>4
<1> HIDE DEF T
<1> QED  BY <1>3, <1>6, <1>7, SeqEqual

-----------------------------------------------------------------------------
(* The inductive invariant.                                                *)
Types ==
  /\ char_buffer \in Seq(Char) /\ current_char_out \in 0 .. Len(char_buffer)
  /\ stdin \in [0 .. StdinSize - 1 -> Char]
  /\ stdin_in_count \in 0 .. StdinSize /\ stdin_out_count \in 0 .. stdin_in_count
  /\ new_line_count \in Nat /\ c \in Char
  /\ acc \in [{"stdin", "echo"} -> Nat]
  /\ spc \in {"poll", "compare", "take", "save", "insert", "fill", "nl_load", "nl_store"}

(* stdin_loop takes only what was typed, and holds what it took.           *)
Holding == spc \in {"save", "insert", "fill"}

Taking ==
  /\ spc = "compare" => acc["stdin"] <= Len(char_buffer)
  /\ spc = "take" => current_char_out < Len(char_buffer)
  /\ Holding => current_char_out > 0 /\ c = char_buffer[current_char_out]
  /\ spc = "fill" => stdin_in_count > 0 /\ c # NUL

(* What stdin holds up to the place that is published but not yet filled   *)
(* is the start of the text; while there is room, it is all of the text    *)
(* among the characters that stdin_loop is done with.  No '\n' lies beyond.*)
Filled  == IF spc = "fill" THEN stdin_in_count - 1 ELSE stdin_in_count
Passed  == IF Holding THEN current_char_out - 1 ELSE current_char_out

Copied ==
  /\ Filled <= Len(Text)
  /\ \A i \in 0 .. Filled - 1 : stdin[i] = Text[i + 1]
  /\ \A i \in Filled .. StdinSize - 1 : stdin[i] # NL
  /\ Filled < StdinSize => Rank(char_buffer, Passed) = Filled

PipelineInv == Types /\ Taking /\ Copied

(* The count covers the lines, also while its increment is in flight.      *)
Counted ==
  /\ LinesCounted
  /\ spc = "nl_store" => Cardinality(Pending) <= acc["stdin"]

LEMMA PipelineInit == ASSUME Clean, Init PROVE PipelineInv /\ Counted
<1> USE DEF Init
<1>1. Types
  BY CharAssumption, SizeAssumption DEF Types
<1>2. Taking
  BY DEF Taking, Holding
<1>3. Len(Text) = 0 /\ Rank(char_buffer, 0) = 0
  <2>1. char_buffer \in Seq(Char) /\ Len(char_buffer) = 0
    BY <1>1 DEF Types
  <2>2. Rank(char_buffer, 0) = 0
    BY Ranks
  <2>3. Len(Text) = Rank(char_buffer, Len(char_buffer))
    BY <2>1, TextIsRanked DEF Text
  <2> QED  BY <2>1, <2>2, <2>3
<1>4. Copied
  <2>1. Filled = 0 /\ Passed = 0
    BY DEF Filled, Passed, Holding
  <2>2. \A i \in 0 .. StdinSize - 1 : stdin[i] # NL
    BY DEF Clean
  <2> QED  BY <1>3, <2>1, <2>2 DEF Copied
<1>5. Pending = {} /\ Cardinality(Pending) = 0
  <2>1. Pending = {}
    BY DEF Pending
  <2> QED  BY <2>1, FS_EmptySet
<1>6. Counted
  BY <1>5 DEF Counted, LinesCounted, BeingCounted
<1> QED  BY <1>1, <1>2, <1>4, <1>6 DEF PipelineInv

-----------------------------------------------------------------------------
(* A key: the text grows, or not.                                          *)
LEMMA KeyStep ==
  ASSUME PipelineInv, Clean, keyboard_isr
  PROVE  /\ \E k \in Char : char_buffer' = Append(char_buffer, k) /\ Text' = IF k = NUL THEN Text ELSE Append(Text, k)
         /\ UNCHANGED <<acc, c, spc, stdin, stdin_in_count, stdin_out_count, new_line_count, lines>>
         /\ PipelineInv'
<1> USE DEF PipelineInv
<1>1. PICK k \in Char : char_buffer' = Append(char_buffer, k)
  BY DEF keyboard_isr
<1>2. UNCHANGED <<current_char_out, acc, c, spc, stdin, stdin_in_count, stdin_out_count, new_line_count, lines>>
  BY DEF keyboard_isr, Clean, UsesAL, buffers, echo
<1>3. Text' = IF k = NUL THEN Text ELSE Append(Text, k)
  BY <1>1, TextGrows DEF Text, Types
<1>4. /\ char_buffer' \in Seq(Char) /\ Len(char_buffer') = Len(char_buffer) + 1 /\ Len(char_buffer) \in Nat
      /\ \A i \in 1 .. Len(char_buffer) : char_buffer'[i] = char_buffer[i]
  BY <1>1, AppendProperties DEF Types
<1>5. Text \in Seq(Char)
  BY TextIsRanked DEF Types, Text
<1>6. Types'
  BY <1>2, <1>4 DEF Types
<1>7. Taking'
  BY <1>2, <1>4 DEF Types, Taking, Holding
<1>8. Copied'
  <2>1. Filled' = Filled /\ Passed' = Passed /\ Filled \in 0 .. StdinSize /\ Passed \in 0 .. Len(char_buffer)
    <3>1. Filled' = Filled /\ Passed' = Passed
      BY <1>2 DEF Filled, Passed, Holding
    <3>2. Filled \in 0 .. StdinSize
      BY SizeAssumption DEF Filled, Types, Taking
    <3>3. Passed \in 0 .. Len(char_buffer)
      BY <1>4 DEF Passed, Types, Taking
    <3> QED  BY <3>1, <3>2, <3>3
  <2>2. Rank(char_buffer, Passed)' = Rank(char_buffer, Passed)
    <3>1. Visible(char_buffer', Passed) = Visible(char_buffer, Passed)
      BY <1>4, <2>1 DEF Visible
    <3> QED  BY <2>1, <3>1 DEF Rank
  <2>3. Len(Text) <= Len(Text') /\ \A i \in 1 .. Len(Text) : Text'[i] = Text[i]
    BY <1>3, <1>5, AppendProperties
  <2>4. Len(Text) \in Nat /\ Len(Text') \in Nat
    BY <1>3, <1>5, AppendProperties
  <2>5. \A i \in 0 .. Filled - 1 : stdin'[i] = Text'[i + 1]
    BY <1>2, <2>1, <2>3, <2>4 DEF Copied
  <2> QED  BY <1>2, <2>1, <2>2, <2>3, <2>4, <2>5 DEF Copied
<1> QED  BY <1>1, <1>2, <1>3, <1>6, <1>7, <1>8

(* A step of stdin_loop.                                                   *)
LEMMA StdinStep ==
  ASSUME PipelineInv, stdin_loop
  PROVE  PipelineInv' /\ UNCHANGED <<char_buffer, stdin_out_count, lines>>
<1> USE DEF PipelineInv
<1>1. UNCHANGED <<char_buffer, stdin_out_count, lines>>
  BY DEF stdin_loop, Stdin, Poll, Compare, Take, Save, Publish, InsertIf, Fill, LoadLines, StoreLines,
     buffers, echo
<1>2. Text' = Text /\ \A n : Rank(char_buffer', n) = Rank(char_buffer, n)
  BY <1>1 DEF Text, TextOf, Rank, Visible
<1>3. Len(char_buffer) \in Nat
  BY DEF Types
<1>4. CASE Poll
  <2>1. Types'
    BY <1>1, <1>4 DEF Poll, Stdin, Types, current_char_in, buffers
  <2>2. Taking'
    BY <1>3, <1>4 DEF Poll, Stdin, Types, Taking, Holding, current_char_in
  <2>3. Copied'
    BY <1>1, <1>2, <1>4 DEF Poll, Stdin, Copied, Filled, Passed, Holding, buffers
  <2> QED  BY <1>1, <2>1, <2>2, <2>3
<1>5. CASE Compare
  <2>1. Types'
    BY <1>1, <1>5 DEF Compare, Stdin, Types, buffers
  <2>2. Taking'
    BY <1>3, <1>5 DEF Compare, Stdin, Types, Taking, Holding
  <2>3. Copied'
    BY <1>1, <1>2, <1>5 DEF Compare, Stdin, Copied, Filled, Passed, Holding, buffers
  <2> QED  BY <1>1, <2>1, <2>2, <2>3
<1>6. CASE Take
  <2>1. current_char_out < Len(char_buffer) /\ c' = char_buffer[current_char_out + 1]
        /\ current_char_out' = current_char_out + 1 /\ spc = "take" /\ spc' = "save"
    BY <1>6 DEF Take, Stdin, Taking, current_char_in
  <2>2. Types'
    BY <1>1, <1>6, <2>1 DEF Take, Stdin, Types, buffers
  <2>3. Taking'
    BY <1>1, <1>3, <2>1 DEF Types, Taking, Holding
  <2>4. Copied'
    <3>1. Filled' = Filled /\ Passed' = Passed
      BY <1>6, <2>1 DEF Take, Filled, Passed, Holding, buffers, Types
    <3> QED  BY <1>2, <1>6, <3>1 DEF Take, Copied, buffers
  <2> QED  BY <1>1, <2>2, <2>3, <2>4
<1>7. CASE Save
  <2>1. Types'
    BY <1>1, <1>7 DEF Save, Stdin, Types, buffers
  <2>2. Taking'
    BY <1>1, <1>7 DEF Save, Stdin, Types, Taking, Holding
  <2>3. Copied'
    BY <1>1, <1>2, <1>7 DEF Save, Stdin, Copied, Filled, Passed, Holding, buffers
  <2> QED  BY <1>1, <2>1, <2>2, <2>3
<1>8. CASE Publish
  <2>1. /\ spc = "insert" /\ current_char_out > 0 /\ c = char_buffer[current_char_out]
        /\ UNCHANGED <<current_char_out, stdin, new_line_count, c, acc>>
        /\ Filled = stdin_in_count /\ Passed = current_char_out - 1
    BY <1>8 DEF Publish, InsertIf, Stdin, Taking, Holding, Filled, Passed
  <2>2. CASE stdin_in_count < StdinSize /\ c # NUL
    <3>1. spc' = "fill" /\ stdin_in_count' = stdin_in_count + 1
      BY <1>8, <2>2 DEF Publish, InsertIf, Stdin
    <3>2. Types'
      BY <1>1, <2>1, <2>2, <3>1, SizeAssumption DEF Types
    <3>3. Taking'
      BY <1>1, <2>1, <2>2, <3>1 DEF Types, Taking, Holding
    <3>4. Filled' = Filled /\ Passed' = Passed
      BY <2>1, <3>1 DEF Types, Filled, Passed, Holding
    <3>5. Copied'
      BY <1>2, <2>1, <3>4 DEF Copied
    <3> QED  BY <1>1, <3>2, <3>3, <3>5
  <2>3. CASE ~ (stdin_in_count < StdinSize /\ c # NUL)
    <3>1. spc' = "poll" /\ stdin_in_count' = stdin_in_count
      BY <1>8, <2>3 DEF Publish, InsertIf, Stdin
    <3>2. Types'
      BY <1>1, <2>1, <3>1 DEF Types
    <3>3. Taking'
      BY <3>1 DEF Taking, Holding
    <3>4. Filled' = Filled /\ Passed' = current_char_out
      BY <2>1, <3>1 DEF Filled, Passed, Holding
    <3>5. Filled < StdinSize => Rank(char_buffer, current_char_out) = Filled
      <4>1. Rank(char_buffer, current_char_out) = IF c = NUL THEN Rank(char_buffer, current_char_out - 1)
                                                  ELSE Rank(char_buffer, current_char_out - 1) + 1
        BY <2>1, RankOfNext DEF Types
      <4> QED  BY <2>1, <2>3, <4>1 DEF Copied
    <3>6. Copied'
      BY <1>2, <2>1, <3>4, <3>5 DEF Copied
    <3> QED  BY <1>1, <3>2, <3>3, <3>6
  <2> QED  BY <2>2, <2>3
<1>9. CASE Fill
  <2>1. /\ spc = "fill" /\ current_char_out > 0 /\ c = char_buffer[current_char_out] /\ c # NUL
        /\ stdin_in_count > 0 /\ spc' \in {"nl_load", "poll"}
        /\ UNCHANGED <<current_char_out, stdin_in_count, new_line_count, c, acc>>
        /\ stdin' = [stdin EXCEPT ![stdin_in_count - 1] = c]
        /\ Filled = stdin_in_count - 1 /\ Passed = current_char_out - 1
    BY <1>9 DEF Fill, Stdin, Taking, Holding, Filled, Passed
  <2>2. Types'
    BY <1>1, <2>1 DEF Types
  <2>3. Taking'
    BY <2>1 DEF Taking, Holding
  <2>4. Filled' = Filled + 1 /\ Passed' = current_char_out /\ Filled \in 0 .. StdinSize - 1
    BY <2>1, SizeAssumption DEF Filled, Passed, Holding, Types
  <2>5. current_char_out \in Visible(char_buffer, Len(char_buffer))
    BY <1>3, <2>1 DEF Visible, Types
  <2>6. Rank(char_buffer, current_char_out) = Filled + 1
    <3>1. Rank(char_buffer, current_char_out) = Rank(char_buffer, current_char_out - 1) + 1
      BY <2>1, RankOfNext DEF Types
    <3> QED  BY <2>1, <2>4, <3>1, SizeAssumption DEF Copied
  <2>7. Filled + 1 \in 1 .. Len(Text) /\ Text[Filled + 1] = c
    BY <2>1, <2>5, <2>6, TextIsRanked DEF Types, Text
  <2>8. ASSUME NEW i \in 0 .. StdinSize - 1 PROVE stdin'[i] = IF i = Filled THEN c ELSE stdin[i]
    BY <2>1 DEF Types
  <2>9. \A i \in 0 .. Filled' - 1 : stdin'[i] = Text[i + 1]
    BY <2>4, <2>7, <2>8, SizeAssumption DEF Copied
  <2>10. \A i \in Filled' .. StdinSize - 1 : stdin'[i] # NL
    BY <2>4, <2>8, SizeAssumption DEF Copied
  <2>11. Copied'
    BY <1>2, <2>4, <2>6, <2>7, <2>9, <2>10 DEF Copied
  <2> QED  BY <1>1, <2>2, <2>3, <2>11
<1>10. CASE LoadLines
  <2>1. Types'
    BY <1>1, <1>10 DEF LoadLines, Stdin, Types, buffers
  <2>2. Taking'
    BY <1>10 DEF LoadLines, Stdin, Taking, Holding
  <2>3. Copied'
    BY <1>1, <1>2, <1>10 DEF LoadLines, Stdin, Copied, Filled, Passed, Holding, buffers
  <2> QED  BY <1>1, <2>1, <2>2, <2>3
<1>11. CASE StoreLines
  <2>1. Types'
    BY <1>1, <1>11 DEF StoreLines, Stdin, Types, buffers
  <2>2. Taking'
    BY <1>11 DEF StoreLines, Stdin, Taking, Holding
  <2>3. Copied'
    BY <1>1, <1>2, <1>11 DEF StoreLines, Stdin, Copied, Filled, Passed, Holding, buffers
  <2> QED  BY <1>1, <2>1, <2>2, <2>3
<1> QED  BY <1>1, <1>4, <1>5, <1>6, <1>7, <1>8, <1>9, <1>10, <1>11 DEF stdin_loop

(* A step of echo_task: read_line takes the first line of the text that is *)
(* not yet delivered, all of it stored.                                    *)
LEMMA LineIsNext ==
  ASSUME PipelineInv, NEW n, LineEnd(n)
  PROVE  /\ n \in stdin_out_count .. Filled - 1 /\ n + 1 \in stdin_out_count + 1 .. Len(Text)
         /\ Text[n + 1] = NL /\ \A i \in stdin_out_count + 1 .. n : Text[i] # NL
         /\ [i \in 1 .. n + 1 - stdin_out_count |-> stdin[stdin_out_count + i - 1]]
            = SubSeq(Text, stdin_out_count + 1, n + 1)
<1> USE DEF PipelineInv
<1>1. n \in stdin_out_count .. stdin_in_count - 1 /\ stdin[n] = NL
      /\ \A i \in stdin_out_count .. n - 1 : stdin[i] # NL
  BY DEF LineEnd
<1>2. stdin_out_count \in Nat /\ stdin_in_count \in 0 .. StdinSize /\ StdinSize \in Nat
      /\ stdin_out_count <= stdin_in_count /\ n \in Nat
  BY <1>1, SizeAssumption DEF Types
<1>3. Filled \in {stdin_in_count, stdin_in_count - 1}
  BY DEF Filled
<1>4. n < Filled
  <2>1. n \notin Filled .. StdinSize - 1
    BY <1>1 DEF Copied
  <2> QED  BY <1>1, <1>2, <1>3, <2>1
<1>5. Text \in Seq(Char) /\ Len(Text) \in Nat /\ Filled <= Len(Text) /\ Filled \in Int
  BY <1>2, <1>3, TextIsRanked DEF Types, Text, Copied
<1>6. \A i \in 0 .. n : stdin[i] = Text[i + 1]
  BY <1>2, <1>3, <1>4, <1>5 DEF Copied
<1>7. ASSUME NEW i \in stdin_out_count + 1 .. n PROVE Text[i] # NL
  <2>1. i - 1 \in stdin_out_count .. n - 1 /\ i - 1 \in 0 .. n /\ (i - 1) + 1 = i
    BY <1>2
  <2> QED  BY <1>1, <1>6, <2>1
<1>8. Text[n + 1] = NL
  BY <1>1, <1>2, <1>6
<1>9. [i \in 1 .. n + 1 - stdin_out_count |-> stdin[stdin_out_count + i - 1]]
      = SubSeq(Text, stdin_out_count + 1, n + 1)
  <2> DEFINE m == stdin_out_count + 1
             k == n + 1
  <2>1. m \in 1 .. Len(Text) + 1 /\ k \in m - 1 .. Len(Text) /\ m \in Nat /\ k \in Nat
    BY <1>1, <1>2, <1>4, <1>5
  <2>2. /\ SubSeq(Text, m, k) \in Seq(Char) /\ Len(SubSeq(Text, m, k)) = k - m + 1
        /\ \A i \in 1 .. k - m + 1 : SubSeq(Text, m, k)[i] = Text[m + i - 1]
    <3>1. m \in Int /\ k \in Int /\ m <= k /\ \A i \in m .. k : Text[i] \in Char
      BY <1>1, <1>2, <1>5, <2>1
    <3> HIDE DEF m, k
    <3> QED  BY <3>1, SubSeqProperties
  <2>3. k - m + 1 = n + 1 - stdin_out_count
    BY <1>2
  <2>4. ASSUME NEW i \in 1 .. n + 1 - stdin_out_count
        PROVE  stdin[stdin_out_count + i - 1] = Text[i + m - 1]
    <3>1. stdin_out_count + i - 1 \in 0 .. n /\ (stdin_out_count + i - 1) + 1 = i + m - 1
      BY <1>1, <1>2
    <3> QED  BY <1>6, <3>1
  <2> HIDE DEF m, k
  <2> DEFINE line == [i \in 1 .. n + 1 - stdin_out_count |-> stdin[stdin_out_count + i - 1]]
  <2>5. \A i \in 1 .. n + 1 - stdin_out_count : line[i] = Text[m + i - 1]
    <3>1. \A i \in 1 .. n + 1 - stdin_out_count : i + m - 1 = m + i - 1
      BY <2>1
    <3> QED  BY <2>4, <3>1
  <2>6. line \in Seq(Char) /\ Len(line) = n + 1 - stdin_out_count
    <3>1. n + 1 - stdin_out_count \in Nat
      BY <1>1, <1>2
    <3>2. \A i \in 1 .. n + 1 - stdin_out_count : stdin[stdin_out_count + i - 1] \in Char
      BY <1>1, <1>2 DEF Types
    <3> QED  BY <3>1, <3>2
  <2> HIDE DEF line
  <2>7. line = SubSeq(Text, m, k)
    BY <2>2, <2>3, <2>5, <2>6, SeqEqual
  <2> QED  BY <2>7 DEF m, k, line
<1>10. n \in stdin_out_count .. Filled - 1
  BY <1>1, <1>2, <1>4, <1>5
<1>11. n + 1 \in stdin_out_count + 1 .. Len(Text)
  BY <1>2, <1>5, <1>10
<1> QED  BY <1>7, <1>8, <1>9, <1>10, <1>11

LEMMA EchoStep ==
  ASSUME PipelineInv, echo_task
  PROVE  PipelineInv' /\ char_buffer' = char_buffer
         /\ (UNCHANGED <<stdin_out_count, lines>> \/ ReadLine)
<1> USE DEF PipelineInv
<1>1. UNCHANGED <<char_buffer, current_char_out, stdin, stdin_in_count, spc, c>>
  BY DEF echo_task, Echo, LoadWait, TestWait, EnterRead, ReadNothing, ReadLine, ExitRead
<1>2. acc' = acc \/ acc' = [acc EXCEPT !["echo"] = new_line_count]
  BY DEF echo_task, LoadWait, TestWait, EnterRead, ReadNothing, ReadLine, ExitRead, TakeLine
<1>3. acc' \in [{"stdin", "echo"} -> Nat] /\ acc'["stdin"] = acc["stdin"]
  BY <1>2 DEF Types
<1>4. new_line_count' \in Nat
  <2>1. new_line_count' = new_line_count
        \/ new_line_count' = IF new_line_count > 0 THEN new_line_count - 1 ELSE new_line_count
    BY DEF echo_task, LoadWait, TestWait, EnterRead, ReadNothing, ReadLine, ExitRead
  <2>2. new_line_count \in Nat
    BY DEF Types
  <2> QED  BY <2>1, <2>2
<1>5. stdin_out_count' \in 0 .. stdin_in_count
  <2>1. CASE ReadLine
    <3>1. PICK n \in stdin_out_count .. stdin_in_count - 1 : TakeLine(n, n + 1)
      BY <2>1 DEF ReadLine
    <3> QED  BY <3>1 DEF TakeLine, Types
  <2>2. CASE stdin_out_count' = stdin_out_count
    BY <2>2 DEF Types
  <2> QED  BY <2>1, <2>2 DEF echo_task, LoadWait, TestWait, EnterRead, ReadNothing, ExitRead
<1>6. Types'
  BY <1>1, <1>3, <1>4, <1>5 DEF Types
<1>7. Taking'
  BY <1>1, <1>3 DEF Taking, Holding
<1>8. Copied'
  <2>1. Text' = Text /\ Filled' = Filled /\ Passed' = Passed
    BY <1>1 DEF Filled, Passed, Holding, Text
  <2>2. Rank(char_buffer, Passed)' = Rank(char_buffer, Passed)
    BY <1>1, <2>1 DEF Rank, Visible
  <2> QED  BY <1>1, <2>1, <2>2 DEF Copied
<1>9. UNCHANGED <<stdin_out_count, lines>> \/ ReadLine
  BY DEF echo_task, LoadWait, TestWait, EnterRead, ReadNothing, ExitRead
<1> QED  BY <1>1, <1>6, <1>7, <1>8, <1>9

LEMMA OtherStep ==
  ASSUME PipelineInv, UNCHANGED vars \/ \E t \in Tasks : SwitchTo(t)
  PROVE  PipelineInv' /\ UNCHANGED <<char_buffer, stdin_out_count, lines, stdin, stdin_in_count, new_line_count, spc, c, acc>>
<1>1. UNCHANGED <<char_buffer, current_char_out, stdin, stdin_in_count, stdin_out_count,
                  new_line_count, spc, c, acc, lines>>
  BY DEF vars, SwitchTo, buffers, echo
<1>2. Types' /\ Taking'
  BY <1>1 DEF PipelineInv, Types, Taking, Holding
<1>3. Copied'
  <2>1. Text' = Text /\ Filled' = Filled /\ Passed' = Passed
    BY <1>1 DEF Filled, Passed, Holding, Text
  <2>2. Rank(char_buffer, Passed)' = Rank(char_buffer, Passed)
    BY <1>1, <2>1 DEF Rank, Visible
  <2> QED  BY <1>1, <2>1, <2>2 DEF PipelineInv, Copied
<1> QED  BY <1>1, <1>2, <1>3 DEF PipelineInv

LEMMA PipelineStep == ASSUME PipelineInv, Clean, [Next]_vars PROVE PipelineInv'
BY KeyStep, StdinStep, EchoStep, OtherStep DEF Next

(* The echo task gets the typed lines: stdin.c implements LineChannel.     *)
THEOREM LinesDelivered == ASSUME Clean PROVE Spec => LinesFaithful
<1>1. Init => LC!Init
  <2> SUFFICES ASSUME Init PROVE LC!Init
    OBVIOUS
  <2>1. PipelineInv
    BY PipelineInit
  <2>2. Text = <<>>
    <3>1. char_buffer \in Seq(Char) /\ Len(char_buffer) = 0
      BY DEF Init
    <3>2. Rank(char_buffer, 0) = 0
      BY Ranks
    <3>3. Text \in Seq(Char) /\ Len(Text) = 0
      BY <3>1, <3>2, TextIsRanked DEF Text
    <3> QED  BY <3>3, EmptySeq
  <2> QED  BY <2>2 DEF Init, LC!Init
<1>2. PipelineInv /\ [Next]_vars => [LC!Next]_LC!vars
  <2> SUFFICES ASSUME PipelineInv, [Next]_vars PROVE [LC!Next]_LC!vars
    OBVIOUS
  <2>1. CASE char_buffer' = char_buffer /\ UNCHANGED <<stdin_out_count, lines>>
    BY <2>1 DEF LC!vars, Text, TextOf, Rank, Visible
  <2>2. CASE keyboard_isr
    <3>1. PICK k \in Char : Text' = IF k = NUL THEN Text ELSE Append(Text, k)
      BY <2>2, KeyStep
    <3>2. UNCHANGED <<stdin_out_count, lines>>
      BY <2>2, KeyStep
    <3>3. CASE k = NUL
      BY <3>1, <3>2, <3>3 DEF LC!vars
    <3>4. CASE k # NUL
      BY <3>1, <3>2, <3>4 DEF LC!Next, LC!Type
    <3> QED  BY <3>3, <3>4
  <2>3. CASE ReadLine
    <3>1. char_buffer' = char_buffer
      BY <2>3, EchoStep DEF echo_task
    <3>2. Text' = Text
      BY <3>1 DEF Text, TextOf, Rank, Visible
    <3>3. PICK n \in stdin_out_count .. stdin_in_count - 1 : TakeLine(n, n + 1)
      BY <2>3 DEF ReadLine
    <3>4. n \in Nat /\ n + 1 - 1 = n
      BY DEF PipelineInv, Types
    <3>5. LC!IsNextLine(n + 1)
      BY <3>3, <3>4, LineIsNext DEF LC!IsNextLine, TakeLine
    <3>6. lines' = Append(lines, SubSeq(Text, stdin_out_count + 1, n + 1)) /\ stdin_out_count' = n + 1
      BY <3>3, LineIsNext DEF TakeLine
    <3>7. n + 1 \in stdin_out_count + 1 .. Len(Text)
      BY <3>3, LineIsNext DEF TakeLine
    <3> QED  BY <3>2, <3>5, <3>6, <3>7 DEF LC!Next, LC!Deliver
  <2> QED  BY <2>1, <2>2, <2>3, StdinStep, EchoStep, OtherStep DEF Next
<1> QED  BY <1>1, <1>2, PipelineInit, PipelineStep, PTL DEF Spec, LinesFaithful, LC!Spec

-----------------------------------------------------------------------------
(* The count of lines is never too low: what each step makes of the        *)
(* complete lines in the buffer.                                           *)
LEMMA PendingFinite == ASSUME Types PROVE IsFiniteSet(Pending) /\ Cardinality(Pending) \in Nat
<1>1. IsFiniteSet(stdin_out_count .. stdin_in_count - 1)
  BY FS_Interval, SizeAssumption DEF Types
<1>2. Pending \subseteq stdin_out_count .. stdin_in_count - 1
  BY DEF Pending
<1> QED  BY <1>1, <1>2, FS_Subset, FS_CardinalityType

LEMMA CountedStep == ASSUME PipelineInv, Counted, Clean, [Next]_vars PROVE Counted'
<1> USE DEF PipelineInv
<1>1. /\ stdin_in_count \in 0 .. StdinSize /\ stdin_out_count \in 0 .. stdin_in_count /\ StdinSize \in Nat
      /\ new_line_count \in Nat /\ acc \in [{"stdin", "echo"} -> Nat]
      /\ IsFiniteSet(Pending) /\ Cardinality(Pending) \in Nat
  BY PendingFinite, SizeAssumption DEF Types
<1>2. /\ spc \in {"nl_load", "nl_store"} => Cardinality(Pending) <= new_line_count + 1
      /\ spc \notin {"nl_load", "nl_store"} => Cardinality(Pending) <= new_line_count
      /\ spc = "nl_store" => Cardinality(Pending) <= acc["stdin"]
  BY <1>1 DEF Counted, LinesCounted, BeingCounted
<1>3. SUFFICES
        /\ spc' \in {"nl_load", "nl_store"} => Cardinality(Pending') <= new_line_count' + 1
        /\ spc' \notin {"nl_load", "nl_store"} => Cardinality(Pending') <= new_line_count'
        /\ spc' = "nl_store" => Cardinality(Pending') <= acc'["stdin"]
  <2>1. new_line_count' \in Nat
    BY PipelineStep DEF Types
  <2> QED  BY <2>1 DEF Counted, LinesCounted, BeingCounted
<1>4. CASE UNCHANGED <<stdin, stdin_in_count, stdin_out_count, new_line_count, spc, acc>>
  BY <1>2, <1>4 DEF Pending
<1>5. CASE stdin_loop /\ UNCHANGED <<stdin, stdin_in_count>>
  <2>1. stdin_out_count' = stdin_out_count
    BY <1>5, StdinStep
  <2>2. Pending' = Pending
    BY <1>5, <2>1 DEF Pending
  <2>3. CASE LoadLines
    <3>1. spc' = "nl_store" /\ spc = "nl_load" /\ acc'["stdin"] = new_line_count + 1
          /\ new_line_count' = new_line_count
      BY <1>1, <2>3 DEF LoadLines, Stdin
    <3> QED  BY <1>1, <1>2, <2>2, <3>1
  <2>4. CASE StoreLines
    <3>1. spc' = "poll" /\ spc = "nl_store" /\ new_line_count' = acc["stdin"]
      BY <2>4 DEF StoreLines, Stdin
    <3> QED  BY <1>1, <1>2, <2>2, <3>1
  <2>5. CASE Fill
    <3>1. spc = "fill" /\ spc' \in {"nl_load", "poll"} /\ new_line_count' = new_line_count
      BY <2>5 DEF Fill, Stdin
    <3> QED  BY <1>1, <1>2, <2>2, <3>1
  <2>6. CASE Poll \/ Compare \/ Take \/ Save \/ Publish
    <3>1. spc \notin {"nl_load", "nl_store"} /\ spc' \notin {"nl_load", "nl_store"}
          /\ new_line_count' = new_line_count
      BY <2>6 DEF Poll, Compare, Take, Save, Publish, InsertIf, Stdin
    <3> QED  BY <1>1, <1>2, <2>2, <3>1
  <2> QED  BY <1>5, <2>3, <2>4, <2>5, <2>6 DEF stdin_loop
<1>6. CASE Publish
  <2>1. /\ spc = "insert" /\ spc' \in {"fill", "poll"} /\ new_line_count' = new_line_count
        /\ stdin' = stdin /\ stdin_out_count' = stdin_out_count
        /\ \/ stdin_in_count' = stdin_in_count
           \/ stdin_in_count < StdinSize /\ stdin_in_count' = stdin_in_count + 1
    BY <1>6 DEF Publish, InsertIf, Stdin
  <2>2. stdin_in_count < StdinSize => stdin[stdin_in_count] # NL
    BY <1>1, <2>1 DEF Copied, Filled
  <2>3. Pending' = Pending
    BY <1>1, <2>1, <2>2 DEF Pending
  <2> QED  BY <1>1, <1>2, <2>1, <2>3
<1>7. CASE Fill
  <2>1. /\ spc = "fill" /\ spc' = (IF c = NL THEN "nl_load" ELSE "poll")
        /\ UNCHANGED <<new_line_count, stdin_in_count, stdin_out_count>>
        /\ stdin' = [stdin EXCEPT ![stdin_in_count - 1] = c] /\ stdin_in_count > 0
    BY <1>7, StdinStep DEF Fill, Stdin, Taking, stdin_loop
  <2>2. \A i \in 0 .. StdinSize - 1 : stdin'[i] = IF i = stdin_in_count - 1 THEN c ELSE stdin[i]
    BY <2>1 DEF Types
  <2>3. stdin[stdin_in_count - 1] # NL
    BY <1>1, <2>1 DEF Copied, Filled
  <2>4. CASE c = NL
    <3>1. Pending' \subseteq Pending \cup {stdin_in_count - 1}
      BY <1>1, <2>1, <2>2 DEF Pending
    <3>2. IsFiniteSet(Pending \cup {stdin_in_count - 1})
          /\ Cardinality(Pending \cup {stdin_in_count - 1}) <= Cardinality(Pending) + 1
          /\ Cardinality(Pending \cup {stdin_in_count - 1}) \in Nat
      <4> DEFINE x == stdin_in_count - 1
      <4>1. /\ IsFiniteSet(Pending \cup {x})
            /\ Cardinality(Pending \cup {x}) \in {Cardinality(Pending), Cardinality(Pending) + 1}
        BY <1>1, FS_AddElement
      <4> QED  BY <1>1, <4>1
    <3>3. Cardinality(Pending') <= Cardinality(Pending \cup {stdin_in_count - 1}) /\ Cardinality(Pending') \in Nat
      BY <3>1, <3>2, FS_Subset, FS_CardinalityType
    <3> QED  BY <1>1, <1>2, <2>1, <2>4, <3>2, <3>3
  <2>5. CASE c # NL
    <3>1. Pending' = Pending
      BY <1>1, <2>1, <2>2, <2>3, <2>5 DEF Pending
    <3> QED  BY <1>1, <1>2, <2>1, <2>5, <3>1
  <2> QED  BY <2>4, <2>5
<1>8. CASE ReadLine
  <2>1. PICK n \in stdin_out_count .. stdin_in_count - 1 : TakeLine(n, n + 1)
    BY <1>8 DEF ReadLine
  <2>2. /\ stdin_out_count' = n + 1 /\ UNCHANGED <<stdin, stdin_in_count, spc, acc>>
        /\ new_line_count' = IF new_line_count > 0 THEN new_line_count - 1 ELSE new_line_count
        /\ stdin[n] = NL /\ \A i \in stdin_out_count .. n - 1 : stdin[i] # NL
    BY <1>8, <2>1 DEF ReadLine, TakeLine, LineEnd, Echo
  <2>3. Pending' = Pending \ {n} /\ n \in Pending
    BY <1>1, <2>2 DEF Pending
  <2>4. Cardinality(Pending') = Cardinality(Pending) - 1 /\ Cardinality(Pending') \in Nat
    BY <1>1, <2>3, FS_RemoveElement, FS_CardinalityType
  <2> QED  BY <1>1, <1>2, <2>2, <2>4
<1>9. CASE echo_task /\ ~ ReadLine
  <2>1. /\ UNCHANGED <<stdin, stdin_in_count, stdin_out_count, new_line_count, spc>>
        /\ acc' = acc \/ acc' = [acc EXCEPT !["echo"] = new_line_count]
    BY <1>9 DEF echo_task, Echo, LoadWait, TestWait, EnterRead, ReadNothing, ExitRead
  <2>2. acc'["stdin"] = acc["stdin"] /\ Pending' = Pending
    BY <1>1, <2>1 DEF Pending
  <2> QED  BY <1>2, <2>1, <2>2
<1>10. UNCHANGED <<stdin, stdin_in_count>> \/ Publish \/ Fill \/ ~ stdin_loop
  BY DEF stdin_loop, Poll, Compare, Take, Save, LoadLines, StoreLines, buffers
<1> QED  BY <1>4, <1>5, <1>6, <1>7, <1>8, <1>9, <1>10, KeyStep, OtherStep DEF Next

(* The unlocked count of the stdin task covers every complete line.        *)
THEOREM CountNeverLow == ASSUME Clean PROVE Spec => []LinesCounted
<1>1. Counted => LinesCounted
  BY DEF Counted
<1>2. PipelineInv /\ Counted /\ [Next]_vars => (PipelineInv /\ Counted)'
  BY PipelineStep, CountedStep
<1> QED  BY <1>1, <1>2, PipelineInit, PTL DEF Spec
=============================================================================
