---------------------------- MODULE KeyboardProofs ----------------------------
(***************************************************************************)
(* For every keyboard, every size of the controller's queue and every      *)
(* rhythm of the keys: keyboard.c translates the codes that come one at a  *)
(* time as typed, handles the last code of every burst, and so repairs its *)
(* shift state.                                                            *)
(***************************************************************************)
EXTENDS Keyboard, SequenceTheorems, TLAPS

Printed == {NUL, Question} \cup [key : Keys, shifted : BOOLEAN]

Types ==
  /\ sent \in Seq(Code) /\ queue \in Seq(Code) /\ shown \in Code
  /\ handled \in Seq(Code) /\ chars \in Seq(Printed)
  /\ request \in BOOLEAN /\ bunched \in BOOLEAN /\ is_l_shifted \in BOOLEAN
  /\ down \subseteq Keys

(* The queue holds the codes sent last, and a request is there for it.     *)
ReadCount == Len(sent) - Len(queue)

Queued ==
  /\ ReadCount \in Nat
  /\ \A i \in 1 .. Len(queue) : queue[i] = sent[ReadCount + i]
  /\ (queue # <<>> => request) /\ (request => sent # <<>>)

(* What was read last is what was handled last; of the shift key, it is    *)
(* what is_l_shifted says.                                                 *)
HandledLast ==
  /\ ReadCount > 0 =>
       /\ shown = sent[ReadCount]
       /\ handled # <<>> /\ handled[Len(handled)] = shown
       /\ shown.key = LShift => (is_l_shifted <=> ~ shown.up)
  /\ ReadCount = 0 => handled = <<>>

(* The key itself is where its last code says.                             *)
HeldNow ==
  sent # <<>> /\ sent[Len(sent)].key = LShift => (LShift \in down <=> ~ sent[Len(sent)].up)

LatestInv == Types /\ Queued /\ HandledLast /\ HeldNow

(* One code at a time: each is read before the next one comes.             *)
OneByOne ==
  ~ bunched =>
    /\ Len(queue) <= 1 /\ (request => queue # <<>>)
    /\ Len(chars) = ReadCount /\ \A i \in 1 .. ReadCount : chars[i] = Typed(i)
    /\ is_l_shifted <=> HeldAt(ReadCount)

KeyboardInv == LatestInv /\ OneByOne

LEMMA KeyboardInit == Init => KeyboardInv
<1> SUFFICES ASSUME Init PROVE KeyboardInv
  OBVIOUS
<1> USE DEF Init
<1>1. Types
  <2>1. shown \in Code
    BY DEF Code, Keys
  <2>2. request \in BOOLEAN /\ bunched \in BOOLEAN /\ is_l_shifted \in BOOLEAN /\ down \subseteq Keys
    OBVIOUS
  <2>3. sent \in Seq(Code) /\ queue \in Seq(Code) /\ handled \in Seq(Code) /\ chars \in Seq(Printed)
    OBVIOUS
  <2> QED  BY <2>1, <2>2, <2>3 DEF Types
<1>2. ReadCount = 0 /\ Queued /\ HandledLast /\ HeldNow
  BY DEF ReadCount, Queued, HandledLast, HeldNow
<1>3. OneByOne
  BY <1>2 DEF OneByOne, HeldAt
<1> QED  BY <1>1, <1>2, <1>3 DEF KeyboardInv, LatestInv

-----------------------------------------------------------------------------
(* A code that is sent changes nothing about those before it.              *)
LEMMA SentBefore ==
  ASSUME Types, NEW c \in Code, sent' = Append(sent, c), NEW n \in 0 .. Len(sent)
  PROVE  (HeldAt(n) <=> HeldAt(n)') /\ (n # 0 => Typed(n)' = Typed(n))
<1>1. \A i \in 1 .. Len(sent) : sent'[i] = sent[i]
  BY DEF Types
<1>2. HeldAt(n) <=> HeldAt(n)'
  <2>1. {i \in 1 .. n : sent[i].key = LShift} = {i \in 1 .. n : sent'[i].key = LShift}
    BY <1>1 DEF Types
  <2> QED  BY <1>1, <2>1 DEF HeldAt, Types
<1>3. ASSUME n # 0 PROVE Typed(n)' = Typed(n)
  <2>1. sent'[n] = sent[n]
    BY <1>1, <1>3 DEF Types
  <2>2. HeldAt(n)' = HeldAt(n)
    BY <1>2 DEF HeldAt
  <2> QED  BY <2>1, <2>2 DEF Typed
<1> QED  BY <1>2, <1>3

LEMMA SendStep ==
  ASSUME KeyboardInv, NEW c \in Code, Send(c),
         down' \subseteq Keys, c.key = LShift => (LShift \in down' <=> ~ c.up)
  PROVE  KeyboardInv'
<1> USE DEF KeyboardInv, LatestInv
<1>1. /\ sent' \in Seq(Code) /\ Len(sent') = Len(sent) + 1 /\ sent'[Len(sent) + 1] = c
      /\ \A i \in 1 .. Len(sent) : sent'[i] = sent[i]
  BY DEF Send, Types
<1>2. /\ queue' \in Seq(Code) /\ Len(queue') = Len(queue) + 1 /\ queue'[Len(queue) + 1] = c
      /\ \A i \in 1 .. Len(queue) : queue'[i] = queue[i]
  BY DEF Send, Types
<1>3. Types'
  BY <1>1, <1>2 DEF Send, Types
<1>4. Len(sent) \in Nat /\ Len(queue) \in Nat /\ ReadCount' = ReadCount /\ ReadCount \in 0 .. Len(sent)
  BY <1>1, <1>2 DEF ReadCount, Queued, Types
<1>5. Queued'
  <2>1. ASSUME NEW i \in 1 .. Len(queue') PROVE queue'[i] = sent'[ReadCount' + i]
    <3>1. CASE i \in 1 .. Len(queue)
      BY <1>1, <1>2, <1>4, <3>1 DEF Queued, ReadCount
    <3>2. CASE i = Len(queue) + 1
      BY <1>1, <1>2, <1>4, <3>2 DEF ReadCount
    <3> QED  BY <1>2, <1>4, <3>1, <3>2
  <2>2. request' = TRUE
    BY DEF Send
  <2>3. sent' # <<>>
    BY <1>1
  <2> QED  BY <1>4, <2>1, <2>2, <2>3 DEF Queued
<1>6. HandledLast'
  BY <1>1, <1>4 DEF HandledLast, Send
<1>7. HeldNow'
  BY <1>1 DEF HeldNow
<1>8. OneByOne'
  <2> SUFFICES ASSUME ~ bunched'
               PROVE  /\ Len(queue') <= 1 /\ (request' => queue' # <<>>)
                      /\ Len(chars') = ReadCount'
                      /\ \A i \in 1 .. ReadCount' : chars'[i] = Typed(i)'
                      /\ is_l_shifted' <=> HeldAt(ReadCount)'
    BY DEF OneByOne
  <2>1. ~ bunched /\ queue = <<>> /\ ~ request /\ chars' = chars /\ is_l_shifted' = is_l_shifted
    BY DEF Send, Types
  <2>2. sent' = Append(sent, c)
    BY DEF Send
  <2>3. HeldAt(ReadCount) <=> HeldAt(ReadCount)'
    BY <1>4, <2>2, SentBefore
  <2>4. \A i \in 1 .. ReadCount : Typed(i)' = Typed(i)
    BY <1>4, <2>2, SentBefore
  <2>5. Len(queue') = 1 /\ queue' # <<>>
    BY <1>2, <2>1
  <2> QED  BY <1>4, <2>1, <2>3, <2>4, <2>5 DEF OneByOne
<1> QED  BY <1>3, <1>5, <1>6, <1>7, <1>8

-----------------------------------------------------------------------------
(* The two reads of port 0x60: the codes read leave the queue, and the     *)
(* second one is the last of them.                                         *)
LEMMA TwoReads ==
  ASSUME KeyboardInv, keyboard_isr
  PROVE  /\ queue' \in Seq(Code) /\ ReadCount' \in 1 .. Len(sent) /\ sent' = sent
         /\ \A i \in 1 .. Len(queue') : queue'[i] = sent[ReadCount' + i]
         /\ shown' = sent[ReadCount'] /\ shown' \in Code
         /\ Len(queue) <= 1 => queue' = <<>>
         /\ Len(queue) = 1 => ReadCount' = ReadCount + 1
         /\ request' \in BOOLEAN /\ (queue' # <<>> => request') /\ (Len(queue) < 2 => ~ request')
<1>1. /\ sent' = sent /\ sent \in Seq(Code) /\ queue \in Seq(Code)
      /\ Len(sent) \in Nat \ {0} /\ Len(queue) \in 0 .. Len(sent)
      /\ ReadCount = Len(sent) - Len(queue) /\ ReadCount' = Len(sent) - Len(queue')
      /\ \A i \in 1 .. Len(queue) : queue[i] = sent[ReadCount + i]
  BY DEF KeyboardInv, LatestInv, Types, Queued, ReadCount, keyboard_isr
<1>2. /\ queue' = PortRest(PortRest(queue))
      /\ shown' = PortCode(PortRest(queue), PortCode(queue, shown))
  BY DEF keyboard_isr
<1>3. request' \in BOOLEAN /\ (Len(queue) > 2 => request') /\ (Len(queue) < 2 => ~ request')
  BY DEF keyboard_isr
<1>4. CASE queue = <<>>
  <2>1. queue' = <<>> /\ shown' = shown /\ Len(queue) = 0 /\ Len(queue') = 0
    BY <1>2, <1>4 DEF PortCode, PortRest
  <2>2. ReadCount > 0
    BY <1>1, <2>1
  <2>3. shown = sent[ReadCount]
    BY <2>2 DEF KeyboardInv, LatestInv, HandledLast
  <2>4. shown \in Code
    BY DEF KeyboardInv, LatestInv, Types
  <2> QED  BY <1>1, <1>3, <2>1, <2>3, <2>4
<1>5. CASE queue # <<>> /\ Tail(queue) = <<>>
  <2>1. Len(queue) = 1
    <3>1. Len(Tail(queue)) = Len(queue) - 1
      BY <1>1, <1>5, HeadTailProperties
    <3>2. Len(Tail(queue)) = Len(<<>>) /\ Len(<<>>) = 0
      BY ONLY <1>5
    <3> QED  BY <1>1, <3>1, <3>2
  <2>2. Head(queue) = queue[1]
    BY <1>1, <1>5
  <2>3. queue' = <<>> /\ shown' = queue[1] /\ Len(queue') = 0
    BY <1>2, <1>5, <2>2 DEF PortCode, PortRest
  <2>4. queue[1] = sent[ReadCount + 1] /\ sent[ReadCount + 1] \in Code /\ ReadCount + 1 = Len(sent)
    BY <1>1, <2>1
  <2>5. ReadCount' = ReadCount + 1 /\ ReadCount' = Len(sent)
    BY <1>1, <2>1, <2>3
  <2>6. shown' = sent[ReadCount'] /\ shown' \in Code
    BY <2>3, <2>4, <2>5
  <2>7. queue' \in Seq(Code) /\ \A i \in 1 .. Len(queue') : queue'[i] = sent[ReadCount' + i]
    BY <2>3
  <2> QED  BY <1>1, <1>3, <2>1, <2>3, <2>5, <2>6, <2>7
<1>6. CASE queue # <<>> /\ Tail(queue) # <<>>
  <2> DEFINE t == Tail(queue)
  <2>1. t \in Seq(Code) /\ Len(t) = Len(queue) - 1 /\ \A i \in 1 .. Len(t) : t[i] = queue[i + 1]
    BY <1>1, <1>6, HeadTailProperties
  <2>2. Len(t) \in Nat \ {0} /\ Len(queue) >= 2
    BY <1>1, <1>6, <2>1, EmptySeq
  <2>3. Head(t) = t[1] /\ t[1] = queue[2]
    BY <1>6, <2>1, <2>2
  <2>4. /\ Tail(t) \in Seq(Code) /\ Len(Tail(t)) = Len(queue) - 2
        /\ \A i \in 1 .. Len(queue) - 2 : Tail(t)[i] = queue[i + 2]
    <3>1. t # <<>>
      BY <1>6
    <3>2. /\ Tail(t) \in Seq(Code) /\ Len(Tail(t)) = Len(t) - 1
          /\ \A i \in 1 .. Len(Tail(t)) : Tail(t)[i] = t[i + 1]
      BY <2>1, <3>1, HeadTailProperties
    <3> HIDE DEF t
    <3> QED  BY <1>1, <2>1, <2>2, <3>2
  <2>5. queue' = Tail(t) /\ shown' = queue[2]
    BY <1>2, <1>6, <2>3 DEF PortCode, PortRest
  <2> HIDE DEF t
  <2>6. ReadCount' = ReadCount + 2 /\ ReadCount' \in 1 .. Len(sent)
    <3>1. Len(queue') = Len(queue) - 2
      BY <2>4, <2>5
    <3> QED  BY <1>1, <2>2, <3>1
  <2>7. shown' = sent[ReadCount'] /\ shown' \in Code
    BY <1>1, <2>2, <2>5, <2>6
  <2>8. ASSUME NEW i \in 1 .. Len(queue') PROVE queue'[i] = sent[ReadCount' + i]
    <3>1. i \in 1 .. Len(queue) - 2 /\ i + 2 \in 1 .. Len(queue)
      BY <1>1, <2>2, <2>4, <2>5
    <3>2. queue'[i] = queue[i + 2] /\ queue[i + 2] = sent[ReadCount + (i + 2)]
      BY <1>1, <2>4, <2>5, <3>1
    <3>3. ReadCount \in Int /\ i \in Int
      BY <1>1, <3>1
    <3>4. ReadCount + (i + 2) = ReadCount' + i
      BY <2>6, <3>3
    <3> QED  BY <3>2, <3>4
  <2>9. queue' # <<>> => Len(queue) > 2
    BY <1>1, <2>2, <2>4, <2>5, EmptySeq
  <2>10. queue' \in Seq(Code) /\ ~ (Len(queue) <= 1) /\ Len(queue) # 1
    <3>1. queue' \in Seq(Code)
      BY <2>4, <2>5
    <3>2. Len(queue) \in Int
      BY <1>1
    <3>3. Len(queue) >= 2
      BY <2>2
    <3>4. ASSUME NEW n \in Int, n >= 2 PROVE ~ (n <= 1) /\ n # 1
      BY ONLY <3>4
    <3>5. ~ (Len(queue) <= 1) /\ Len(queue) # 1
      BY <3>2, <3>3, <3>4, Zenon
    <3> QED  BY <3>1, <3>5
  <2>11. queue' # <<>> => request'
    BY <1>3, <2>9
  <2> QED  BY <1>1, <1>3, <2>6, <2>7, <2>8, <2>10, <2>11
<1> QED  BY <1>4, <1>5, <1>6

LEMMA PrintedType ==
  ASSUME NEW c \in Code, NEW b \in BOOLEAN
  PROVE  scancode_to_char(c, b) \in Printed /\ ShiftAfter(c, b) \in BOOLEAN
<1>1. c.key \in Keys /\ c.up \in BOOLEAN
  BY DEF Code
<1> QED  BY <1>1, KeysAssumption DEF scancode_to_char, ShiftAfter, Printed, Keys, Chr

(* What is printed for the next code is what a typist expects.             *)
LEMMA NextTyped ==
  ASSUME Types, NEW n \in 1 .. Len(sent), is_l_shifted = HeldAt(n - 1)
  PROVE  /\ scancode_to_char(sent[n], is_l_shifted) = Typed(n)
         /\ ShiftAfter(sent[n], is_l_shifted) = HeldAt(n)
<1>1. Len(sent) \in Nat /\ sent[n] \in Code
  BY DEF Types
<1>4. sent[n].key \in Keys /\ sent[n].up \in BOOLEAN
  BY <1>1 DEF Code
<1>2. CASE sent[n].key = LShift
  <2>1. HeldAt(n) <=> ~ sent[n].up
    BY <1>1, <1>2 DEF HeldAt
  <2>3. HeldAt(n) = ~ sent[n].up
    BY <2>1 DEF HeldAt
  <2>4. ShiftAfter(sent[n], is_l_shifted) = ~ sent[n].up
    BY <1>2 DEF ShiftAfter
  <2>5. scancode_to_char(sent[n], is_l_shifted) = NUL /\ Typed(n) = NUL
    BY <1>2, <1>4, KeysAssumption DEF scancode_to_char, Typed
  <2> QED  BY <2>3, <2>4, <2>5
<1>3. CASE sent[n].key # LShift
  <2>1. {i \in 1 .. n : sent[i].key = LShift} = {i \in 1 .. n - 1 : sent[i].key = LShift}
    BY <1>1, <1>3
  <2>2. HeldAt(n) = HeldAt(n - 1)
    BY <2>1 DEF HeldAt
  <2>3. ShiftAfter(sent[n], is_l_shifted) = HeldAt(n)
    BY <1>3, <2>2 DEF ShiftAfter
  <2>4. scancode_to_char(sent[n], is_l_shifted) = Typed(n)
    BY <1>1, <1>3, <1>4, <2>2, KeysAssumption DEF scancode_to_char, Typed, Keys
  <2> QED  BY <2>3, <2>4
<1> QED  BY <1>2, <1>3

LEMMA HandlerStep ==
  ASSUME KeyboardInv, keyboard_isr
  PROVE  KeyboardInv'
<1> DEFINE r == ReadCount'
<1>1. /\ queue' \in Seq(Code) /\ r \in 1 .. Len(sent) /\ sent' = sent
      /\ \A i \in 1 .. Len(queue') : queue'[i] = sent[r + i]
      /\ shown' = sent[r] /\ shown' \in Code
      /\ Len(queue) <= 1 => queue' = <<>>
      /\ Len(queue) = 1 => r = ReadCount + 1
      /\ request' \in BOOLEAN /\ (queue' # <<>> => request') /\ (Len(queue) < 2 => ~ request')
  BY TwoReads
<1> HIDE DEF r
<1>2. Types /\ Queued /\ HandledLast /\ HeldNow /\ OneByOne /\ request /\ handle_scancode(shown')
      /\ UNCHANGED <<down, sent, bunched>>
  BY DEF KeyboardInv, LatestInv, keyboard_isr
<1>3. /\ is_l_shifted' = ShiftAfter(shown', is_l_shifted) /\ is_l_shifted' \in BOOLEAN
      /\ scancode_to_char(shown', is_l_shifted) \in Printed
  BY <1>1, <1>2, PrintedType DEF Types, handle_scancode
<1>4. /\ handled' \in Seq(Code) /\ handled' # <<>> /\ handled'[Len(handled')] = shown'
  <2>1. handled \in Seq(Code) /\ handled' = Append(handled, shown') /\ Len(handled) \in Nat
    BY <1>2 DEF Types, handle_scancode
  <2>2. /\ Append(handled, shown') # <<>> /\ Append(handled, shown') \in Seq(Code)
        /\ Len(Append(handled, shown')) = Len(handled) + 1
        /\ Append(handled, shown')[Len(handled) + 1] = shown'
    BY <1>1, <2>1, AppendProperties
  <2> QED  BY <2>1, <2>2
<1>5. /\ chars' \in Seq(Printed) /\ Len(chars') = Len(chars) + 1
      /\ \A i \in 1 .. Len(chars) : chars'[i] = chars[i]
      /\ chars'[Len(chars) + 1] = scancode_to_char(shown', is_l_shifted)
  BY <1>2, <1>3, AppendProperties DEF Types, handle_scancode
<1>6. Types'
  BY <1>1, <1>2, <1>3, <1>4, <1>5 DEF Types
<1>7. Queued'
  BY <1>1, <1>2 DEF Queued, r, Types
<1>8. HandledLast'
  BY <1>1, <1>2, <1>3, <1>4 DEF HandledLast, r, Types, ShiftAfter
<1>9. HeldNow'
  BY <1>2 DEF HeldNow
<1>10. OneByOne'
  <2> SUFFICES ASSUME ~ bunched
               PROVE  /\ Len(queue') <= 1 /\ (request' => queue' # <<>>)
                      /\ Len(chars') = r /\ (\A i \in 1 .. r : chars'[i] = Typed(i)')
                      /\ is_l_shifted' <=> HeldAt(r)
    BY <1>2 DEF OneByOne, r, HeldAt
  <2>1. /\ Len(queue) = 1 /\ Len(chars) = ReadCount
        /\ \A i \in 1 .. ReadCount : chars[i] = Typed(i)
        /\ is_l_shifted <=> HeldAt(ReadCount)
    <3>1. Len(queue) <= 1 /\ queue # <<>>
      BY <1>2 DEF OneByOne
    <3>2. queue \in Seq(Code) /\ Len(queue) \in Nat
      BY <1>2 DEF Types
    <3>3. Len(queue) \in Nat \ {0}
      BY <3>1, <3>2, EmptySeq
    <3>4. Len(queue) <= 1
      BY <3>1
    <3>5. \A n \in Nat \ {0} : n <= 1 => n = 1
      OBVIOUS
    <3>6. Len(queue) = 1
      BY <3>3, <3>4, <3>5, Zenon
    <3>7. /\ Len(chars) = ReadCount /\ \A i \in 1 .. ReadCount : chars[i] = Typed(i)
          /\ is_l_shifted <=> HeldAt(ReadCount)
      BY <1>2 DEF OneByOne
    <3> QED  BY <3>6, <3>7, Zenon
  <2>2. queue' = <<>> /\ r = ReadCount + 1
    BY <1>1, <2>1
  <2>3. ~ request'
    BY <1>1, <2>1
  <2>4. \A i \in 1 .. r : Typed(i)' = Typed(i)
    <3> SUFFICES ASSUME NEW i \in 1 .. r PROVE Typed(i)' = Typed(i)
      OBVIOUS
    <3>1. HeldAt(i)' = HeldAt(i)
      BY <1>1 DEF HeldAt
    <3> QED  BY <1>1, <3>1 DEF Typed
  <2>5. is_l_shifted = HeldAt(r - 1)
    <3>1. r - 1 = ReadCount
      BY <1>2, <2>2 DEF Queued
    <3>2. is_l_shifted \in BOOLEAN /\ HeldAt(ReadCount) \in BOOLEAN
      BY <1>2 DEF Types, HeldAt
    <3> QED  BY <2>1, <3>1, <3>2
  <2>6. scancode_to_char(shown', is_l_shifted) = Typed(r) /\ is_l_shifted' = HeldAt(r)
    BY <1>1, <1>2, <1>3, <2>5, NextTyped
  <2>7. ASSUME NEW i \in 1 .. r PROVE chars'[i] = Typed(i)'
    <3>1. CASE i = r
      BY <1>5, <2>1, <2>2, <2>4, <2>6, <3>1
    <3>2. CASE i \in 1 .. ReadCount
      BY <1>5, <2>1, <2>4, <3>2
    <3> QED  BY <1>2, <2>2, <3>1, <3>2 DEF Queued
  <2> QED  BY <1>5, <2>1, <2>2, <2>3, <2>6, <2>7
<1> QED  BY <1>6, <1>7, <1>8, <1>9, <1>10 DEF KeyboardInv, LatestInv

LEMMA KeyboardStep == KeyboardInv /\ [Next]_vars => KeyboardInv'
<1> SUFFICES ASSUME KeyboardInv, [Next]_vars PROVE KeyboardInv'
  OBVIOUS
<1>1. down \subseteq Keys
  BY DEF KeyboardInv, LatestInv, Types
<1>2. ASSUME NEW k \in Keys, Press(k) PROVE KeyboardInv'
  <2> DEFINE c == [key |-> k, up |-> FALSE]
  <2>1. c \in Code /\ Send(c) /\ c.key = k /\ ~ c.up
    BY <1>2 DEF Press, Code
  <2>2. down' \subseteq Keys /\ (k = LShift => LShift \in down')
    BY <1>1, <1>2 DEF Press
  <2> HIDE DEF c
  <2> QED  BY <2>1, <2>2, SendStep
<1>3. ASSUME NEW k \in Keys, Release(k) PROVE KeyboardInv'
  <2> DEFINE c == [key |-> k, up |-> TRUE]
  <2>1. c \in Code /\ Send(c) /\ c.key = k /\ c.up
    BY <1>3 DEF Release, Code
  <2>2. down' \subseteq Keys /\ (k = LShift => LShift \notin down')
    BY <1>1, <1>3 DEF Release
  <2> HIDE DEF c
  <2> QED  BY <2>1, <2>2, SendStep
<1>4. CASE UNCHANGED vars
  <2>1. UNCHANGED <<down, sent, bunched, queue, shown, request, is_l_shifted, handled, chars>>
    BY <1>4 DEF vars
  <2>2. ReadCount' = ReadCount
    BY <2>1 DEF ReadCount
  <2>3. Types' /\ Queued'
    BY <2>1, <2>2 DEF KeyboardInv, LatestInv, Types, Queued
  <2>4. HandledLast' /\ HeldNow'
    BY <2>1, <2>2 DEF KeyboardInv, LatestInv, HandledLast, HeldNow
  <2>5. \A n : HeldAt(n)' = HeldAt(n)
    BY <2>1 DEF HeldAt
  <2>6. \A i : Typed(i)' = Typed(i)
    BY <2>1, <2>5 DEF Typed
  <2>7. OneByOne'
    BY <2>1, <2>2, <2>5, <2>6 DEF KeyboardInv, OneByOne
  <2> QED  BY <2>3, <2>4, <2>7 DEF KeyboardInv, LatestInv
<1> QED  BY <1>2, <1>3, <1>4, HandlerStep DEF Next

(* Codes that come one at a time are translated as typed.                  *)
THEOREM Translated == Spec => []TypedRight
<1>1. KeyboardInv => TypedRight
  <2> SUFFICES ASSUME KeyboardInv, ~ bunched PROVE chars = Expected(ReadCount)
    BY DEF TypedRight, ReadCount
  <2>1. chars \in Seq(Printed) /\ ReadCount \in Nat /\ Len(chars) = ReadCount
        /\ \A i \in 1 .. ReadCount : chars[i] = Typed(i)
    BY DEF KeyboardInv, LatestInv, Types, Queued, OneByOne
  <2>2. chars \in [1 .. ReadCount -> Printed]
    BY <2>1
  <2> QED  BY <2>1, <2>2 DEF Expected
<1> QED  BY <1>1, KeyboardInit, KeyboardStep, PTL DEF Spec

LEMMA LatestRead ==
  ASSUME KeyboardInv, ~ request, sent # <<>>
  PROVE  /\ handled # <<>> /\ Last(handled) = Last(sent)
         /\ Last(sent).key = LShift => (is_l_shifted <=> LShift \in down)
<1>1. queue = <<>> /\ sent \in Seq(Code)
  BY DEF KeyboardInv, LatestInv, Queued, Types
<1>2. ReadCount = Len(sent) /\ ReadCount > 0
  BY <1>1, EmptySeq DEF ReadCount
<1> QED  BY <1>1, <1>2 DEF KeyboardInv, LatestInv, HandledLast, HeldNow, Last

(* The last code of a burst is handled, whatever was lost before it.       *)
THEOREM NothingLeft == Spec => []LatestIsHandled
<1>1. KeyboardInv => LatestIsHandled
  BY LatestRead DEF LatestIsHandled
<1> QED  BY <1>1, KeyboardInit, KeyboardStep, PTL DEF Spec

(* Lost codes do not leave the shift state wrong for good.                 *)
THEOREM ShiftComesRight == Spec => []ShiftRepaired
<1>1. KeyboardInv => ShiftRepaired
  BY LatestRead DEF ShiftRepaired
<1> QED  BY <1>1, KeyboardInit, KeyboardStep, PTL DEF Spec
===============================================================================
