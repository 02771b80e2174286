-------------------------- MODULE CharBufferProofs --------------------------
(***************************************************************************)
(* However long the keyboard is used, char_buffer's unbounded index never  *)
(* gets past its own first byte, and the counters that are stored over     *)
(* stay words: for every size, byte and character set that satisfy the     *)
(* layout assumptions of CharBuffer.                                       *)
(***************************************************************************)
EXTENDS CharBuffer, TLAPS

(* A remainder that does not wrap grows by one.                            *)
LEMMA NextRemainder ==
  ASSUME NEW a \in Nat, NEW n \in Nat \ {0}, (a % n) + 1 < n
  PROVE  (a + 1) % n = (a % n) + 1
<1> DEFINE q == a \div n
           p == (a + 1) \div n
           s == (a + 1) % n
<1>1. q \in Nat /\ p \in Nat /\ s \in 0 .. n - 1
  OBVIOUS
<1>2. a = n * q + (a % n) /\ a + 1 = n * p + s
  OBVIOUS
<1>3. n * (p - q) = (a % n) + 1 - s
  BY <1>1, <1>2
<1>4. p - q < 1 /\ p - q > -1
  <2>1. p - q >= 1 => n * (p - q) >= n
    BY <1>1
  <2>2. p - q <= -1 => n * (p - q) <= -n
    BY <1>1
  <2> HIDE DEF p, q, s
  <2> QED BY <1>1, <1>3, <2>1, <2>2
<1>5. p = q
  BY <1>1, <1>4
<1> QED BY <1>1, <1>3, <1>5

(* What a store to the counter's own low byte leaves in the counter.       *)
LEMMA ThrownBack ==
  ASSUME NEW c \in Chars
  PROVE  /\ SetByte(CharIn + 1, 0, c) = CharIn + c - (CharIn % Base)
         /\ SetByte(CharIn + 1, 0, c) \in 0 .. CharIn
<1>1. CharIn \in Nat /\ Base \in Nat \ {0} /\ c \in Nat
  BY SizeAssumption, CharAssumption DEF CharIn
<1>2. c < CharIn % Base
  BY <1>1, CharAssumption
<1>3. CharIn % Base \in 0 .. CharIn
  BY <1>1
<1>4. (CharIn + 1) % Base = (CharIn % Base) + 1
  BY <1>1, NextRemainder, ByteAssumption
<1>5. Unit[0 + 1] = 1 /\ (CharIn + 1) \div 1 = CharIn + 1
  BY <1>1 DEF Unit
<1>6. SetByte(CharIn + 1, 0, c) = CharIn + 1 + (c - ((CharIn % Base) + 1))
  BY <1>1, <1>4, <1>5 DEF SetByte
<1> QED BY <1>1, <1>2, <1>3, <1>6

(* The counter between steps; out only matters as a number.                *)
IndexInv == current_char_in \in 0 .. CharIn /\ current_char_out \in Nat

(* One key event.                                                          *)
LEMMA KeyStep ==
  ASSUME IndexInv, NEW c \in Chars, handle_scancode(c)
  PROVE  IndexInv'
<1>1. CharIn \in Nat
  BY SizeAssumption DEF CharIn
<1>2. CASE current_char_in = CharIn
  <2>1. current_char_in' = SetByte(CharIn + 1, 0, c)
    BY <1>1, <1>2 DEF handle_scancode, Store
  <2> QED BY <2>1, ThrownBack DEF IndexInv, handle_scancode, StoredOver
<1>3. CASE current_char_in < CharIn
  <2>1. current_char_in' = current_char_in + 1
    BY <1>1, <1>3 DEF IndexInv, handle_scancode, Store
  <2> QED BY <1>1, <1>3, <2>1 DEF IndexInv, handle_scancode, StoredOver
<1> QED BY <1>1, <1>2, <1>3 DEF IndexInv

(* The store past the end of char_buffer never reaches current_char_out or *)
(* what lies behind it (handle_scancode, keyboard.c).                      *)
THEOREM ThrownBackAlways == Spec => []OverflowThrownBack
<1>1. Init => IndexInv
  BY SizeAssumption DEF Init, IndexInv, CharIn
<1>2. IndexInv /\ [Next]_vars => IndexInv'
  <2> SUFFICES ASSUME IndexInv, [Next]_vars PROVE IndexInv'
    OBVIOUS
  <2>1. CASE Key
    BY <2>1, KeyStep DEF Key
  <2>2. CASE stdin_loop
    BY <2>2 DEF stdin_loop, IndexInv
  <2>3. CASE UNCHANGED vars
    BY <2>3 DEF vars, IndexInv
  <2> QED BY <2>1, <2>2, <2>3 DEF Next
<1>3. IndexInv => OverflowThrownBack
  BY SizeAssumption DEF IndexInv, OverflowThrownBack, CharIn
<1> QED BY <1>1, <1>2, <1>3, PTL DEF Spec

(* The byte of weight u of a number below u * b * k is replaced.           *)
LEMMA ByteReplaced ==
  ASSUME NEW u \in Nat \ {0}, NEW b \in Nat \ {0}, NEW k \in Nat \ {0},
         NEW w \in Nat, w < (u * b) * k, NEW c \in 0 .. b - 1
  PROVE  w + (c - ((w \div u) % b)) * u \in 0 .. (u * b) * k - 1
<1> DEFINE q == w \div u
           r == w - u * q
           p == q \div b
           d == q % b
           v == u * b
<1>1. q \in Nat /\ w = u * q + r /\ r \in 0 .. u - 1
  OBVIOUS
<1>2. p \in Nat /\ d \in 0 .. b - 1 /\ q = b * p + d
  BY <1>1
<1>3. v \in Nat /\ w \in Nat /\ c \in Nat
  OBVIOUS
<1> HIDE DEF q, r, p, d
<1>4. u * q = v * p + u * d
  BY <1>1, <1>2
<1>5. w + (c - d) * u = v * p + (u * c + r)
  <2>1. (c - d) * u = u * c - u * d
    BY <1>2, <1>3
  <2> HIDE DEF v
  <2>2. u * c \in Int /\ u * d \in Int /\ v * p \in Int /\ (c - d) * u \in Int
    BY <1>2, <1>3
  <2> QED  BY <1>1, <1>2, <1>3, <1>4, <2>1, <2>2
<1>6. u * c + r \in 0 .. v - 1
  <2>1. u * c <= u * (b - 1)
    BY <1>3
  <2>2. u * (b - 1) = v - u
    OBVIOUS
  <2>3. u * c \in Nat
    BY <1>3
  <2> HIDE DEF v
  <2> QED  BY <1>1, <1>3, <2>1, <2>2, <2>3
<1>7. p <= k - 1
  <2>1. u * d \in Nat
    BY <1>2
  <2>2. v * p <= w
    <3> HIDE DEF v
    <3> QED  BY <1>1, <1>2, <1>3, <1>4, <2>1
  <2>3. p >= k => v * p >= v * k
    <3> HIDE DEF v
    <3> QED  BY <1>2, <1>3
  <2>4. v * p \in Int /\ v * k \in Int /\ w < v * k
    BY <1>2
  <2> HIDE DEF v
  <2> QED  BY <1>2, <1>3, <2>2, <2>3, <2>4
<1>8. v * p \in Nat /\ v * p <= v * k - v
  <2> HIDE DEF v
  <2>1. v * p <= v * (k - 1)
    BY <1>2, <1>3, <1>7
  <2> QED  BY <1>2, <1>3, <2>1
<1>9. v * k \in Int
  BY <1>3
<1> HIDE DEF v
<1>10. w + (c - d) * u \in 0 .. v * k - 1
  BY <1>3, <1>5, <1>6, <1>8, <1>9
<1> QED  BY <1>10 DEF v, d, q

(* A store into a counter leaves a word, whichever of its bytes it hits.   *)
LEMMA StoreWord ==
  ASSUME NEW w \in Word, NEW first \in Int, NEW at \in Int, NEW c \in Chars
  PROVE  Store(w, first, at, c) \in Word
<1> DEFINE b == at - first
<1>1. /\ Base \in Nat \ {0} /\ c \in 0 .. Base - 1 /\ w \in Nat
      /\ w < Base * Base * Base * Base
  <2>1. CharIn \in Nat /\ Base \in Nat \ {0}
    BY SizeAssumption DEF CharIn
  <2>2. CharIn % Base \in 0 .. Base - 1
    BY <2>1
  <2>3. c \in 0 .. Base - 1
    <3> DEFINE m == CharIn % Base
    <3>1. c \in 0 .. m - 1
      BY CharAssumption
    <3> HIDE DEF m
    <3> QED  BY <2>1, <2>2, <3>1 DEF m
  <2> QED  BY <2>1, <2>3 DEF Word
<1>2. /\ Base * Base \in Nat \ {0} /\ Base * Base * Base \in Nat \ {0}
      /\ Base * Base * Base * Base \in Nat \ {0}
  BY <1>1
<1>3. CASE b \notin 0 .. 3
  BY <1>3 DEF Store
<1>4. CASE b = 0
  <2>1. Unit[b + 1] = 1 /\ (1 * Base) * (Base * Base * Base) = Base * Base * Base * Base
    BY <1>1, <1>4 DEF Unit
  <2>2. w + (c - ((w \div 1) % Base)) * 1 \in 0 .. (1 * Base) * (Base * Base * Base) - 1
    <3> DEFINE k == Base * Base * Base
               one == 1
    <3>1. k \in Nat \ {0} /\ w < (one * Base) * k /\ one \in Nat \ {0}
      BY <1>1, <1>2, <2>1
    <3> HIDE DEF k, one
    <3>2. w + (c - ((w \div one) % Base)) * one \in 0 .. (one * Base) * k - 1
      BY <1>1, <3>1, ByteReplaced
    <3> QED  BY <3>2 DEF k, one
  <2>3. SetByte(w, b, c) \in 0 .. (1 * Base) * (Base * Base * Base) - 1
    BY <2>1, <2>2 DEF SetByte
  <2> QED  BY <1>4, <2>1, <2>3 DEF Store, Word
<1>5. CASE b = 1
  <2>1. Unit[b + 1] = Base /\ (Base * Base) * (Base * Base) = Base * Base * Base * Base
    BY <1>1, <1>5 DEF Unit
  <2>2. SetByte(w, b, c) \in 0 .. (Base * Base) * (Base * Base) - 1
    BY <1>1, <1>2, <2>1, ByteReplaced DEF SetByte
  <2> QED  BY <1>5, <2>1, <2>2 DEF Store, Word
<1>6. CASE b = 2
  <2>1. Unit[b + 1] = Base * Base /\ ((Base * Base) * Base) * Base = Base * Base * Base * Base
    BY <1>1, <1>6 DEF Unit
  <2>2. SetByte(w, b, c) \in 0 .. ((Base * Base) * Base) * Base - 1
    BY <1>1, <1>2, <2>1, ByteReplaced DEF SetByte
  <2> QED  BY <1>6, <2>1, <2>2 DEF Store, Word
<1>7. CASE b = 3
  <2>1. /\ Unit[b + 1] = Base * Base * Base
        /\ ((Base * Base * Base) * Base) * 1 = Base * Base * Base * Base
    BY <1>1, <1>2, <1>7 DEF Unit
  <2> DEFINE u == Base * Base * Base
  <2>2. w + (c - ((w \div u) % Base)) * u \in 0 .. (u * Base) * 1 - 1
    <3>1. u \in Nat \ {0} /\ w < (u * Base) * 1 /\ 1 \in Nat \ {0}
      BY <1>1, <1>2, <2>1
    <3> HIDE DEF u
    <3> QED  BY <1>1, <3>1, ByteReplaced
  <2>3. SetByte(w, b, c) \in 0 .. (u * Base) * 1 - 1
    BY <2>1, <2>2 DEF SetByte
  <2> QED  BY <1>7, <2>1, <2>3 DEF Store, Word
<1> QED  BY <1>3, <1>4, <1>5, <1>6, <1>7

(* The words are an interval from 0.                                       *)
LEMMA Words == \E m \in Nat : Word = 0 .. m - 1
<1>1. Base \in Nat /\ Base * Base \in Nat
  BY SizeAssumption
<1>2. Base * Base * Base \in Nat
  BY <1>1
<1>3. Base * Base * Base * Base \in Nat
  BY <1>1, <1>2
<1> QED  BY <1>3 DEF Word

(* How far both sides get: stdin_loop never takes more than there was.     *)
Reach == IndexInv /\ current_char_out <= CharIn
Scans == current_scancode_in \in Word /\ current_scancode_out \in Word

(* All four counters stay 32-bit words although stores past the end of     *)
(* char_buffer replace bytes of them (handle_scancode, keyboard.c).        *)
THEOREM TypeCorrect == Spec => []TypeOK
<1>1. PICK m \in Nat : Word = 0 .. m - 1
  BY Words
<1>2. CharIn \in Nat /\ CharIn + 1 < m /\ CharIn \in Int /\ ScanLimit \in 0 .. m - 1
  BY <1>1, SizeAssumption, WordAssumption DEF CharIn
<1>3. Init => Reach /\ Scans
  BY <1>1, <1>2 DEF Init, Reach, IndexInv, Scans
<1>4. Reach /\ Scans /\ [Next]_vars => (Reach /\ Scans)'
  <2> SUFFICES ASSUME Reach, Scans, [Next]_vars PROVE Reach' /\ Scans'
    OBVIOUS
  <2>1. CASE Key
    <3>1. PICK c \in Chars : handle_scancode(c)
      BY <2>1 DEF Key
    <3>2. Reach'
      BY <3>1, KeyStep DEF Reach, handle_scancode, StoredOver, CharIn
    <3>3. ScanCount \in Word
      BY <1>1, <1>2 DEF ScanCount, Scans
    <3>4. current_char_in \in Int /\ Size \in Int /\ Size + 4 \in Int
      BY SizeAssumption DEF Reach, IndexInv
    <3>5. Store(ScanCount, Size, current_char_in, c) \in Word
      BY <3>3, <3>4, StoreWord
    <3>6. Store(current_scancode_out, Size + 4, current_char_in, c) \in Word
      BY <3>4, StoreWord DEF Scans
    <3> QED  BY <3>1, <3>2, <3>5, <3>6 DEF Scans, handle_scancode, StoredOver
  <2>2. CASE stdin_loop
    BY <1>2, <2>2 DEF stdin_loop, Reach, IndexInv, Scans, CharIn
  <2>3. CASE UNCHANGED vars
    BY <2>3 DEF vars, Reach, IndexInv, Scans, CharIn
  <2> QED  BY <2>1, <2>2, <2>3 DEF Next
<1>5. Reach /\ Scans => TypeOK
  BY <1>1, <1>2 DEF Reach, IndexInv, Scans, TypeOK
<1> QED  BY <1>3, <1>4, <1>5, PTL DEF Spec
=============================================================================
