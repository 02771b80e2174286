----------------------------- MODULE CharBuffer -----------------------------
(***************************************************************************)
(* char_buffer of keyboard.c at its end.  handle_scancode stores at        *)
(* current_char_in without a bound, and behind the array lie, in this      *)
(* order, the four-byte counters                                           *)
(*                                                                         *)
(*   char_buffer[Size]  current_scancode_in  current_scancode_out          *)
(*                      current_char_in      current_char_out              *)
(*                                                                         *)
(* so a store past the end changes a byte of a counter.  The characters in *)
(* the array are not kept, only how far both sides have come.              *)
(***************************************************************************)
EXTENDS Integers

CONSTANTS Size,         \* sizeof char_buffer, 500
          Base,         \* values of a byte, 256
          ScanLimit,    \* 999, the last index of scancode_buffer
          Chars         \* what scancode_to_char returns

CharIn == Size + 8      \* where the low byte of current_char_in lies
Word   == 0 .. Base * Base * Base * Base - 1

(* The counter is in the upper part of its byte when it reaches itself:    *)
(* 508 = 256 + 252, and no character is 252 or more.                       *)
ASSUME SizeAssumption == Size \in Nat \ {0} /\ Base \in Nat \ {0} /\ ScanLimit \in Nat
ASSUME WordAssumption == CharIn + 1 \in Word /\ ScanLimit \in Word
ASSUME CharAssumption == Chars \subseteq 0 .. (CharIn % Base) - 1
ASSUME ByteAssumption == (CharIn % Base) + 1 < Base /\ CharIn \div Base > 0

VARIABLES current_char_in, current_char_out, current_scancode_in, current_scancode_out

vars == <<current_char_in, current_char_out, current_scancode_in, current_scancode_out>>

Init ==
  /\ current_char_in = 0 /\ current_char_out = 0
  /\ current_scancode_in = 0 /\ current_scancode_out = 0

(* A word whose byte b, counted from the low end, becomes c; and what a    *)
(* store at index "at" makes of the word that lies at index "first".       *)
Unit == <<1, Base, Base * Base, Base * Base * Base>>

SetByteSwapped(word, b, c) ==                           \* mutant: operands swapped
  word + (((word \div Unit[b + 1]) % Base) - c) * Unit[b + 1]

SetByte(word, b, c) == word + (c - ((word \div Unit[b + 1]) % Base)) * Unit[b + 1]

Store(word, first, at, c) == IF at - first \in 0 .. 3 THEN SetByte(word, at - first, c) ELSE word

-----------------------------------------------------------------------------
(* keyboard_handler_c: the scancode is kept while its buffer has room, and *)
(* the character is stored where current_char_in was before its increment. *)
ScanCount == IF current_scancode_in < ScanLimit THEN current_scancode_in + 1 ELSE current_scancode_in

StoredOver(at, c) ==
  /\ current_scancode_in' = Store(ScanCount, Size, at, c)
  /\ current_scancode_out' = Store(current_scancode_out, Size + 4, at, c)
  /\ UNCHANGED current_char_out

IncrementLast(c) ==                 \* mutant: the increment is stored last
  /\ StoredOver(current_char_in, c)
  /\ current_char_in' = current_char_in + 1

handle_scancode(c) ==
  /\ StoredOver(current_char_in, c)
  /\ current_char_in' = Store(current_char_in + 1, CharIn, current_char_in, c)

(* Keys pressed and released, for ever.                                    *)
Key == \E c \in Chars : handle_scancode(c)

(* stdin_loop takes a character.                                           *)
stdin_loop ==
  /\ current_char_out < current_char_in
  /\ current_char_out' = current_char_out + 1
  /\ UNCHANGED <<current_char_in, current_scancode_in, current_scancode_out>>

Next == Key \/ stdin_loop

Spec     == Init /\ [][Next]_vars
FairSpec == Spec /\ WF_vars(Key) /\ SF_vars(stdin_loop)

-----------------------------------------------------------------------------
TypeOK ==
  /\ current_char_in \in Word /\ current_char_out \in Word
  /\ current_scancode_in \in Word /\ current_scancode_out \in Word

(* The overflow stops at current_char_in: it throws its own index back     *)
(* into the array before the store can reach current_char_out or the shift *)
(* state, whatever is typed.                                               *)
OverflowThrownBack == current_char_in <= CharIn

(* While keys are pressed the stdin task gets characters again and again.  *)
KeysArrive == []<><<stdin_loop>>_vars
=============================================================================
