---------------------------- MODULE MCCharBuffer ----------------------------
(* CharBuffer with bytes of 8 values and an array of 6: as in the source,  *)
(* current_char_in lies in the upper part of its second block of a byte's  *)
(* values (508 = 256 + 252 there, 14 = 8 + 6 here), and the scancode       *)
(* buffer has about twice the entries of char_buffer.                      *)
EXTENDS CharBuffer

MCChars    == {0, 1, 5}
MCTwoChars == {0, 5}
=============================================================================
