----------------------------- MODULE MCKeyboard -----------------------------
(* Keyboard with the left shift key, a letter and a key the code does not  *)
(* know.                                                                   *)
EXTENDS Keyboard
=============================================================================
