----------------------------- MODULE MCInterrupts -----------------------------
EXTENDS Interrupts

(* The rate main.c asks for, the limits, and some that leave a remainder.  *)
MCFrequencies == {1, 18, 19, 20, 50, 60, 100, 1000, 1024, 8000, 44100, 1193180, 1193181}
===============================================================================
