---------------------------- MODULE SectorReader ----------------------------
(***************************************************************************)
(* What pio28_read promises its callers: a read that succeeds has put the  *)
(* sectors it was asked for, and no others, into the buffer, in order; one *)
(* that fails has put in the first few of them.                            *)
(*                                                                         *)
(* The promise ends when a wait for the drive has been given up once       *)
(* ("gaveup"): from then on the drive may still be at an older command,    *)
(* and what a read delivers is not specified.                              *)
(***************************************************************************)
EXTENDS Integers, Sequences

CONSTANT Sector         \* what a buffer may hold

VARIABLES asked,        \* the sectors asked for, in order
          got,          \* the sectors put into the buffer
          busy,         \* the read has not returned
          ok,           \* it has returned 0
          gaveup

vars == <<asked, got, busy, ok, gaveup>>

Init == asked = <<>> /\ got = <<>> /\ ~ busy /\ ~ ok /\ gaveup \in BOOLEAN

Ask ==
  /\ ~ busy /\ busy'
  /\ asked' \in Seq(Sector) /\ got' = <<>> /\ ~ ok'
  /\ UNCHANGED gaveup

(* The last sector completes the read.                                     *)
Deliver ==
  /\ busy
  /\ Len(got) < Len(asked)
  /\ got' = Append(got, asked[Len(got) + 1])
  /\ ok' = (got' = asked) /\ busy' = ~ ok'
  /\ UNCHANGED <<asked, gaveup>>

Fail == busy /\ ~ busy' /\ ~ ok' /\ UNCHANGED <<asked, got>> /\ (gaveup => gaveup')

(* Another use of the drive, not a read, gives up a wait.                  *)
GiveUp == ~ busy /\ ~ busy' /\ gaveup' /\ UNCHANGED <<asked, got, ok>>

Unspecified == gaveup /\ gaveup'

Next == Ask \/ Deliver \/ Fail \/ GiveUp \/ Unspecified

Spec == Init /\ [][Next]_vars
=============================================================================
