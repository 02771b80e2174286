------------------------------- MODULE MCTasks -------------------------------
(* Tasks with the six entries and five created tasks of the source; tasks  *)
(* 2 (echo_task in main.c) and 3 use critical sections.                    *)
EXTENDS Tasks

MCUsers == {2, 3}
=============================================================================
