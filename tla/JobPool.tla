------------------------------- MODULE JobPool -------------------------------
(***************************************************************************)
(* What runBlocks promises its caller, free of threads, processes and      *)
(* clocks: every job is begun once and reported once, never more than      *)
(* Limit jobs are in progress, and the call returns when every job has     *)
(* been reported (BlockRunner.h:60-63).  BlockRunner implements it.        *)
(***************************************************************************)
EXTENDS Integers, FiniteSets

CONSTANTS
  Jobs,    \* the jobs of one call
  Limit    \* how many of them may be in progress at once

VARIABLES
  waiting,   \* jobs nobody has begun
  running,   \* jobs in progress
  reported,  \* jobs whose result has been handed to the caller
  returned   \* has the call returned?

vars == <<waiting, running, reported, returned>>

Init ==
  /\ waiting = Jobs
  /\ running = {}
  /\ reported = {}
  /\ returned = FALSE

Begin(j) ==
  /\ j \in waiting
  /\ Cardinality(running) < Limit
  /\ waiting' = waiting \ {j}
  /\ running' = running \cup {j}
  /\ UNCHANGED <<reported, returned>>

Report(j) ==
  /\ j \in running
  /\ running' = running \ {j}
  /\ reported' = reported \cup {j}
  /\ UNCHANGED <<waiting, returned>>

Return ==
  /\ ~returned
  /\ reported = Jobs
  /\ returned' = TRUE
  /\ UNCHANGED <<waiting, running, reported>>

Next ==
  \/ \E j \in Jobs : Begin(j) \/ Report(j)
  \/ Return

Fairness ==
  /\ \A j \in Jobs : SF_vars(Begin(j)) /\ WF_vars(Report(j))
  /\ WF_vars(Return)

Safety == Init /\ [][Next]_vars

Spec == Safety /\ Fairness
=============================================================================
