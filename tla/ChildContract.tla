---------------------------- MODULE ChildContract ----------------------------
(***************************************************************************)
(* What a pool of blocks may assume of one block's process: it publishes   *)
(* in a fixed order and at most once, exits 0 only after all three writes, *)
(* and with another code only before the first.  BlockRunner's children    *)
(* behave so; Block implements it.                                         *)
(***************************************************************************)
EXTENDS Integers

VARIABLES
  block,   \* how far the block's process has come
  code     \* its exit code once it has ended, -1 for a signal

vars == <<block, code>>

Init == block = "running" /\ code = 0

EndWithout ==
  /\ block = "running"
  /\ block' = "ended"
  /\ code' \in {1, 127, 255}

Publish(from, to) == block = from /\ block' = to /\ UNCHANGED code

EndVerified ==
  /\ block = "appendedCmp"
  /\ block' = "ended"
  /\ UNCHANGED code

Crash ==
  /\ block # "ended"
  /\ block' = "ended"
  /\ code' = -1

Next ==
  \/ EndWithout
  \/ Publish("running", "wroteResult")
  \/ Publish("wroteResult", "appendedSl")
  \/ Publish("appendedSl", "appendedCmp")
  \/ EndVerified
  \/ Crash

Safety == Init /\ [][Next]_vars
=============================================================================
