---------------------------- MODULE RoundContract ----------------------------
(***************************************************************************)
(* What one call of runBlocks does to the state Pipeline::run keeps across *)
(* rounds.  BlockRunner establishes it when the call returns; Pipeline     *)
(* takes it as the effect of the call.                                     *)
(***************************************************************************)
EXTENDS Integers, FiniteSets

\* before, after: the mined assertions; fresh: foundThisRound; verified: the
\* assertions of the Verified jobs; defs, pairs: what the blocks appended to
\* SygusResult.sl and CompareResult.txt, killed blocks included.
RoundOutcome(before, after, fresh, verified, defs, pairs) ==
  /\ after = before \cup verified
  /\ fresh = Cardinality(verified \ before)
  /\ verified \subseteq pairs
  /\ pairs \subseteq defs
=============================================================================
