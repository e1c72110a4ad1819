----------------------------- MODULE MCPipeline -----------------------------
(* Pipeline for TLC: a design with two reachable states, the second beyond  *)
(* the final check's bound, and two unreachable ones.  `exact` and `twin`   *)
(* are equivalent invariants, `weak` is an invariant they imply, `shallow`  *)
(* and `crossed` hold within the bound only; `shallow` implies all others,  *)
(* `crossed` implies none and follows from `shallow` alone.                 *)
EXTENDS Pipeline

CONSTANTS exact, twin, weak, shallow, crossed

MCStates    == 1..4
MCReachable == {1, 2}
MCShallow   == {1}

Meaning(a) ==
  CASE a = weak    -> {1, 2, 4}
    [] a = shallow -> {1}
    [] a = crossed -> {1, 3}
    [] OTHER       -> {1, 2}

MCAllows == [a \in Assertions |-> Meaning(a)]

\* The shipped defaults, with small bounds.
Default ==
  [blockified |-> TRUE, threshold |-> 0, maxIterations |-> 3,
   blockMinimizer |-> FALSE, msa |-> TRUE, random |-> FALSE,
   msaStableEnd |-> TRUE, msaStableDepth |-> 2, ltlDepth |-> 0,
   endMinimizer |-> TRUE, checker |-> TRUE, checkUnbounded |-> TRUE,
   keepWork |-> FALSE]

\* Blocks that always look fresh: a negative threshold and no stability rule
\* leave max_iterations alone to end the rounds.
Endless ==
  [Default EXCEPT !.threshold = -1, !.maxIterations = 2, !.msaStableEnd = FALSE,
                  !.ltlDepth = 1]

\* One-shot, bounded and unchecked runs, LTL, random and mixed blocks, a rule
\* of stability that can apply, and the minimiser between rounds.
MCConfigs ==
  { Endless,
    [Default EXCEPT !.msaStableDepth = 1],
    [Default EXCEPT !.blockified = FALSE, !.checkUnbounded = FALSE],
    [Default EXCEPT !.checker = FALSE, !.keepWork = TRUE, !.msa = FALSE],
    [Default EXCEPT !.ltlDepth = 1, !.maxIterations = 2, !.random = TRUE],
    [Default EXCEPT !.blockMinimizer = TRUE, !.msa = FALSE] }

\* Many rounds, so that the stability rule decides.
StableConfigs ==
  { [Default EXCEPT !.threshold = -1, !.maxIterations = 9] }

DefaultConfigs == { Default }
=============================================================================
