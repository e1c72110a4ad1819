------------------------------- MODULE MCBlock -------------------------------
(* Block for TLC: a design that idles in 1, or walks through 2, 3 and      *)
(* perhaps 4 and back; it never enters 5, except without its assumptions.   *)
(* An input tells 1 from 2.  Where the design may be in 1 or 2 the input is *)
(* undefined; where it may be in 1 or 4, a vector is undefined in one bit,  *)
(* and 5 is another of its values.                                          *)
EXTENDS Block

MCStates == 1..5
MCStart  == {1}
MCSucc   == {<<1, 1>>, <<1, 2>>, <<2, 3>>, <<3, 4>>, <<4, 1>>, <<4, 2>>, <<3, 1>>, <<3, 2>>}
MCShown  == [step \in MCStates \X MCStates |-> IF step[2] = 2 THEN 1 ELSE step[2]]
MCCubes  == {{s} : s \in MCStates} \cup {{1, 2}, {1, 4}}
MCFill   == [c \in MCCubes |-> IF c = {1, 4} THEN {1, 4, 5} ELSE c]

\* Every invariant over the states; the reachability bound is below the
\* design's depth.
Plain ==
  [simTraces |-> << <<1, 1>>, <<1>> >>, clocked |-> TRUE, simulator |-> "verilator", assumes |-> FALSE,
   candidates |-> {{<<s, s>> : s \in S} : S \in SUBSET MCStates},
   latency |-> 0, nSignals |-> 3, negativeStates |-> 1,
   refinement |-> TRUE, refinementDepth |-> 2, checkDepth |-> 3, reachDepth |-> 1]

\* Every "s now implies one of T next", from a waveform without a clock.
Ltl ==
  [Plain EXCEPT
   !.simTraces = << <<1, 2>>, <<1, 2, 3>> >>, !.clocked = FALSE,
   !.candidates = {{w \in MCStates \X MCStates : w[1] = s => w[2] \in T} :
                     s \in MCStates, T \in SUBSET MCStates},
   !.latency = 1, !.nSignals = 1, !.refinementDepth = 3, !.checkDepth = 4, !.reachDepth = 3]

\* Fewer samples than negative states to pair them with; a design whose
\* assumptions the simulation does not keep.
Few == [Ltl EXCEPT !.simTraces = << <<1>> >>, !.negativeStates = 2, !.refinementDepth = 1]
Assumed == [Plain EXCEPT !.simTraces = << <<1, 5>> >>, !.simulator = "iverilog", !.assumes = TRUE,
                         !.negativeStates = 0]

Several == [plain |-> Plain, ltl |-> Ltl, few |-> Few, assumed |-> Assumed]

\* The same windows, from the waveform of a clocked design.
Clocks == [clocked |-> [Ltl EXCEPT !.clocked = TRUE, !.negativeStates = 0, !.refinement = FALSE]]
=============================================================================
