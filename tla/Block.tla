-------------------------------- MODULE Block --------------------------------
(***************************************************************************)
(* One synthesis block (runSmartBlock, smart.cpp): collect examples from   *)
(* the traces, draw negative ones, synthesise a candidate, check it, learn *)
(* from each counterexample, publish what verifies.                        *)
(*                                                                         *)
(* Data: a state is a valuation of the block's signals.  A candidate is    *)
(* the set of windows it allows; a window is a state with the one          *)
(* `Latency` cycles later, which is the same one when Latency is 0.  In a  *)
(* counterexample a value may be undefined: each position holds the set of *)
(* the states it may stand for.  (What becomes of undefined values in the  *)
(* traces read at first is in Traces.)                                     *)
(***************************************************************************)
EXTENDS Integers, FiniteSets, Sequences

CONSTANTS
  States,
  Start, Succ,  \* the design: its initial states and its steps
  Shown,        \* per step, the registers after it with the inputs before it
  Cubes,        \* what a position of a counterexample may show
  Fill,         \* per cube, what filling it in may give
  Settings      \* what a block may be started with, by name

VARIABLES
  mode,       \* which of the Settings this block was started with
  pc,         \* where the block is
  read,       \* how many of the simulation's traces have been read
  positive,   \* the states of all traces, one trace after the other
  starts,     \* history: where in `positive` a trace begins
  simulated,  \* history: how much of it comes from the simulation
  misfilled,  \* history: positions filled in with what they did not stand for
  negative,   \* the random negative states
  drawn,      \* the random state being considered, 0 when none
  tries,      \* how many were found reachable before it
  candidate,  \* the last candidate
  trace,      \* the counterexample on disk, <<>> when EBMC wrote none
  passes,     \* refinement passes made
  refuted,    \* history: candidates whose counterexample says what it stands for
  scratch,    \* does the block's scratch directory exist?
  code        \* the exit code, -1 for a signal, 0 before

exampleVars == <<read, positive, starts, simulated, misfilled, negative>>
drawVars    == <<drawn, tries>>
checkVars   == <<candidate, trace, passes, refuted>>
exitVars    == <<scratch, code>>

vars == <<mode, pc, exampleVars, drawVars, checkVars, exitVars>>

SimTraces       == Settings[mode].simTraces        \* what was simulated, in order of reading
Clocked         == Settings[mode].clocked          \* has the design a clock?
Simulator       == Settings[mode].simulator        \* options.simulator
\* Has the design assumptions?  Simulation runs on a copy without them.
Assumes         == Settings[mode].assumes
Candidates      == Settings[mode].candidates       \* what its grammar can express
Latency         == Settings[mode].latency
NSignals        == Settings[mode].nSignals         \* how many signals the block has
NegativeStates  == Settings[mode].negativeStates   \* options.negative_state_number
Refinement      == Settings[mode].refinement       \* options.refinement
RefinementDepth == Settings[mode].refinementDepth  \* options.refinement_depth
\* block_bound, or with unbound_check all the design's depth
CheckDepth      == Settings[mode].checkDepth
\* reachability_bound, or with -1 all the design's depth
ReachDepth      == Settings[mode].reachDepth

\* The runs of the design that take n states.
Runs[n \in Nat \ {0}] ==
  {r \in [1..n -> States] : r[1] \in Start /\ \A i \in 1..(n - 1) : <<r[i], r[i + 1]>> \in Succ}

\* What the examples say: the windows of a run of states.
Windows(r) == {<<r[i], r[i + Latency]>> : i \in 1..(Len(r) - Latency)}

\* What a waveform of a run shows.  Verilator's harness dumps a clocked design
\* after an edge, before the inputs of the next cycle are driven; Icarus dumps
\* when the time step is over, and without a clock the run is shown as it is.
Seen(r) ==
  IF Clocked /\ Simulator = "verilator"
  THEN [i \in 1..(Len(r) - 1) |-> Shown[<<r[i], r[i + 1]>>]]
  ELSE r

\* Samples per cycle: either edge of the clock has a time of its own.
PerCycle == IF Clocked THEN 2 ELSE 1

\* The states read from a waveform, one for each of its times.
Sampled(r) == [i \in 1..(PerCycle * Len(Seen(r))) |-> Seen(r)[(i + PerCycle - 1) \div PerCycle]]

ASSUME DesignAssumption ==
  /\ Start \subseteq States
  /\ Succ \subseteq States \X States
  /\ Shown \in [States \X States -> States]
  /\ \A step \in Succ : <<step[1], Shown[step]>> \in Succ
  /\ Cubes \subseteq (SUBSET States) \ {{}}
  /\ Fill \in [Cubes -> SUBSET States]
  /\ \A c \in Cubes : c \subseteq Fill[c]

ASSUME SettingAssumption ==
  \A m \in DOMAIN Settings :
    LET s == Settings[m] IN
    /\ s.candidates \subseteq SUBSET (States \X States)
    /\ s.simTraces \in Seq(Seq(States) \ {<<>>})
    /\ \A i \in DOMAIN s.simTraces :
         s.assumes \/ s.simTraces[i] \in Runs[Len(s.simTraces[i])]
    /\ {s.latency, s.nSignals, s.negativeStates, s.checkDepth, s.reachDepth} \subseteq Nat
    /\ s.refinementDepth \in Int
    /\ {s.refinement, s.clocked, s.assumes} \subseteq BOOLEAN

NoState == 0

Init ==
  /\ mode \in DOMAIN Settings
  /\ pc = "setup"
  /\ read = 0 /\ positive = <<>> /\ starts = {} /\ simulated = 0 /\ misfilled = {}
  /\ negative = <<>>
  /\ drawn = NoState /\ tries = 0
  /\ candidate = {} /\ trace = <<>> /\ passes = 0 /\ refuted = {}
  /\ scratch = FALSE /\ code = 0

Goto(from, to) == pc = from /\ pc' = to

-----------------------------------------------------------------------------

\* Arguments, configuration, the scratch directory.
Setup ==
  /\ Goto("setup", "read")
  /\ scratch' = TRUE
  /\ UNCHANGED <<mode, exampleVars, drawVars, checkVars, code>>

\* The examples of a trace follow those of the traces before it.
ReadTrace ==
  /\ pc = "read" /\ read < Len(SimTraces)
  /\ read' = read + 1
  /\ positive' = positive \o Sampled(SimTraces[read + 1])
  /\ starts' = starts \cup {Len(positive) + 1}
  /\ simulated' = Len(positive')
  /\ UNCHANGED <<mode, pc, misfilled, negative, drawVars, checkVars, exitVars>>

AllRead ==
  /\ read = Len(SimTraces)
  /\ Goto("read", "negatives")
  /\ UNCHANGED <<mode, exampleVars, drawVars, checkVars, exitVars>>

\* exec fails, or arguments or configuration are bad; or, in its scratch
\* directory by then, the block has no signals or cannot open a trace.
SetupFails ==
  /\ Goto("setup", "ended")
  /\ \/ code' \in {127, 255} /\ UNCHANGED scratch
     \/ code' = 1 /\ scratch' = TRUE
  /\ UNCHANGED <<mode, exampleVars, drawVars, checkVars>>

\* An exception that nothing in the block's process catches, or a signal.
Abort ==
  /\ pc # "ended"
  /\ pc' = "ended"
  /\ code' = -1
  /\ UNCHANGED <<mode, exampleVars, drawVars, checkVars, scratch>>

\* Draw a random state, or go on when there are enough negative ones.
Draw ==
  /\ \/ /\ Len(negative) < NegativeStates
        /\ Goto("negatives", "vet")
        /\ drawn' \in States
     \/ /\ Len(negative) >= NegativeStates
        /\ Goto("negatives", "solve")
        /\ UNCHANGED drawn
  /\ UNCHANGED <<mode, exampleVars, tries, checkVars, exitVars>>

\* The states a run meets within the depth; EBMC may prove any other state
\* unreachable.
NearStates[m \in DOMAIN Settings] ==
  UNION {{r[n] : r \in Runs[n]} : n \in 1..(Settings[m].reachDepth + 1)}

\* The test in loopTime++ > 3 ...
GivesUp == tries > 3
\* Slip: the test is made, the counter is not.
TryUncounted == tries
\* ... and the step.
NextTry == tries + 1

\* createNegativeState: an unreachable state is taken; any other answer of
\* EBMC, an error included, means a redraw; the sixth draw is taken unchecked.
Vet ==
  /\ \/ /\ drawn \notin NearStates[mode]
        /\ Goto("vet", "negatives")
        /\ negative' = Append(negative, drawn)
        /\ drawn' = NoState /\ tries' = 0
     \/ /\ ~GivesUp
        /\ pc = "vet" /\ UNCHANGED pc
        /\ drawn' \in States
        /\ tries' = NextTry
        /\ UNCHANGED negative
     \/ /\ GivesUp
        /\ Goto("vet", "negatives")
        /\ \E s \in States : negative' = Append(negative, s)
        /\ drawn' = NoState /\ tries' = 0
  /\ UNCHANGED <<mode, read, positive, starts, simulated, misfilled, checkVars, exitVars>>

\* Slip: the last window of the examples is not printed.
RequiredButLast == Windows(SubSeq(positive, 1, Len(positive) - 1))
\* The windows a candidate must allow.
Required == Windows(positive)

\* The windows it must not allow: a negative state, or under LTL one paired
\* with the positive example of the same index.  When there are fewer of those
\* what is read is beyond the end, and may be anything.
Forbidden(beyond) ==
  {IF Latency = 0 THEN <<negative[i], negative[i]>>
   ELSE <<IF i \in DOMAIN positive THEN positive[i] ELSE beyond[i], negative[i]>> :
     i \in DOMAIN negative}

Solutions ==
  {f \in Candidates :
     /\ Required \subseteq f
     /\ \E beyond \in [DOMAIN negative -> States] : Forbidden(beyond) \cap f = {}}

\* cvc5 finds a candidate that fits the examples, or gives up; then the block
\* removes its scratch directory and exits -1.
Solve ==
  /\ \/ /\ Goto("solve", "check")
        /\ candidate' \in Solutions
        /\ UNCHANGED exitVars
     \/ /\ Goto("solve", "ended")
        /\ scratch' = FALSE /\ code' = 255
        /\ UNCHANGED candidate
  /\ UNCHANGED <<mode, exampleVars, drawVars, trace, passes, refuted>>

\* The runs a partly undefined trace stands for.
Completions(t) == {r \in [DOMAIN t -> States] : \A i \in DOMAIN t : r[i] \in t[i]}

\* The traces of n positions EBMC may print: whatever their undefined values
\* stand for, they are runs of the design.
Printed[n \in Nat \ {0}] ==
  {t \in [1..n -> Cubes] :
     t[1] \subseteq Start /\ \A i \in 1..(n - 1) : t[i] \X t[i + 1] \subseteq Succ}

LastWindow(r, latency) == <<r[Len(r) - latency], r[Len(r)]>>

\* How many positions EBMC may unroll.
Unrolled(s) == (1 + s.latency)..(s.checkDepth + 1)

AllPrinted[m \in DOMAIN Settings] == UNION {Printed[n] : n \in Unrolled(Settings[m])}

\* The positions with a vector that is undefined in some of its bits only.
Blurred(t) == {i \in DOMAIN t : Fill[t[i]] # t[i]}

\* Those that refute f: whatever is undefined, the last window is forbidden.
Counterexamples(f) ==
  {t \in AllPrinted[mode] : \A r \in Completions(t) : LastWindow(r, Latency) \notin f}

\* The windows of the runs within the depth; EBMC may verify a candidate that
\* allows them all.
NearWindows[m \in DOMAIN Settings] ==
  UNION {{LastWindow(r, Settings[m].latency) : r \in Runs[n]} : n \in Unrolled(Settings[m])}

\* EBMC verifies the candidate, refutes it with a counterexample, or fails
\* without one.
Check ==
  /\ \/ /\ NearWindows[mode] \subseteq candidate
        /\ Goto("check", "publish")
        /\ UNCHANGED <<trace, refuted>>
     \/ /\ Goto("check", "loop")
        /\ trace' \in Counterexamples(candidate)
        /\ refuted' = IF {Len(trace') - Latency, Len(trace')} \cap Blurred(trace') = {}
                      THEN refuted \cup {candidate} ELSE refuted
     \/ /\ Goto("check", "loop")
        /\ trace' = <<>>
        /\ UNCHANGED refuted
  /\ UNCHANGED <<mode, exampleVars, drawVars, candidate, passes, exitVars>>

\* Slip: the depth is tested after one pass too many.
OneMorePass == passes > NSignals \/ passes > RefinementDepth
\* timeOut++ > mostRun || timeOut > refinementDepth.
OutOfPasses == passes > NSignals \/ passes + 1 > RefinementDepth

\* Slip: an undefined value is filled in without regard to the trace.
AnyFill(t) == [DOMAIN t -> States]
\* fixupConstrains: undefined values are filled in at random, checked, and
\* filled in once more when the check fails.  A vector that is undefined in some
\* of its bits is drawn again in all of them.
Repaired(t) == {r \in [DOMAIN t -> States] : \A i \in DOMAIN t : r[i] \in Fill[t[i]]}

\* The refinement loop: give up, or learn from the counterexample and go on.
\* Reading a counterexample that was never written ends the process.
Refine ==
  /\ \/ /\ ~Refinement \/ OutOfPasses
        /\ Goto("loop", "ended")
        /\ scratch' = FALSE /\ code' = 1
        /\ UNCHANGED <<positive, starts, misfilled, passes>>
     \/ /\ Refinement /\ ~OutOfPasses
        /\ trace # <<>>
        /\ Goto("loop", "solve")
        /\ passes' = passes + 1
        /\ \E r \in Repaired(trace) : positive' = positive \o r
        /\ starts' = starts \cup {Len(positive) + 1}
        /\ misfilled' = misfilled \cup {Len(positive) + i : i \in Blurred(trace)}
        /\ UNCHANGED exitVars
     \/ /\ Refinement /\ ~OutOfPasses
        /\ trace = <<>>
        /\ Goto("loop", "ended")
        /\ code' = 1
        /\ UNCHANGED <<positive, starts, misfilled, passes, scratch>>
  /\ UNCHANGED <<mode, read, simulated, negative, drawVars, candidate, trace, refuted>>

\* Slip: CompareResult.txt before SygusResult.sl.
SwappedOrder == <<"publish", "wroteResult", "appendedCmp", "appendedSl">>
\* The result file, SygusResult.sl, CompareResult.txt.
PublishOrder == <<"publish", "wroteResult", "appendedSl", "appendedCmp">>

\* Write the next of them.
Publish ==
  /\ \E i \in 1..3 : Goto(PublishOrder[i], PublishOrder[i + 1])
  /\ UNCHANGED <<mode, exampleVars, drawVars, checkVars, exitVars>>

\* Remove the scratch directory and exit 0.
Exit ==
  /\ Goto("appendedCmp", "ended")
  /\ scratch' = FALSE
  /\ UNCHANGED <<mode, exampleVars, drawVars, checkVars, code>>

\* The process has ended.
Done == pc = "ended" /\ UNCHANGED vars

Advance ==
  \/ Setup \/ SetupFails \/ ReadTrace \/ AllRead \/ Draw \/ Vet \/ Solve \/ Check \/ Refine
  \/ Publish \/ Exit

Next == Advance \/ Abort \/ Done

Safety == Init /\ [][Next]_vars

\* cvc5 has a time limit; EBMC is taken to answer.
Spec == Safety /\ WF_vars(Advance)

-----------------------------------------------------------------------------
(* Properties.                                                             *)

\* The type invariant.
TypeOK ==
  /\ mode \in DOMAIN Settings
  /\ pc \in {"setup", "read", "negatives", "vet", "solve", "check", "loop", "publish",
             "wroteResult", "appendedSl", "appendedCmp", "ended"}
  /\ positive \in Seq(States) /\ negative \in Seq(States)
  /\ read \in 0..Len(SimTraces) /\ simulated \in 0..Len(positive)
  /\ starts \subseteq 1..(Len(positive) + 1)
  /\ misfilled \subseteq 1..Len(positive)
  /\ drawn \in States \cup {NoState}
  /\ tries \in 0..4
  /\ candidate \in Candidates \cup {{}}
  /\ trace \in Seq(Cubes)
  /\ passes \in Nat
  /\ refuted \subseteq Candidates
  /\ scratch \in BOOLEAN
  /\ code \in {-1, 0, 1, 127, 255}

\* The loop learns: "the zero instantiation rules that candidate out, which is
\* the whole point" (SyGuSGenerater.cpp:701): a candidate that was refuted with a
\* counterexample never comes back, whatever the undefined values were filled in
\* with.  The exception is a vector undefined in some of its bits, which is drawn
\* again in all of them.
NoCandidateTwice == pc = "check" => candidate \notin refuted

\* The states the design can be in: those in every set that holds the initial
\* ones and is closed under its steps.
Reachable ==
  {s \in States :
     \A S \in SUBSET States :
       Start \subseteq S /\ (\A step \in Succ : step[1] \in S => step[2] \in S) => s \in S}

\* n + 1 states the design can be in one after the other.
Paths(n) ==
  {p \in [1..(n + 1) -> States] :
     p[1] \in Reachable /\ \A i \in 1..n : <<p[i], p[i + 1]>> \in Succ}

\* The windows the design has.
RealWindows[m \in DOMAIN Settings] ==
  {LastWindow(p, Settings[m].latency) : p \in Paths(Settings[m].latency)}

IsReal(i) == <<positive[i], positive[i + Latency]>> \in RealWindows[mode]
CrossesSeam(i) == \E j \in starts : i < j /\ j =< i + Latency

\* "Each step above it lets the synthesiser reach one cycle further back"
\* (Pipeline.cpp:551): what is demanded `Latency' samples apart within one trace
\* is what the design does in as many cycles.
WindowsAreCycles ==
  \A i \in 1..(Len(positive) - Latency) : IsReal(i) \/ CrossesSeam(i)

\* Positive examples never rule out a true invariant.  The exceptions: a design
\* with assumptions is simulated without them; under LTL a waveform of a clocked
\* design has two samples per cycle, and the traces are printed as one sequence,
\* so a window may begin in one and end in the next; a vector undefined in some
\* of its bits is filled in with what the design may never do.
DemandsAreReal ==
  \A i \in 1..(Len(positive) - Latency) :
    \/ IsReal(i)
    \/ i =< simulated /\ (Assumes \/ (Clocked /\ Latency > 0))
    \/ CrossesSeam(i)
    \/ {i, i + Latency} \cap misfilled # {}

\* refinement_depth and the number of signals bound the passes, together.
PassesBounded ==
  passes =< NSignals + 1 /\ (passes > 0 => passes =< RefinementDepth)

\* The block behaves as the pool of blocks assumes.
Progress ==
  IF pc \in {"wroteResult", "appendedSl", "appendedCmp", "ended"} THEN pc ELSE "running"

Contract == INSTANCE ChildContract WITH block <- Progress, code <- code

ContractKept == Contract!Safety

\* A block that gets its answers ends: redraws and refinements are bounded.
BlockEnds == <>(pc = "ended")
=============================================================================
