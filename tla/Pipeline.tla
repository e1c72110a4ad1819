------------------------------ MODULE Pipeline ------------------------------
(***************************************************************************)
(* Pipeline::run (pipeline/Pipeline.cpp): prepare a working directory,     *)
(* simulate, mine in rounds of blocks once per LTL latency, minimise,      *)
(* re-prove every survivor and emit the annotated design.  A round of      *)
(* blocks is one step with the effect RoundContract states; BlockRunner    *)
(* shows that runBlocks has that effect.                                   *)
(*                                                                         *)
(* Data: a design state is a member of States, an assertion is known by    *)
(* the states it allows, and SygusResult.sl and CompareResult.txt are the  *)
(* sets of assertions whose definitions they hold.  A pool of candidate    *)
(* variables is known by its size.                                         *)
(***************************************************************************)
EXTENDS Integers, FiniteSets, RoundContract

CONSTANTS
  Configs,      \* the resolved option settings to consider, see ConfigShape
  Assertions,   \* what blocks may mine
  States,       \* states of the design
  Allows,       \* Allows[a]: the states in which assertion a holds
  Reachable,    \* the states the design reaches
  Shallow,      \* those it reaches within the final check's bound
  Answers,      \* the answers of the final check to consider
  NVars,        \* how many candidate variables the traces give
  Inherited,    \* definitions an earlier run may have left in the directory
  BlocksKilled, \* may a block be killed after it appended its definition?
  ChecksThrow,  \* may a check of the minimiser throw?
  WritesFail    \* may a write that nobody checks come out short?

\* What of the options this module reads.
ConfigShape ==
  [blockified : BOOLEAN, threshold : Int, maxIterations : Int,
   blockMinimizer : BOOLEAN, msa : BOOLEAN, random : BOOLEAN,
   msaStableEnd : BOOLEAN, msaStableDepth : Int, ltlDepth : Nat,
   endMinimizer : BOOLEAN, checker : BOOLEAN, checkUnbounded : BOOLEAN,
   keepWork : BOOLEAN]

ASSUME DesignAssumption ==
  /\ IsFiniteSet(Assertions)
  /\ Allows \in [Assertions -> SUBSET States]
  /\ Shallow \subseteq Reachable /\ Reachable \subseteq States
  /\ Answers \subseteq {"Verified", "Refuted", "TimedOut", "Error"}
  /\ NVars \in Nat \ {0}
  /\ Inherited \subseteq Assertions
  /\ {BlocksKilled, ChecksThrow, WritesFail} \subseteq BOOLEAN

ASSUME ConfigAssumption == \A c \in Configs : c \in ConfigShape

VARIABLES
  opt,          \* the options of this run
  stage,        \* what run() does next
  late,         \* has the run's deadline passed?
  workDir,      \* "none", "present" or "removed"
  latency, round, fresh,
  lastMsaSize, stableRounds,
  blocks,       \* the pools the block files on disk were drawn from
  mined,        \* the mined assertions
  defs,         \* SygusResult.sl
  pairs,        \* CompareResult.txt
  everDefined,  \* history: every definition handed to SygusResult.sl
  lost,         \* history: definitions dropped unimplied or never written
  computedMsa,  \* history: the last MSA computed, and how many did not shrink
  assertions,   \* the assertions that go into the final check
  verdict,      \* what the final check says, or would say, of each assertion
  emitted,      \* the assertions written to the output file
  label,        \* the guarantee its header states
  exit          \* the exit code, -1 while running

roundVars  == <<latency, round, fresh, lastMsaSize, stableRounds, blocks, computedMsa>>
fileVars   == <<mined, defs, pairs, everDefined, lost>>
outVars    == <<assertions, verdict, emitted, label, exit>>

vars == <<opt, stage, late, workDir, roundVars, fileVars, outVars>>

\* The states allowed by every assertion of S.
Strength(S) == {s \in States : \A a \in S : s \in Allows[a]}

\* What EBMC may answer: a proof covers every reachable state, a bounded pass
\* every shallow one; the other answers promise nothing.
SoundVerdicts(c) ==
  {v \in [Assertions -> Answers] :
     \A a \in Assertions : v[a] = "Verified" =>
       (IF c.checkUnbounded THEN Reachable ELSE Shallow) \subseteq Allows[a]}

Unasked == [a \in Assertions |-> "none"]

\* lastMsaSize before the first MSA: numeric_limits<size_t>::max().
Unlimited == NVars + 1

NoMsaYet == [last |-> Unlimited, flat |-> 0]

Init ==
  /\ opt \in Configs
  /\ stage = "prepare"
  /\ late = FALSE
  /\ workDir = "none"
  /\ latency = 0 /\ round = 0 /\ fresh = 0
  /\ lastMsaSize = Unlimited /\ stableRounds = 0
  /\ blocks = {} /\ computedMsa = NoMsaYet
  /\ mined = {}
  /\ defs \in SUBSET Inherited /\ pairs \in SUBSET Inherited
  /\ everDefined = defs /\ lost = {}
  /\ assertions = {} /\ emitted = {} /\ label = "none"
  /\ verdict = Unasked
  /\ exit = -1

\* The global deadline passes.
DeadlinePasses ==
  /\ ~late /\ stage # "done"
  /\ late' = TRUE
  /\ UNCHANGED <<opt, stage, workDir, roundVars, fileVars, outVars>>

-----------------------------------------------------------------------------

\* run() returns with an exit code: 0 success, 1 bad input, 2 missing tool,
\* 3 failure.
Exit(code) == stage' = "done" /\ exit' = code

\* Inputs, frontend and the working directory, which may fail half made.
Prepare ==
  /\ stage = "prepare"
  /\ \/ Exit(1) /\ UNCHANGED workDir
     \/ Exit(3) /\ workDir' \in {"none", "present"}
     \/ stage' = "simulate" /\ workDir' = "present" /\ UNCHANGED exit
  /\ UNCHANGED <<opt, late, roundVars, fileVars, assertions, verdict, emitted, label>>

\* Simulation, candidate variables and the first block files.
Simulate ==
  /\ stage = "simulate"
  /\ \/ \E code \in {1, 2, 3} : Exit(code) /\ UNCHANGED blocks
     \/ /\ stage' = "round"
        /\ blocks' = {"all"}
        /\ UNCHANGED exit
  /\ UNCHANGED <<opt, late, workDir, latency, round, fresh, lastMsaSize,
                 stableRounds, computedMsa, fileVars, assertions, verdict, emitted,
                 label>>

\* Slip: the round is not counted.
RoundUncounted == round
\* ++round.
NextRound == round + 1

\* What a write nobody checks may lose of S: writeStringToFile and the minimiser
\* look at the opening of the file only.
Unwritten(S) == IF WritesFail THEN SUBSET S ELSE {{}}

\* One round: run a block on every block file (there is always one: a pool is
\* never empty and subsetCount is at least 1).  Jobs that start after the
\* deadline are not run; a block killed between its appends and its exit
\* leaves a definition whose assertion is not mined.  (An append of such a
\* block that is not written is that of a block killed before it.)
RunBlocks ==
  /\ stage = "round"
  /\ stage' = "stop"
  /\ round' = NextRound
  /\ \E verified, newDefs, newPairs \in SUBSET Assertions :
       /\ late => newDefs = {}
       /\ ~BlocksKilled => newDefs = verified
       /\ fresh' = Cardinality(verified \ mined)
       /\ mined' = mined \cup verified
       /\ RoundOutcome(mined, mined', fresh', verified, newDefs, newPairs)
       /\ \E L \in Unwritten(verified) :
            /\ defs' = defs \cup (newDefs \ L)
            /\ lost' = (lost \cup newDefs) \ defs'
       /\ \E L \in Unwritten(verified) : pairs' = pairs \cup (newPairs \ L)
       /\ everDefined' = everDefined \cup newDefs
  /\ UNCHANGED <<opt, late, workDir, latency, lastMsaSize, stableRounds,
                 blocks, computedMsa, outVars>>

\* Slip: one round too many.
OneMoreRound == round > opt.maxIterations
\* max_iterations counts the rounds of the whole run, not of one latency.
OutOfRounds == round >= opt.maxIterations

\* When the rounds of this latency end.
MiningEnds ==
  \/ ~opt.blockified
  \/ fresh =< opt.threshold
  \/ OutOfRounds
  \/ late

StopRules ==
  /\ stage = "stop"
  /\ stage' = IF MiningEnds THEN "latency" ELSE "minimise"
  /\ UNCHANGED <<opt, late, workDir, roundVars, fileVars, outVars>>

\* Slip: a definition goes when the whole file implies it, not what is kept.
ImpliedByAll(D) == {K \in SUBSET D : \A d \in D \ K : Strength(D \ {d}) \subseteq Allows[d]}
\* What minimiseAssertions may keep of the definitions D while no check has
\* thrown: it drops them one at a time, each implied by those still kept, never
\* the last one, and stops at its timeout.
Minimised(D) ==
  {K \in SUBSET D : /\ Strength(K) = Strength(D)
                    /\ D # {} => K # {}}

\* What it keeps in the end of the M it had kept when a check threw.  The throw
\* is caught outside the check, so the scope of that check stays open and every
\* later check is made under the negation of an assertion: it finds implied
\* what is not.  The last one is still kept.
AfterThrow(M) ==
  {K \in SUBSET M : K = M \/ (ChecksThrow /\ K # {})}

\* Between rounds, rewrite SygusResult.sl in place; a failure to read it or to
\* open it changes nothing.
BlockMinimise ==
  /\ stage = "minimise"
  /\ stage' = "msa"
  /\ \/ ~opt.blockMinimizer /\ UNCHANGED <<defs, lost>>
     \/ /\ opt.blockMinimizer
        /\ \E M \in Minimised(defs) : \E K \in AfterThrow(M) : \E L \in Unwritten(K) :
             /\ defs' = K \ L
             /\ lost' = (lost \cup M) \ defs'
  /\ UNCHANGED <<opt, late, workDir, roundVars, mined, pairs, everDefined,
                 outVars>>

\* What computing the MSA may give: the size of the pool it leaves, all
\* variables when nothing is defined; after an exception, an empty pool; an
\* empty pool too when the option is off.
MsaResults ==
  IF ~opt.msa THEN {[size |-> 0, failed |-> FALSE]}
  ELSE {[size |-> n, failed |-> FALSE] : n \in IF defs = {} THEN {NVars} ELSE 0..NVars}
       \cup {[size |-> 0, failed |-> TRUE]}

\* The pools the next round's block files are drawn from: the variables the
\* MSA leaves underspecified; all of them, when it leaves none; with random
\* blocks, half and half.
NextBlocks(size) ==
  IF size = 0 THEN {"all"}
  ELSE IF opt.random THEN {"msa", "all"} ELSE {"msa"}

\* History: how many computed MSAs in a row failed to shrink.
Seen(m) ==
  IF ~opt.msa \/ m.failed THEN computedMsa
  ELSE [last |-> m.size,
        flat |-> IF m.size >= computedMsa.last THEN computedMsa.flat + 1 ELSE 0]

\* The stability rule for a pool of `size`: stop, or count and go on.
StableStop(size) ==
  size >= lastMsaSize /\ stableRounds + 1 >= opt.msaStableDepth
\* Slip: a shrinking MSA takes one back instead of starting over.
StableUncount(size) == IF size >= lastMsaSize THEN stableRounds + 1 ELSE stableRounds - 1
StableCount(size) == IF size >= lastMsaSize THEN stableRounds + 1 ELSE 0

\* Compute the MSA, apply the stability rule, replace the block files.
Reblock ==
  /\ stage = "msa"
  /\ \E m \in MsaResults :
       /\ computedMsa' = Seen(m)
       /\ \/ /\ opt.msa /\ opt.msaStableEnd /\ StableStop(m.size)
             /\ stage' = "latency"
             /\ stableRounds' = StableCount(m.size)
             /\ UNCHANGED <<lastMsaSize, blocks>>
          \/ /\ opt.msa /\ opt.msaStableEnd /\ ~StableStop(m.size)
             /\ stage' = "round"
             /\ stableRounds' = StableCount(m.size)
             /\ lastMsaSize' = m.size
             /\ blocks' = NextBlocks(m.size)
          \/ /\ ~(opt.msa /\ opt.msaStableEnd)
             /\ stage' = "round"
             /\ blocks' = NextBlocks(m.size)
             /\ UNCHANGED <<lastMsaSize, stableRounds>>
  /\ UNCHANGED <<opt, late, workDir, latency, round, fresh, fileVars, outVars>>

\* Leave the latency loop, or start the next latency from the initial block
\* files; `round` runs on.
NextLatency ==
  /\ stage = "latency"
  /\ \/ /\ late \/ latency = opt.ltlDepth
        /\ stage' = "endMinimise"
        /\ UNCHANGED <<latency, lastMsaSize, stableRounds, computedMsa, blocks>>
     \/ /\ ~late /\ latency < opt.ltlDepth
        /\ stage' = "round"
        /\ latency' = latency + 1
        /\ lastMsaSize' = Unlimited /\ stableRounds' = 0
        /\ computedMsa' = NoMsaYet
        /\ blocks' = {"all"}
  /\ UNCHANGED <<opt, late, workDir, round, fresh, fileVars, outVars>>

-----------------------------------------------------------------------------

\* The mined assertions to keep when the minimiser kept definitions K: one
\* whose definition survived, or has none in CompareResult.txt.
Survivors(K) == {a \in mined : a \in pairs => a \in K}

\* Slip: the guard against an empty result is gone.
AnySmaller(S) == S # mined
\* A result of the minimiser is used if it is smaller and not empty.
Usable(S) == S # {} /\ S # mined

\* The end-of-run minimiser; an exception skips it, and so does a result that
\* is empty or no smaller.
EndMinimise ==
  /\ stage = "endMinimise"
  /\ stage' = "check"
  /\ \/ assertions' = mined /\ UNCHANGED lost
     \/ /\ opt.endMinimizer /\ Cardinality(mined) > 1
        /\ \E M \in Minimised(defs) : \E K \in AfterThrow(M) :
             /\ Usable(Survivors(K))
             /\ assertions' = Survivors(K)
             /\ lost' = lost \cup (M \ K)
  /\ UNCHANGED <<opt, late, workDir, roundVars, mined, defs, pairs, everDefined,
                 verdict, emitted, label, exit>>

\* Slip: a check that ran out of time counts as passed.
NotRefuted(S, v) == {a \in S : v[a] \in {"Verified", "TimedOut"}}
\* What the final check lets through of S, given its verdicts v.
Proved(S, v) == {a \in S : v[a] = "Verified"}

\* Re-prove every assertion against the original design.
FinalCheck ==
  /\ stage = "check"
  /\ stage' = "emit"
  /\ IF opt.checker
     THEN /\ verdict' \in SoundVerdicts(opt)
          /\ emitted' = Proved(assertions, verdict')
     ELSE emitted' = assertions /\ UNCHANGED verdict
  /\ UNCHANGED <<opt, late, workDir, roundVars, fileVars, assertions, label, exit>>

\* The guarantee the header of the output file states.
Label ==
  IF ~opt.checker THEN "unchecked"
  ELSE IF opt.checkUnbounded THEN "k-induction" ELSE "bounded"

\* Slip: --keep-work is forgotten.
AlwaysRemoved == "removed"
WorkDirAfter == IF opt.keepWork THEN workDir ELSE "removed"

\* Write the output file, or fail to; the working directory goes only after
\* success, and not with keep_work.
Emit ==
  /\ stage = "emit"
  /\ \/ Exit(3) /\ UNCHANGED <<workDir, label>>
     \/ /\ Exit(0)
        /\ label' = Label
        /\ workDir' = WorkDirAfter
  /\ UNCHANGED <<opt, late, roundVars, fileVars, assertions, verdict, emitted>>

\* A directory that cannot be listed, a file that cannot be written: the
\* exception leaves run(), and main turns it into exit code 3.  Only the
\* minimiser between rounds catches everything it meets.
Throw ==
  /\ stage \notin {"prepare", "minimise", "done"}
  /\ Exit(3)
  /\ UNCHANGED <<opt, late, workDir, roundVars, fileVars, assertions,
                 verdict, emitted, label>>

\* The process has ended.
Done == stage = "done" /\ UNCHANGED vars

Next ==
  \/ Prepare \/ Simulate \/ RunBlocks \/ StopRules \/ BlockMinimise \/ Reblock
  \/ NextLatency \/ EndMinimise \/ FinalCheck \/ Emit \/ Throw
  \/ DeadlinePasses \/ Done

Advance ==
  \/ Prepare \/ Simulate \/ RunBlocks \/ StopRules \/ BlockMinimise \/ Reblock
  \/ NextLatency \/ EndMinimise \/ FinalCheck \/ Emit

Safety == Init /\ [][Next]_vars

\* Every step of run() returns: rounds and final checks by their deadlines,
\* the minimiser and the MSA by their timeouts.  Nothing is assumed of the
\* global deadline.
Spec == Safety /\ WF_vars(Advance)

-----------------------------------------------------------------------------
(* Properties.                                                             *)

Stages == {"prepare", "simulate", "round", "stop", "minimise", "msa",
           "latency", "endMinimise", "check", "emit", "done"}

\* The type invariant.
TypeOK ==
  /\ opt \in Configs
  /\ verdict \in [Assertions -> Answers \cup {"none"}]
  /\ stage \in Stages
  /\ late \in BOOLEAN
  /\ workDir \in {"none", "present", "removed"}
  /\ latency \in Nat /\ round \in Nat /\ fresh \in Nat
  /\ lastMsaSize \in 0..Unlimited /\ stableRounds \in Nat
  /\ computedMsa \in [last : 0..Unlimited, flat : Nat]
  /\ blocks \in SUBSET {"all", "msa"}
  /\ mined \subseteq Assertions /\ assertions \subseteq Assertions
  /\ emitted \subseteq Assertions
  /\ defs \subseteq Assertions /\ pairs \subseteq Assertions
  /\ everDefined \subseteq Assertions /\ lost \subseteq Assertions
  /\ label \in {"none", "unchecked", "bounded", "k-induction"}
  /\ exit \in {-1, 0, 1, 2, 3}

\* A file that calls its assertions proved invariants holds only assertions
\* true in every reachable state, and one that calls them bounded only ones
\* true within the bound, whatever was mined, minimised or timed out on the
\* way (AssertionWriter.h:41-43).
LabelIsHonest ==
  /\ label = "k-induction" => Reachable \subseteq Strength(emitted)
  /\ label = "bounded" => Shallow \subseteq Strength(emitted)

\* Definitions whose block never reported its assertion, or reported it to an
\* earlier run in the same directory: create() empties neither shared file.
Orphans == everDefined \ mined

\* The assertions that go into the final check have been chosen.
Chosen == stage \in {"check", "emit"} \/ (stage = "done" /\ assertions # {})

\* Mining, minimising between rounds and minimising at the end lose strength
\* only where it can be told why: every mined assertion is implied by what goes
\* into the final check, together with the orphans, the definitions dropped
\* after a check of the minimiser had thrown (Mus.cpp:576-598) and those an
\* unchecked write lost (smart.cpp:275-287, Mus.cpp:605-607).
LossesAccounted ==
  Chosen => Strength(assertions \cup Orphans \cup lost) \subseteq Strength(mined)

\* Every mined assertion reaches the final check or is implied there, so none
\* is mapped away for want of a definition (Pipeline.cpp:824-827).
NothingMinedVanishes ==
  Chosen /\ mined # {} => assertions # {}

\* max_iterations bounds the rounds of a run without LTL; each further latency
\* adds at most one round once the bound is reached.
RoundsAreBounded ==
  round =< (IF opt.maxIterations > 1 THEN opt.maxIterations ELSE 1) + latency

\* The working directory is kept whenever a run that made one fails (README
\* section 5), and it is gone after a success without --keep-work.
WorkDirFate ==
  stage = "done" /\ workDir # "none" =>
    (workDir = "present" <=> exit # 0 \/ opt.keepWork)

\* Every run ends, without the help of the global deadline.
RunEnds == <>(stage = "done")

\* tools/experiments/README.md:99-101: "The minimiser only drops an assertion
\* the kept set implies".
MinimiserKeepsStrength ==
  Chosen => Strength(assertions) = Strength(mined)

\* tools/experiments/README.md:98-102: a run with the end minimiser and the
\* same run without it detect the same mutants, i.e. what the final check lets
\* through is equally strong.
OracleHolds ==
  stage = "emit" /\ opt.checker => Strength(emitted) = Strength(Proved(mined, verdict))

\* Pipeline.cpp:751-752: "Stop when the MSA has stopped shrinking for
\* msa_stable_depth rounds".
StableStopIsStable ==
  [][stage = "msa" /\ stage' = "latency" =>
       computedMsa'.flat >= opt.msaStableDepth]_vars
=============================================================================
