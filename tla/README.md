# A verification development for SMART (smartVerilog)

SMART mines SystemVerilog assertions from a design.  It simulates the design,
lets many small *blocks* synthesise candidate invariants from the traces with
SyGuS (cvc5), refines each against counterexamples of a model checker (EBMC),
minimises what the blocks mined, re-proves every survivor against the original
design, and writes an annotated copy of the design.  This directory holds TLA+
modules for the parts of the program where order, time and partial failure
matter, the TLC configurations that check them, and TLAPS proofs.

Paths below are relative to `src/smart/src/` unless they start with `src/`.

## 1. The system

| component | state it keeps | operations | what is hard |
|---|---|---|---|
| **Pipeline controller**, `pipeline/Pipeline.cpp`, `main.cpp` | options, round and stability counters, set of mined assertions, block files, working directory, exit code | prepare, simulate, rounds of blocks per LTL latency, minimise, MSA, final check, emit | four stop rules over counters with different lifetimes; every stage may fail or throw; the deadline may pass anywhere; minimising before checking |
| **Block pool**, `pipeline/BlockRunner.cpp` | two atomic counters, a mutex, a result per job, the children's processes | claim, fork, poll, kill at a deadline, classify, report, join | threads, children and clock interleave; a child may end between a poll and a kill; files of killed children stay |
| **Synthesis block**, `smart.cpp` | examples, candidate, loop counter, scratch directory, two files shared with every other block | load traces, draw negative states, synthesise, check, refine, publish | the loop must learn from each refutation and end; three unlocked, unchecked writes; globals, so one process per block |
| **Block model checking**, `helper/VerilogChecker.cpp` | bounds, generated formal file | safety check, reachability check, counterexample repair | bounded answers used as facts; missing counterexamples |
| **SyGuS problems**, `sygus/*` | positive and negative example columns | add, print plain or LTL problem, solve | LTL windows over concatenated traces; undefined values |
| **Minimiser and MSA**, `mus/Mus.cpp` | parsed definitions | greedy drop, minimal hitting sets | a definition whose assertion was never mined; its timeout |
| **Final check and emission**, `emit/AssertionWriter.cpp` | claim counter, a status per assertion, scratch copies | check in parallel under a timeout, inject, write | an EBMC that errs, hangs or is killed must never count as a proof |
| **Block files**, `pipeline/Blocks.cpp` | files of candidate variables | subset sizes and counts, sampling | rounding at small designs |
| **Working directory**, `pipeline/WorkDir.cpp` | a directory tree | create, remove | what a second run inherits from a first that failed or was killed |
| **Options**, `pipeline/Options.cpp` | a table of values, pending files and flags | merge file (two schemas), apply flags, imply, validate, write for the blocks, read back | precedence of sources; values that change on their way to a block |
| **Traces and values**, `tracer/*` | states per trace, scope naming | parse, name, project | name collisions across instances |
| **Simulation and fuzzing**, `simgen/*` | corpus, stimulus, waveforms | elaborate, generate, search, choose, replay, run under a deadline | two layouts of one stimulus that must agree; runs that hang; processes that survive |
| **Expression parsing**, `parser/SmtFunctionParser.cpp`, `parser/SygusExpr.cpp` | the latency of the last function | parse, print | a latency leaking between parses; names that look like later states; signedness |
| **A/B experiment**, `src/tools/experiments/bv_ab.py` | manifest, a directory per cell, results | prepare, run, summarise | killed and restarted anywhere; inputs edited meanwhile; processes left behind |
| **VCD parser**, **Verilog frontends**, **benchmark and mutation scripts** | - | text in, text out | nothing that evolves over time |

How they meet.  `Pipeline::run` calls `runBlocks` once per round.  The pool
forks one process per block file; that process is `runSmartBlock`.  A block
speaks to its parent through its exit code and three files: its own
`result_<core>.txt`, and `SygusResult.sl` and `CompareResult.txt`, to which
every block of the run appends without a lock.  The parent reads the result
file, hands the job's result to a callback of `Pipeline::run` under
`progressMutex`, and between rounds lets the minimiser rewrite
`SygusResult.sl` in place.  At the end the minimiser maps mined assertions to
definitions through `CompareResult.txt`, `checkAssertions` runs a second,
similar pool of EBMC processes over what is left, and only its `Verified`
results are written out.

What makes the parts correct: the pool keeps its bound, gives each job one
result and leaves no child behind; a result says what really happened; what the
callback and the minimisers read is what the blocks published; the rounds end;
minimising loses nothing; nothing unproved is labelled proved; a run that fails
keeps its working directory; what a run reads it has written itself; a flag
means what it says down to the block that obeys it; EBMC checks the candidate
cvc5 gave.  `PROJECT.json` lists the hazards behind each of
these at their lines.

## 2. The modules

### RoundContract and JobPool: the abstractions

`RoundContract` holds one operator, `RoundOutcome`: what one call of
`runBlocks` does to the state `Pipeline::run` keeps across rounds.
`BlockRunner` establishes it (`RoundContractMet`, a theorem), `Pipeline` assumes
it, so the two compose without multiplying their state spaces.  It speaks of
what blocks append; what of it reaches the disk is `Pipeline`'s `Unwritten`.

`JobPool` is what a pool of workers promises: every job begun once, reported
once, at most `Limit` in progress, no return before the last report, and, with
its fairness, a return.

### BlockRunner: one call of `runBlocks`

| TLA+ | code |
|---|---|
| `Claim` | `next.fetch_add(1)` and the test for the last job |
| `Start` | the one clock reading of `runOne`: job past the deadline, or its own deadline |
| `Fork`, `Poll`, `Check` | `fork`; `waitpid(WNOHANG)`; the clock test, `kill(-pid, SIGKILL)` and the wait |
| `Settle` | classification by exit code and result file, and removal of the file |
| `Count`, `EnterProgress`, `Progress` | `done.fetch_add(1) + 1`; the lock and the callback's lookup in `mined`; its insert, the count, the unlock |
| `Return` | the join |
| `ExitWithout`, `WriteResult`, `AppendSl`, `AppendCmp`, `ExitVerified` | the end of `runSmartBlock` as parent and disk see it |
| `Crash`, `Tick` | a signal from elsewhere; the clock |

One atomic operation, system call or critical step per action; the claim and the
fork, or the poll and the kill, may have anything between them.  The callback
is split in two steps inside the lock, so that taking the lock away shows as a
lost update.  A child can hang in any state: nothing makes it move.  `found[j]`
is the assertion the child verified, whether or not it managed to write it.
`WritesMayFail` lets each file write fail silently (`writeStringToFile` returns
a bool nobody reads); `SigchldIgnored` lets children vanish, so that `waitpid`
fails.  Left out: the poll period, log lines, the `survivedKill` diagnostic, a
child that stays unkillable inside the kernel.

### Pipeline: `Pipeline::run`

One action per stage: `Prepare`, `Simulate`, `RunBlocks`, `StopRules`,
`BlockMinimise`, `Reblock`, `NextLatency`, `EndMinimise`, `FinalCheck`, `Emit`,
and `Throw` for the exceptions that `main` turns into exit code 3.
`DeadlinePasses` may happen between any two.  An assertion is known by the set
of design states it allows, so implication is inclusion and "minimising loses
nothing" is an equation between sets.  The verdicts of the final check are
chosen there among those a sound checker could give (`SoundVerdicts`):
EBMC is trusted to be sound, never to be complete or fast.

Minimising has two halves.  Until a check throws, what `minimiseAssertions` drops
is implied by what it keeps (`Minimised`).  A check that throws after
`solver.push()` (`Mus.cpp:582`) is caught per index at line 595, outside the scope,
which stays open: every later check is made under the negation of an assertion
and may drop anything but the last line (`AfterThrow`, when `ChecksThrow`).  And
a write nobody checks may come out short (`Unwritten`, when `WritesFail`): a
block's appends, and the rewritten `SygusResult.sl`.  `everDefined`, `lost`
(definitions dropped after a throw or never written) and `computedMsa` are
history variables.

`WorkDir::remove` ignores the error code of `remove_all`; here a removal
succeeds.  The branch for a round without block
files is not modelled: a pool of candidates is never empty there and
`subsetCount` is at least one.  `Minimised`, `AfterThrow` and `MsaResults` are
contracts of `mus/Mus.cpp`: what its operations may return.  `Inherited` are
definitions an earlier run may have left in the same directory: `create()`
empties neither `SygusResult.sl` nor `CompareResult.txt`, so they count as orphans here.

### ChildContract and Block: one synthesis block

`ChildContract` is what the pool assumes of a block's process: three writes in
a fixed order, exit 0 only after all of them, any other exit only before the
first.  `BlockRunner`'s children are made of the same steps; `Block` implements
the contract (`ContractKept`).

| TLA+ | code |
|---|---|
| `Setup`, `ReadTrace`, `AllRead`, `SetupFails` | `runSmartBlock` up to the first problem; bad arguments, unreadable traces, no signals |
| `Draw`, `Vet` | `createNegativeState`: draw, ask EBMC, draw again at most five times |
| `Solve` | `parseSygusFunction`: print the problem, run cvc5, parse; or give up and exit |
| `Check` | `checkExprSafety`: verified, refuted with a counterexample on disk, or failed without one |
| `Refine` | one pass of the loop: its bounds, reading the counterexample, `fixupConstrains`, the new examples |
| `Publish`, `Exit` | the three writes; removal of the scratch directory |
| `Abort` | an exception nobody catches, or a signal |

A block starts in one of several `Settings`.  In those of `MCBlock` it works
over single states (`plain`), over windows of two cycles with two traces
(`ltl`), with fewer samples than negative states (`few`), and on a design whose
assumptions the simulation does not keep (`assumed`).  A state of the design is
a model value, a candidate is the set of *windows* it allows (a state, with the
one `Latency` cycles later), a counterexample is a sequence of sets of states:
what an undefined value may stand for.  cvc5 may answer with any candidate that
fits the examples, EBMC with any verdict that is true up to the depth it looks
at, or not at all.  `Sampled` is what the tracer reads off a waveform: the
samples of a clocked design come twice per cycle, and Verilator shows registers
after an edge with the inputs before it.  `Fill` is what a partly undefined
vector is filled in with, which may be more than it stood for.  `starts`,
`simulated`, `misfilled` and `refuted` are history variables.

### FinalGate: `checkAssertions`

| TLA+ | code |
|---|---|
| `Claim`, `Leave` | `next.fetch_add(1)`, the return when no index is left |
| `Write` | the scratch copy; its stream is never tested, injection may throw |
| `Fork`, `Poll`, `Check` | `runWithTimeout`: `fork`; `waitpid(WNOHANG)`; the deadline, the kill and the wait |
| `Judge` | the code becomes a `CheckStatus`; the copy of a `Verified` one is removed |
| `Return` | the join |
| `CheckerEnds`, `Tick` | EBMC ends, somehow; time passes |

The module is a second implementation of `JobPool`.  A deadline is kept as the
ticks left before it, so the clock needs no bound.  `ignored` says whether
SIGCHLD was inherited as ignored, in which case children vanish instead of
waiting to be reaped; it is chosen at the start.  Exit codes above 0 are one.

### Fuzz: the search for stimulus

`Seed`, `Try`, `Pick` and `Replay` are `simgen/Fuzz.cpp`'s corpus, mutations
(hold, randomise, splice), greedy cover and the replay its callers make of it.
A stimulus is a flat sequence of draws that two functions lay out:
`drivenWidths`, by which it is drawn and mutated, and `renderVerilatorHarness`,
which writes the code that reads it.  Each is an operator (`MeantFor`,
`Reads`), translated from its own source.  Random draws are arbitrary ones; the
states a run visits are a constant; a run that hangs is killed and visits none.

### Rerun: several runs in one working directory

Files are known by the run that wrote them.  A run may be killed anywhere, fail
anywhere (`Stops`), or end well and keep or remove its directory (`Finish`).

| TLA+ | file | code |
|---|---|---|
| `Prepare`, `RunBlock` | `runtime/verilog/*.sv` | sources are written over those of the same name, no other is removed (`Pipeline.cpp:296-305`, `WorkDir.cpp:35-44`); every block gives EBMC all that are there (`smart.cpp:124-133`, `VerilogChecker.cpp:56-66`) |
| `Elaborate` | the design's XML | taken when it is there (`Verilator.cpp:125`) |
| `SearchRuns`, `SearchReads`, `SearchEnds`, `KilledSearching`, `LateStates` | `fuzz/states<N>.txt` | `runCandidate`: run a simulator, read the file of that number whoever wrote it, remove it (`Fuzz.cpp:53-76`) |
| `Simulate`, `KilledSimulating`, `OrphanWrites` | waveforms in `sim_results` | `runSimulations` and `runWithDeadline`; a simulator outlives the run that waited for it |
| `WriteInitialBlocks`, `BeginRound`, `NextRound` | block files in `variables` | written over at first, removed between rounds |
| `RunBlock` | `smt_results/<core id>` | counterexamples; removed by a block that comes to an end of its own |

`stale` is what the last step read that an earlier run wrote; `excused`, `lost`,
`cut` and `removed` are history variables.  The table is not all a second run can
meet.  `SygusResult.sl` and `CompareResult.txt` are in `Pipeline` (`Inherited`).
Neither module has: a file whose own writing failed unnoticed, so that the old one
is read instead (`result_<core>.txt`, `fuzz/selected<N>.txt`, `sygus<core>.sl`);
what Verilator and Icarus find by themselves when they look for an include file
or reuse `obj_dir`; logs that are appended to.  States an earlier run left
are taken for those of the candidate of that number, so a stimulus that hangs
can seem to visit something; `Fuzz` gives each candidate states of its own.

### Options: from the command line to a block

`Scan`, `MergeFile`, `ApplyFlag`, `Conclude`, `Validate` and `BlockReads` are the
phases of `parseCommandLine`, the validation, and the way through
`effective-config.json` into a block.  The lists of pending files and flags are
kept as `merged` and `applied`, the last argument of each kind that is done.  `Table` keeps every option some rule of
the code names and one of each other shape; conversions of texts and JSON values
are modelled by which they accept and what they give.

### Terms and Candidate: an answer on its way to EBMC

`Terms` builds terms level by level (`Derived`: what has at most n operators
inside one another) and evaluates them; all recursion is by recursive functions
over terms, so that it can be reasoned about.  `Candidate` has the grammar a
block prints, from which `Solve` takes any term up to the depth `MaxDepth`, the
parser (`Parse`, whose latency is a member that lives from one answer to the next
and so is a variable, `member`), the printer (`Render`) and the next pass
(`Again`).  A name is a stem and the numbers at its end, because
`cleanLatency` decides by its last digits whether it is a later state's.

A *place* is a signal and a cycle.  What an answer says of values of places
(`CandidateHolds`, which finds the place of a name from the block's signals,
never by the parser's rule) and what its SystemVerilog text says of them
(`PropertyHolds`, with SystemVerilog's rule that a comparison is signed when both
operands are, and the delay after `|->`) are two independent definitions.

### Mus: `minimiseAssertions` and `getMus`

The lines of `SygusResult.sl` are terms, opaque definitions or other text.
`TryDrop` is one look at one line with the scopes the solver has open; `Check`
and `Extend` are `isMus` and the growth of a candidate by hitting sets.  cvc5
may answer, be unsure or throw; the deadline is tested where the code tests it,
between its calls.  A check that throws after `solver.push()` leaves its scope
open (`Mus.cpp:582-597`), and so it does here.

### Traces: from waveforms to examples

`OpenTrace`, `ChooseSignals`, `JoinTrace`, `PrintProblem` and `Learn` follow a
block from the files of `sim_results` to the problem it hands to cvc5, and once
more through a counterexample.  A waveform is its times and its wires; which
wire stands for which signal (`Signal`, `Carrying`), which value it has at a
time (`ValueAt`) and how a signal a waveform lacks is filled in
(`MissingValues`) are translated one by one.  Beside them stands what a reader
of the waveform would say (`Shows`, `Digit`, `IsValue`, `Instants`), written
time by time and digit by digit; `ExamplesAreInstants` compares the two.

### MCParts: the parts that run alone

The parts above share no state with each other, and none is large.
`MCParts` composes them: a behaviour is one of them, the variables of the others
rest.  Each stops when its work is done, so deadlock is not checked there.

### Experiment: `bv_ab.py`

One action per step of `prepare`, `run` and `summarise` at which the process may
be killed: `Open` (the cell's directory), `Launch`, `MiningEnds`, `Copy`,
`VerifyCopy`, `EvaluationEnds`, `WriteResult`, `Skip`, `Refuse`, `Finish`.
Outside it, `Edit` changes an input at any time, `Crash` kills the script,
`LeftoversEnd` ends what a command left running, and `Discard` is the person who
removes a half done cell.  An input is its version.  However a command ends, it
may leave processes (`Leftovers`): a block dies with its mining
(`BlockRunner.cpp:73-82`), but nothing ties EBMC and cvc5 to the block, and a
cvc5 under `timeout` has a process group of its own
(`SyGuSGenerater.cpp:361-367`).  So cells may run beside leftovers of others, which the
script's docstring does not expect; no property denies it.  `used`, `excused`,
`discarded` and `dirty` are history variables.

## 3. The runs

| run | question | size |
|---|---|---|
| `pool` | every interleaving of two threads and three jobs, one of which may start late, clean disk | 1.2 M states |
| `pool_faults` | two jobs, failing writes, hanging and vanishing children: is every job still reported once, and does the call return? | 253 k |
| `pipeline` | six option settings, three assertions, killed blocks, throwing checks, short writes, an inherited definition: what is lost, what is claimed, and does the run end by `max_iterations` alone? | 835 k (about 2 minutes) |
| `pipeline_stable` | does the stability rule stop only a stable MSA? (no) | - |
| `pipeline_minimiser` | does the end minimiser keep the strength of what was mined? (no) | - |
| `pipeline_oracle` | does minimising before the final check lose nothing? (no) | - |
| `block` | what does the refinement loop learn, how does it end, does it keep the contract? Over states, and over two cycles with joined traces | 70 k |
| `block_clocked` | are samples `latency` apart within a trace as many cycles apart? (no, in a design with a clock) | - |
| `gate` | three assertions, two threads, every way a checker or a copy can fail | 419 k |
| `experiment` | one design, two edits, one kill: what is judged with what, and what does exit code 0 mean? | 1.96 M |
| `parts` | command lines, fuzzing, reruns, answers of cvc5, files of definitions and sets of waveforms, each part on its own | 2.5 M (about 2 minutes) |
| `candidate_suffix` | does an answer get a latency only when it speaks of a later state? (no) | - |

Properties of the pool: `AtMostJobs` (no more children alive than
`options.jobs`), `ReportedIsDead` (a job the callback has seen has no process
left to append to a file the minimiser rewrites), `VerifiedIsPublished` (a
`Verified` job has its three writes on disk), `CleanResults` (result files of
jobs that are not `Verified` are gone), `EveryCountOnce` (the counts given to
the callback are 1..n, each once, in spite of being taken outside the lock),
`RoundContractMet`, `VerifiedReasonExplained` (the run log says "verified" of a
job that is not only when its block never ran, could not be waited for, or
exited with 0 between the last poll and the kill: `exitCode` keeps its default
0 for a job past the deadline or one whose `fork` failed, `Pipeline.cpp:615`,
`621`), and the refinements `PoolSafety` and `PoolSpec`.

Properties of the pipeline: `LabelIsHonest` (a file headed as proved, or as
proved up to a bound, holds only assertions true in every state, or every state
within the bound), `LossesAccounted` (every mined assertion is implied by what
goes into the final check together with three kinds of definitions: those of
killed blocks or of an earlier run, those dropped after a check of the minimiser
had thrown, and those a failed write lost), `NothingMinedVanishes` (a run
that mined something checks something), `RoundsAreBounded`, `WorkDirFate`
(failure keeps the working directory, success removes it unless told
otherwise), and `RunEnds`.

Properties of a block: `NoCandidateTwice` (a candidate refuted with a
counterexample never comes back, however undefined values were filled in),
`DemandsAreReal` (positive examples are windows of the design, except where the
formula says: a design with assumptions is simulated without them, an LTL
window may straddle two traces that were joined or be half cycles apart in a
clocked design, and a partly undefined vector may be filled in with what it did
not stand for), `PassesBounded`, `ContractKept` and `BlockEnds`.

Properties of the final check: `VerifiedWasProved` (only a checker of its own
that ended by itself with 0 makes an assertion `Verified`), `SettledIsDead` (no
checker outlives its verdict), `EvidenceKept` (copies of what did not verify
are left alone) and `PoolSpec`.

Properties of the experiment: `MutantsAreFrozen` (no cell is judged on mutants
other than the frozen ones), `UnfrozenOnlyMidRun` (an input that differs from
the manifest was edited between its last check and its use), `NeverRedone`,
`ZeroIsComplete` (exit code 0 means a valid pair for every design) and
`TriesApart` (a cell is mined while processes of an earlier try at it still run
only if someone deleted its directory in between: a cell that is done is not
tried again, a half done one is refused).

Properties of the parts: `FlagsWin` (the last flag of a key decides, against
every file, with the two documented rules that overrule it, and in every block,
which reads back what the run wrote), `StimulusAligned` (the two layouts of a
stimulus agree), `NothingSeenIsLost` and `SelectionNearBest` (the corpus keeps
what the search saw; the greedy choice is within its bound, and takes a stimulus
that hangs only when nothing is left to gain), `TracesAreItsOwn` and
`StaleReadsExplained` (of the six kinds of file in `Rerun`, which ones a run can
read from an earlier run, each with the reason it was not written over; and that
nothing from before a removal is read, but states a simulator of a killed search
writes late), `PropertyMeansCandidate` (the property EBMC
checks holds in the same valuations as the candidate), `WrittenImpliesAll` (the
minimised file implies the one read, unless a check threw), `UnderspecifiedIsFree`
(the variables `getMus` leaves can take any values together; nothing is said when
it ran out of time, cvc5 was unsure, or the definitions contradict each other) and
`ExamplesAreInstants` (an example is what one waveform shows at one time for every
signal of the block, none is lost, and the halves of a pair are `latency` times
apart; nothing is said when a waveform has two wires for one signal).

Some hazards in `PROJECT.json` have no property, because the code does nothing
against them: a failed `waitpid` that skips the removal of a result file
(`CleanResults` excepts it), a sixth draw of a negative state that is used
unchecked, an MSA reported after its deadline (`UnderspecifiedIsFree` excepts it),
solvers of one cell that run beside the next.  The scope a throwing check leaves
open is followed to what it can cost (`LossesAccounted`), not excluded.

### Disagreements between the code and what is said of it

1. `pipeline_stable`: when `getMus` throws, the empty pool it leaves counts as
   size 0 in the stability rule; two failures end the rounds as if the MSA had
   stopped shrinking (`Pipeline.cpp:751-758`).
2. `pipeline_minimiser`: a block killed between its appends and its exit leaves
   a definition whose assertion was not mined.  The end minimiser may keep that
   definition and drop the mined assertions it implies, which
   `src/tools/experiments/README.md:99` rules out.  The run shows this with checks
   that do not throw and writes that are whole, where it is the only way
   strength is lost (`OnlyOrphansLose`); `LossesAccounted` names the others.
3. `pipeline_oracle`: the minimiser may keep an assertion that the final check
   then refutes and drop a provable one that followed from it; the final file
   is weaker than without the minimiser
   (`src/tools/experiments/README.md:101`).
4. `block_clocked`: the harness dumps a clocked design after either edge
   (`simgen/Verilator.cpp:445`) and the tracer makes a state of each time, so the
   state one index further is half a cycle later, although
   `Pipeline.cpp:550-552` says that a latency reaches one *cycle* further back.
   The examples of latency 1 demand what the design does not do in one cycle.
5. `candidate_suffix`: `cleanLatency` takes every name that ends in an underscore
   and digits for a later state's (`SmtFunctionParser.cpp:199`).  Under LTL with
   latency 1 an answer `(=> a d_2)` over a signal named `d_2` is checked and
   published as `a |-> ##2 d`, although the comment at lines 54-56 gives a
   latency only to bodies that speak of a next state.

### Bounds

Two threads are enough for every pairwise race; three jobs make one thread come
back for a job while the other still works, and leave a job to start after the
deadline.  Runs of more than one tick tell a job's own deadline from the
round's.  Two assertions, one mined before, tell a fresh assertion from a repeated one.  Threads are symmetric, and in
`pool` so are assertions that were not mined before.  In `Pipeline`, a state
that is reachable only beyond the bound, and unreachable ones, tell the three
labels apart; in `pipeline` two assertions together imply a third that implies
both, and one of the three alone is a real invariant, which gives the minimiser
every kind of implication; the option settings reach every branch.  Checks throw
and writes fall short in `pipeline` only: the three runs that show a disagreement
do so without either.
Counters are bounded by the options (`maxIterations` of 2, 3 or 9); the clock of
`BlockRunner` by `MaxClock`, after which no deadline is left to pass.
`MCBlock`'s design has five states, one unreachable and one three steps deep,
so that a reachability bound of 1 is too small, a check at depth 3 is not, and
the last of two refinement passes can still verify.

`MCParts`: command lines of up to three arguments give every order of two
sources and a third that overrules them; the fuzzed design has a signal of each
kind, two cycles and two traces, the least at which two layouts can differ and a
greedy choice can go wrong; two runs of two source names, one search candidate, two traces, two block files
and two rounds let every file of the first meet a reader of the second, and a second
design lack a source of the first; candidates have
up to two operators inside one another (`MaxDepth`: an arrow over a connective or
a comparison, the least that gives a delay two sides), over Booleans, two-bit and
one-bit vectors, and a signal whose own name ends in digits; files hold up to three definitions over four variables,
one of them never used; three kinds of waveform (a simulation, one with an
instance named like the design, counterexamples with signals and values left
out) meet in every order.  `MCExperiment`: one design is two cells, so one can
lag behind the other; two edits let an input change and change back.  The
experiment's theorems hold for any number of designs, edits and kills.

### Fairness

`BlockRunner!Spec`: each thread is scheduled (weak fairness per thread), the
caller joins, and time passes.  Nothing is assumed of a child, which may hang
inside cvc5 or EBMC: it is the deadline that ends it.  `FinalGate!Spec` is
the same for its threads and checkers.  `Block!Spec`: weak fairness of the
block's own next step; cvc5 has a time limit, and EBMC is taken to answer (when
it does not, the pool's deadline ends the block).  `Pipeline!Spec`: weak
fairness of the next stage only, because each call it makes is bounded by a
deadline or a timeout of its own; nothing is assumed of the global deadline, so
`RunEnds` shows that `max_iterations` alone ends a run.  The parts and the
experiment state no fairness: their properties are safety properties.

## 4. The proofs

Every safety property of a passing run is a theorem; what is left to TLC is
listed at the end.

`BlockRunnerProofs` proves, for any number of jobs and threads, any deadlines,
any set of assertions, and with failing writes and vanishing children:

| theorem | states |
|---|---|
| `TypeCorrect` | `Safety => []TypeOK` |
| `ReportedDead` | `Safety => []ReportedIsDead` |
| `VerifiedPublished` | `Safety => []VerifiedIsPublished` |
| `JobsBounded` | `Safety => []AtMostJobs` |
| `PoolRefined` | `Safety => PoolSafety`, the abstract pool |

They rest on the module's named assumptions about its constants (the number of
threads is the one the code computes; the deadline lies within the clock's
bound) and on one inductive invariant, `IInv`.  None of the properties is
inductive alone.  `Exclusive` says that no two threads hold the same job and
that every claimed job lies below the counter `next`; from it follows that a
thread's step on its job leaves every other thread's job alone.  `Jobwise`
ties a thread's place in the code to its job: a job that is waiting has no
child, a job before its fork has none, a job past `Poll` or `Check` has a dead
one, and one reported has a status and a count.  `Publication` ties a child's
progress to the files: which prefix of result file, `SygusResult.sl` and
`CompareResult.txt` it has written, and that exit status 0 is reached only
after all three.  `AtMostJobs` then maps each living child to the thread that
holds its job, injectively, and counts threads; `PoolRefined` shows that each
step is `Begin`, `Report`, `Return` or a stutter of `JobPool`.

The second half of `BlockRunnerProofs` goes on from there and proves what is left of the
pool's safety:

| theorem | states |
|---|---|
| `ResultsClean` | `Safety => []CleanResults` |
| `CountsDistinct` | `Safety => []EveryCountOnce` |
| `ContractMet` | `Safety => []RoundContractMet` |
| `ReasonExplained` | `Safety => []VerifiedReasonExplained` |

Its strengthening, `RInv`, is inductive relative to `IInv`.  `Statuses`: a job
has a status exactly once its thread is past classifying it, so an exit code is
read before there is one.  `FilesHeld` and `Meanings` say what a result file, and
an exit code of 0, mean beside each status.  `Counts`: the numbers `fetch_add`
hands out are distinct, and each up to `done` is with one thread or one job; at
the return they are a bijection between the jobs and `1..done`.  `Mining`: the
thread in the callback holds the lock and sees `mined` as it is, which at any
time is what was mined before and what the reported jobs verified.  So the
contract `Pipeline` assumes of a round (`RoundOutcome`) is a theorem about the
pool.

`FinalGateProofs` proves, for any number of assertions and threads, any time
limit, failing copies and vanishing checkers:

| theorem | states |
|---|---|
| `TypeCorrect` | `Safety => []TypeOK` |
| `OnlyProvedVerified` | `Safety => []VerifiedWasProved` |
| `SettledDead` | `Safety => []SettledIsDead` |
| `EvidenceIsKept` | `Safety => []EvidenceKept` |
| `PoolRefined` | `Safety => PoolSafety`, the abstract pool |

Its invariant has the same shape.  `Overrun` bounds the counter, which every
leaving thread advances once more, by the number of threads that have left.
`Claims`, `Exclusive` and `Coverage` say who holds which assertion, and that a
claimed one is held until it is settled.  `Phases` says what a thread about to
judge knows: its checker is dead, and an outcome of 0 is that checker's own
exit code.  `Judged` ties copies to statuses.  A settled assertion has no
thread, so no step touches its checker again (`SettledStays`), and what was
true when it was judged stays true.

`PipelineProofs` proves, for any design, assertions, option settings, verdicts
and number of rounds:

| theorem | states |
|---|---|
| `HonestLabel` | `Safety => []LabelIsHonest` |
| `LossesOnRecord` | `Safety => []LossesAccounted` |
| `OnlyOrphansLose` | the same without `lost`, where no check throws and no write falls short |
| `SomethingChecked` | `Safety => []NothingMinedVanishes` |
| `BoundedRounds` | `Safety => []RoundsAreBounded` |
| `DirectoryFate` | `Safety => []WorkDirFate` |

Its `IInv` adds to the types: `Rounds` (a round starts only below the bound, in
every stage that can lead to one), `Directory` (where the directory must exist),
`Checked` (what was emitted was verified by the check the label names, and the
verdicts are sound), `Defined` (the definitions on disk and those in `lost` are
together as strong as all that were ever written, which every rewrite must
keep, also one that goes wrong), `Faultless` (nothing is in `lost` where no check
throws and no write falls short) and `Choice`.

`ExperimentProofs` proves, for any number of designs, edits and kills:

| theorem | states |
|---|---|
| `JudgedOnFrozenMutants` | `Spec => []MutantsAreFrozen` |
| `OnlyMidRunEditsSlip` | `Spec => []UnfrozenOnlyMidRun` |
| `TriesStayApart` | `Spec => []TriesApart` |
| `FinishedStays` | `Spec => NeverRedone` |
| `ZeroHasEveryPair` | `Spec => ZeroIsComplete` |

Its invariant: nothing is used before `prepare`; while `run` goes on an input is
frozen or edited since its check; cells finish in order; a cell that has left
processes but has no directory had it deleted (`Behind`).

`BlockProofs` proves, for any design, grammar, traces and option setting:

| theorem | states |
|---|---|
| `LoopLearns` | `Safety => []NoCandidateTwice` |
| `LoopBounded` | `Safety => []PassesBounded` |
| `ExamplesAreReal` | `Safety => []DemandsAreReal` |
| `ContractHolds` | `Safety => ContractKept` |

Its `IInv` has a part `Learned`: what the examples demand rules out every
candidate refuted with a counterexample, except, between the check and the
repair, the last one.  It is kept because EBMC prints a counterexample whose last
window the candidate forbids *however its undefined values are filled in*
(`FilledIn`), because appending a run adds that window to what is demanded
(`LastWindowDemanded`), and because more examples never demand less
(`MoreExamples`).  The module's assumptions say that a simulated trace is a run of the design,
unless the design has assumptions, that registers keep their meaning when they
are shown with the inputs before them, and that filling a vector in may give
what it stood for.  `DemandsAreReal` is inductive with `Reading` (where traces
begin, and how much of the examples is simulated): appending a trace adds
windows inside it, which its run justifies, and windows across the seam, which
the formula excuses; in a counterexample a completion of every position that is
not in `misfilled` is a run of the design.  `ContractHolds` makes the contract between a
block and the pool a theorem on the block's side too: what `BlockRunner` assumes
of a child is what `Block` does.

`PartsProofs` and `SimulationProofs` prove, about the parts that run alone:

| theorem | states | for any |
|---|---|---|
| `ReadsSound` | `RerunSpec => []StaleReadsExplained` | number of runs, traces, files and rounds |
| `TracesSound` | `RerunSpec => []TracesAreItsOwn` | the same |
| `MinimiserSound` | `MusSpec => []WrittenImpliesAll` | file of definitions, with any meaning |
| `MsaSound` | `MusSpec => []UnderspecifiedIsFree` | the same |
| `CandidateSound` | `CandidateSpec => []PropertyMeansCandidate` | signals, latencies, depth of terms and values |
| `FlagsDecide` | `OptionsSpec => []FlagsWin` | config files and command lines |
| `StimulusSound` | `FuzzSpec => []StimulusAligned` | design and number of cycles |
| `SearchSound` | `FuzzSpec => []NothingSeenIsLost` | design, budget and random draws |
| `SelectionSound` | `FuzzSpec => []SelectionNearBest` | the same |
| `ExamplesShown` | `TracesSpec => []ExamplesAreInstants` | waveforms, signals and order of reading |

None of these is inductive alone either.

- Rerun, `RerunInv`: everything on disk was written after the directory was last
  removed (`OnDisk`), states of late simulators aside, and no later than now; a
  scratch directory with content belongs to a block in `lost`, states of an
  earlier run to a search in `cut`; the sources of this design are the run's own
  once they are written (`Prepared`); the waveforms asked for so far are the run's
  own or excused (`Simulating`); from the second round on the block files are the
  run's own (`Blocks`).
- The minimiser, `KeptImpliesAll`: while no check has thrown the solver has no
  scope open but its first, and the kept definitions have no more models than all
  of them.
- The MSA search, `GroupsBound`: while the search is neither late nor unsure,
  each group of definitions is still to be done, or fixing the variables in `msa`
  is enough for it whatever the others are; groups share no variable, so the
  assignments found group by group join into one.
- Candidate, `CandidateInv` (`CandidateInvariant`): the answer is one the grammar
  derives (`AnswersAre`: a term over current names, or under LTL an implication
  whose consequence is all now or all then), and what was parsed and printed is
  made of this answer and not of an earlier one.  The rest is a comparison of two
  meanings, by induction over the levels of a term: printing keeps its value
  although SystemVerilog compares two signed signals as signed (`PrintedMeans`),
  renaming it is reading it with other values (`RenamedMeans`), the parser's
  renaming takes every name back to its signal (a later name's last digits are
  the ones the generator appended), and the delay it reads is the latency of the
  consequence (`DelayIs`).
- Options, `OptionsInv`: no flag is applied before the last file is merged, and
  each key is as the flags applied so far say (`Follows`); a list has at least
  one item for each of its flags, counted from its end.  That a block reads back
  the same table follows from every value having the type of its row.
- Fuzz, `FuzzInv`: every candidate fits the widths of the design (`CorpusFits`),
  through holding, redrawing and splicing; the corpus visits all that was seen;
  each choice adds at least as much as any other would have (`Greedy`).  From
  this the bound follows by counting: if the best two candidates visit `U`, the
  first pick x and the second y more, then `2x >= |U|`, `2y >= |U| - x`, and so
  `4(x + y) >= 3|U|`.
- Traces, `TracesInv`: a column is as long as the traces joined so far and,
  unless a waveform has two wires for one of its signals, shows them moment by
  moment; signals are named by paths that do not go through the root again
  (`Plain`), so that a wire carries a signal exactly when the waveform shows it
  there (`NamingIs`).  `ValueAtIs` and `ExtendedIs` show that the value read is
  the latest change, extended digit by digit.

What they assume, each by a named ASSUME that TLC evaluates: a design's signals
have kinds and widths, and a run visits finitely many states (Fuzz); arguments and
entries of config files are of the forms the parser tells apart (Options);
bounds are natural numbers (Rerun); names are a stem and numbers, and latencies
natural numbers (Candidate); a definition's truth depends on its free
variables only (Mus); and of waveforms (Traces) that a dump has the changes of a
wire in the order of time, of one digit up to its width (`WavesAreDumps`), that
a simulator writes every wire when it begins (`SimulationsBeginWhole`; the code
prints an error and goes on when one does not), and that a block is set up with
waveforms there are (`SetupsReadWaves`).

`NumberFacts` has what these proofs share.  The library's induction theorems take
an operator as a parameter and cannot be used, but `WFMin` takes a set: from it
follow `LeastNat`, `EveryNat` and `GreatestNat`, and with them induction over Nat
for a set that is written out.  That is how the recursive functions inside
`FlattenSeq`, `Merged` and `OfKind`, and those over terms (`Derived`, `NameList`,
`Renamed`, `Value`, `Printed`, `Evaluated`), are shown to exist and to have their
values.

Model-checked only:

- liveness, `PoolSpec` (its safety part is `PoolRefined`), `BlockEnds` and
  `RunEnds`, out of the prover's reach like ENABLED;
- the type invariant of `Block`, which no run checks by itself: the part the
  proofs need is `Shape` in `BlockProofs`.

## 5. Plan

Done: the pool, its contract and all its safety properties as theorems; the
pipeline, the block, the final check and the experiment with theirs; the
minimiser and the MSA search, reruns, fuzzing, options and the tables of values
with theirs; the way of a candidate into a property, for any signals and depth.

Left, in this order:

1. `Mus` against `Minimised` and `MsaResults` of `Pipeline` as a stated
   refinement; now both are written from the code and compared by their
   properties only.
2. That the verdicts of `FinalGate` are the `SoundVerdicts` of `Pipeline`.
3. The arithmetic of subset sizes in `pipeline/Blocks.cpp`, over bounded inputs.

## 6. Not modelled

Text rendering and parsing that keeps no state over time: testbenches, VCD, the
Verilog frontends, the layout of SMT-LIB files, injection of assertions.  Bit
operations in `SygusExpr` and `TermBuilder` that no grammar in use can produce.
Real-valued signals.  Subset sizes and sampling of block
files: a plan is any number of them.  `checkEnvironment`, the `--dump-*`
commands and logging.  The benchmark and mutation scripts.  The SBY backend,
which nothing selects.  EBMC, cvc5 and the simulators appear only through what
they may answer.
