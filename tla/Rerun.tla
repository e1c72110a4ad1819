------------------------------- MODULE Rerun --------------------------------
(***************************************************************************)
(* Several runs of `smart' in one working directory: the directory is kept *)
(* by --keep-work, by a failure or by a kill, and create() does not empty  *)
(* it.  What a run reads there may be what an earlier one left: sources in *)
(* runtime/verilog, states in fuzz, waveforms in sim_results, block files  *)
(* in variables, counterexamples in smt_results/<core id>, the elaborated  *)
(* design in xml.  (The two shared .sl files are in Pipeline; the README   *)
(* lists the files read by name that are in neither.)                      *)
(*                                                                         *)
(* Every file is known by the run that wrote it.  Blocks run one after the *)
(* other; how they run at once is in BlockRunner.                          *)
(***************************************************************************)
EXTENDS Integers, FiniteSets

CONSTANTS
    MaxRuns,       \* bound on runs
    MaxSources,    \* a design is a set of the .sv names 1 .. MaxSources
    MaxCandidates, \* the search tries at most as many
    MaxTraces,     \* --traces is 1 .. MaxTraces
    MaxFiles,      \* a plan has 1 .. MaxFiles block files
    MaxRounds      \* max_iterations

VARIABLES
    run,           \* number of the run, 0 before the first
    doing,         \* what it is at
    design,        \* names of its design files
    traces,        \* its --traces
    tried,     \* candidates its search has tried
    simulated,     \* waveforms it has asked for
    round,
    queue,         \* block files of this round not yet run
    blockCounter,  \* blocks run so far: the last core id
    sources,       \* runtime/verilog: per name who wrote it, or 0
    elaborated,    \* xml: which run elaborated the design, or 0
    states,        \* fuzz: per candidate who left its states there, or 0
    vcd,           \* sim_results: per index nothing or who wrote it, and whether all of it
    files,         \* variables: per name nothing or who wrote it
    scratch,       \* smt_results: per core id who left counterexamples there
    strays,        \* <<run, candidate>> of simulators that outlived their run's search
    orphans,       \* the waveforms simulators of killed runs still write
    excused,       \* history: waveforms no simulator of this run vouches for
    lost,          \* history: <<run, core id>> of the blocks that left their scratch
    cut,           \* history: <<run, candidate>> at which a search was killed
    stale,         \* history: what the last step read that an earlier run wrote
    removed        \* history: the last run that removed the directory

ASSUME RerunBounds ==
    {MaxRuns, MaxSources, MaxCandidates, MaxTraces, MaxFiles, MaxRounds} \subseteq Nat

asked == <<run, design, traces>>
counters == <<tried, simulated, round, queue, blockCounter>>
memory == <<design, traces, counters, excused>>
disk == <<sources, elaborated, states, vcd, files, scratch>>
history == <<excused, lost, cut, removed>>
rerunVars == <<doing, asked, counters, disk, strays, orphans, history, stale>>

Runs == 0 .. MaxRuns
Sources == 1 .. MaxSources
Candidates == 1 .. MaxCandidates
Indices == 1 .. MaxTraces
Names == 1 .. MaxFiles
Cores == 1 .. MaxFiles * MaxRounds

Nothing == [run |-> 0, whole |-> FALSE]
Exists(i) == vcd[i] # Nothing

Emptied ==
    /\ sources' = [f \in Sources |-> 0]
    /\ elaborated' = 0
    /\ states' = [c \in Candidates |-> 0]
    /\ vcd' = [i \in Indices |-> Nothing]
    /\ files' = [n \in Names |-> 0]
    /\ scratch' = [c \in Cores |-> {}]

RerunInit ==
    /\ run = 0 /\ doing = "idle" /\ design = {} /\ traces = 0
    /\ tried = 0 /\ simulated = 0 /\ round = 0 /\ queue = {} /\ blockCounter = 0
    /\ sources = [f \in Sources |-> 0]
    /\ elaborated = 0
    /\ states = [c \in Candidates |-> 0]
    /\ vcd = [i \in Indices |-> Nothing]
    /\ files = [n \in Names |-> 0]
    /\ scratch = [c \in Cores |-> {}]
    /\ strays = {} /\ orphans = {}
    /\ excused = {} /\ lost = {} /\ cut = {} /\ stale = {} /\ removed = 0

\* With the process goes what it had in memory.
Ended ==
    /\ doing' = "idle"
    /\ design' = {} /\ traces' = 0
    /\ tried' = 0 /\ simulated' = 0 /\ round' = 0 /\ queue' = {} /\ blockCounter' = 0
    /\ excused' = {}

Start ==
    /\ doing = "idle" /\ run < MaxRuns
    /\ run' = run + 1
    /\ design' \in SUBSET Sources \ {{}}
    /\ traces' \in Indices
    /\ doing' = "prepare"
    /\ excused' = {} /\ stale' = {}
    /\ UNCHANGED <<counters, disk, strays, orphans, lost, cut, removed>>

\* create() makes what is missing and empties nothing; of the sources that are
\* there, those with a name of this design are replaced.
Prepare ==
    /\ doing = "prepare"
    /\ \E written \in SUBSET design :
        /\ sources' = [f \in Sources |-> IF f \in written THEN run ELSE sources[f]]
        /\ \/ written = design /\ doing' = "elaborate" /\ UNCHANGED memory
           \/ written # design /\ Ended
    /\ stale' = {}
    /\ UNCHANGED <<run, elaborated, states, vcd, files, scratch, strays, orphans, lost, cut,
                   removed>>

\* Any failure, and any kill: the directory stays as it is.
Stops ==
    /\ doing \notin {"idle", "searched"}
    /\ Ended
    /\ stale' = {}
    /\ UNCHANGED <<run, disk, strays, orphans, lost, cut, removed>>

Old(what, from, key) == [what |-> what, from |-> from, key |-> key, round |-> round]

\* elaborateXml: what is in the directory is taken, else verilator is asked, which
\* may fail.  Asked first for the module of a mined instance, before the sources
\* are written; not at all when Icarus simulates and the top is mined.
Elaborate ==
    /\ doing \in {"prepare", "elaborate"}
    /\ doing' = IF doing = "elaborate" THEN "search" ELSE doing
    /\ elaborated' \in IF elaborated = 0 THEN {0, run} ELSE {elaborated}
    /\ stale' \in IF elaborated \in {0, run} THEN {{}}
                  ELSE {{}, {Old("elaboration", elaborated, 1)}}
    /\ UNCHANGED <<asked, counters, sources, states, vcd, files, scratch, strays, orphans,
                   history>>

-----------------------------------------------------------------------------
(* The search for stimulus (runCandidate), when the policy asks for it: a  *)
(* simulator leaves the states it visited in a file named by the candidate *)
(* alone, which is then read, whoever wrote it, and removed.               *)

\* One that hangs until its limit, or dies, writes nothing.
SearchRuns ==
    /\ doing = "search" /\ tried < MaxCandidates
    /\ doing' = "searched"
    /\ states' \in {states, [states EXCEPT ![tried + 1] = run]}
    /\ stale' = {}
    /\ UNCHANGED <<asked, counters, sources, elaborated, vcd, files, scratch, strays, orphans,
                   history>>

LeftThere(c) == states

AfterRead(c) == [states EXCEPT ![c] = 0]

SearchReads ==
    /\ doing = "searched"
    /\ doing' = "search"
    /\ tried' = tried + 1
    /\ states' = AfterRead(tried + 1)
    /\ stale' = IF states[tried + 1] \in {0, run} THEN {}
                ELSE {Old("states", states[tried + 1], tried + 1)}
    /\ UNCHANGED <<asked, simulated, round, queue, blockCounter, sources, elaborated, vcd, files,
                   scratch, strays, orphans, history>>

SearchEnds ==
    /\ doing = "search"
    /\ doing' = "simulate"
    /\ stale' = {}
    /\ UNCHANGED <<asked, counters, disk, strays, orphans, history>>

\* Killed while a simulator runs, which goes on, or before its states are read.
KilledSearching ==
    /\ doing \in {"search", "searched"} /\ tried < MaxCandidates
    /\ Ended
    /\ cut' = cut \union {<<run, tried + 1>>}
    /\ strays' = IF doing = "search" THEN strays \union {<<run, tried + 1>>} ELSE strays
    /\ stale' = {}
    /\ UNCHANGED <<run, disk, orphans, lost, removed>>

\* It opens the file when it is done, by its name.
LateStates ==
    /\ \E l \in strays :
        /\ strays' = strays \ {l}
        /\ states' \in {states, [states EXCEPT ![l[2]] = l[1]]}
    /\ stale' = {}
    /\ UNCHANGED <<doing, asked, counters, sources, elaborated, vcd, files, scratch, orphans,
                   history>>

-----------------------------------------------------------------------------
(* runSimulations and runWithDeadline.  A simulator ends well, ends with   *)
(* an error, overruns its limit and is killed, or ends well without having *)
(* written anything; when it cannot be waited for, the status stays 0.     *)

Outcomes == {"ok", "error", "overrun", "silent", "unwaited"}

\* What may be on disk afterwards, given what was there.
Writes(outcome, before) ==
    IF outcome = "ok" THEN {[run |-> run, whole |-> TRUE]}
    ELSE {before} \union IF outcome = "silent" THEN {} ELSE [run : {run}, whole : BOOLEAN]

OverrunReadAsStatus(outcome) == outcome # "error"
Succeeded(outcome) == outcome \in {"ok", "silent", "unwaited"}

\* The file is asked for, not that this run wrote it.
Simulate ==
    /\ doing = "simulate" /\ simulated < traces
    /\ \E outcome \in Outcomes : \E after \in Writes(outcome, vcd[simulated + 1]) :
        /\ vcd' = [vcd EXCEPT ![simulated + 1] = after]
        /\ IF Succeeded(outcome) /\ after # Nothing
           THEN /\ simulated' = simulated + 1
                /\ excused' = IF outcome \in {"silent", "unwaited"}
                              THEN excused \union {simulated + 1} ELSE excused
                /\ UNCHANGED <<doing, design, traces, tried, round, queue, blockCounter>>
           ELSE Ended
    /\ stale' = {}
    /\ UNCHANGED <<run, sources, elaborated, states, files, scratch, strays, orphans, lost, cut,
                   removed>>

\* A simulator runs in a group of its own and is not told of the death of the
\* run that waits for it.
KilledSimulating ==
    /\ doing = "simulate" /\ simulated < traces
    /\ Ended
    /\ orphans' = orphans \union {simulated + 1}
    /\ vcd' = [vcd EXCEPT ![simulated + 1] = [run |-> run, whole |-> FALSE]]
    /\ stale' = {}
    /\ UNCHANGED <<run, sources, elaborated, states, files, scratch, strays, lost, cut, removed>>

OrphanWrites ==
    /\ \E i \in orphans :
        /\ orphans' \in {orphans \ {i}, orphans}
        /\ vcd' = [vcd EXCEPT ![i].whole = FALSE]
        /\ excused' = excused \union {i}
    /\ stale' = {}
    /\ UNCHANGED <<doing, asked, counters, sources, elaborated, states, files, scratch, strays,
                   lost, cut, removed>>

-----------------------------------------------------------------------------
(* Block files, and the rounds that run all that are there.                *)

Written(n) == [f \in Names |-> IF f <= n THEN run ELSE files[f]]
Present == {f \in Names : files[f] # 0}

\* The waveforms in the directory that are not this run's.
OldWaveforms ==
    {Old("waveform", vcd[i].run, i) : i \in {j \in Indices : Exists(j) /\ vcd[j].run # run}}

\* The variables are those of all waveforms that are there (candidateVariables).
WriteInitialBlocks ==
    /\ doing = "simulate" /\ simulated = traces
    /\ doing' = "rounds"
    /\ \E n \in Names : files' = Written(n)
    /\ stale' = OldWaveforms
    /\ UNCHANGED <<asked, counters, sources, elaborated, states, vcd, scratch, strays, orphans,
                   history>>

BeginRound ==
    /\ doing = "rounds"
    /\ doing' = "blocks"
    /\ round' = round + 1
    /\ queue' = Present
    /\ stale' = {}
    /\ UNCHANGED <<asked, tried, simulated, blockCounter, disk, strays, orphans, history>>

\* What a block reads that is not this run's: every waveform in the directory,
\* every source (they are EBMC's input, and where the module to write into is
\* looked for), its own file, and the scratch directory of its core id.
OldReads(name) ==
    OldWaveforms
    \union {Old("source", sources[f], f) : f \in {g \in Sources : sources[g] \notin {0, run}}}
    \union (IF files[name] = run THEN {} ELSE {Old("block file", files[name], name)})
    \union {Old("scratch", r, blockCounter + 1) : r \in scratch[blockCounter + 1] \ {run}}

\* A block that verifies, is refuted for good or finds its problem infeasible
\* removes its scratch; one that is killed or fails on the way leaves it.
ScratchLeft(ended) == IF ended = "at its end" THEN {} ELSE scratch[blockCounter + 1] \union {run}

RunBlock ==
    /\ doing = "blocks" /\ queue # {} /\ blockCounter + 1 \in Cores
    /\ \E name \in queue :
        /\ \A other \in queue : name <= other
        /\ queue' = queue \ {name}
        /\ stale' = OldReads(name)
    /\ blockCounter' = blockCounter + 1
    /\ \E ended \in {"at its end", "on the way"} :
        /\ scratch' = [scratch EXCEPT ![blockCounter + 1] = ScratchLeft(ended)]
        /\ lost' = IF ended = "on the way" THEN lost \union {<<run, blockCounter + 1>>} ELSE lost
    /\ UNCHANGED <<doing, asked, tried, simulated, round, sources, elaborated, states, vcd,
                   files, strays, orphans, excused, cut, removed>>

\* Between rounds, and before each latency, the block files are removed first.
Rewritten(n) == [f \in Names |-> IF f <= n THEN run ELSE 0]

NextRound ==
    /\ doing = "blocks" /\ queue = {} /\ round < MaxRounds
    /\ doing' = "rounds"
    /\ \E n \in Names : files' = Rewritten(n)
    /\ stale' = {}
    /\ UNCHANGED <<asked, counters, sources, elaborated, states, vcd, scratch, strays, orphans,
                   history>>

\* After a success the directory goes, unless it is to be kept; a waveform that is
\* still written is then no longer in it.
Finish ==
    /\ doing = "blocks" /\ queue = {}
    /\ Ended
    /\ \/ UNCHANGED <<disk, orphans, removed>>
       \/ Emptied /\ orphans' = {} /\ removed' = run
    /\ stale' = {}
    /\ UNCHANGED <<run, strays, lost, cut>>

RerunNext ==
    \/ Start \/ Prepare \/ Stops \/ Elaborate
    \/ SearchRuns \/ SearchReads \/ SearchEnds \/ KilledSearching \/ LateStates
    \/ Simulate \/ KilledSimulating \/ OrphanWrites
    \/ WriteInitialBlocks \/ BeginRound \/ RunBlock \/ NextRound \/ Finish

RerunSpec == RerunInit /\ [][RerunNext]_rerunVars

-----------------------------------------------------------------------------
\* The traces a run mines from are the ones it asked for, each written to its
\* end by a simulator of its own, whatever an earlier run left under the same
\* name.  What escapes this: a simulator that could not be waited for (its exit
\* code is then read as 0), one that ended well without writing over an old
\* file, and one that outlived a killed run and writes into the same file.
TracesAreItsOwn ==
    doing \in {"rounds", "blocks"} =>
      \A i \in 1 .. traces :
        vcd[i] = [run |-> run, whole |-> TRUE] \/ i \in excused

\* "Simulate the design as it sits in the workdir, so the traces match the
\* sources the blocks reason about" (Pipeline.cpp:429).  Of the six kinds of file
\* modelled here, each is read from an earlier run only when the run did not write
\* over it: a source whose name its design has not, a waveform beyond its own
\* number of traces, a block file in the first round, the counterexamples of a
\* block that was killed or failed on the way under the same core id, the states
\* of a search that was killed at the same candidate, the elaborated design.  And
\* nothing is read that was there before a run removed the directory, but the
\* states a simulator of a killed search writes afterwards.
StaleReadsExplained ==
    \A s \in stale :
      /\ s.from < run
      /\ removed < s.from \/ s.what = "states"
      /\ \/ s.what = "source" /\ s.key \notin design
         \/ s.what = "waveform" /\ (s.key > traces \/ s.key \in excused)
         \/ s.what = "block file" /\ s.round = 1
         \/ s.what = "scratch" /\ <<s.from, s.key>> \in lost
         \/ s.what = "states" /\ <<s.from, s.key>> \in cut
         \/ s.what = "elaboration" /\ s.round = 0
=============================================================================
