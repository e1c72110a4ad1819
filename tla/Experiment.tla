----------------------------- MODULE Experiment -----------------------------
(***************************************************************************)
(* src/tools/experiments/bv_ab.py: an A/B experiment over designs, each    *)
(* mined once in mode "off" and once in mode "unsigned", one cell after    *)
(* the other.  `prepare' freezes the inputs in a manifest, `run' executes  *)
(* the cells that have no result yet, `summarise' judges the pairs.        *)
(*                                                                         *)
(* The cells are kept on disk and outlive the process: a run may be killed *)
(* anywhere and started again, and the inputs may be edited at any time.   *)
(* However a command ends, processes it started may linger: a kill reaches *)
(* one process id, a mining that dies is followed only by its blocks, and  *)
(* the solver of a killed block may run in a group of its own.  An input   *)
(* is known by its version, an evaluation by whether evaluation_metrics    *)
(* finds it valid, block times by small numbers.                           *)
(***************************************************************************)
EXTENDS Integers, Sequences, SequencesExt

CONSTANTS
    Designs,      \* how many designs the experiment has
    Walls,        \* the median block times a cell may report, 0 for no block
    Scale,        \* a multiple of every positive time in Walls, so that
                  \* ratios of two of them are exact in units of 1/Scale
    StageA,       \* whether the timing gate applies
    MaxEdits,     \* bound on edits of the inputs
    MaxCrashes    \* bound on kills of the experiment's own process

ASSUME DesignsAssumption == Designs \in Nat \ {0}
ASSUME WallsAssumption == Walls \subseteq Nat /\ 0 \in Walls
ASSUME BoundsAssumption == MaxEdits \in Nat /\ MaxCrashes \in Nat

Inputs == {"smart", "config", "sources", "mutants"}
Cells == 1 .. 2 * Designs
Off(d) == 2 * d - 1
Unsigned(d) == 2 * d

Versions == 0 .. MaxEdits
None == -1

VARIABLES
    inputs,      \* the version of each input as it is on disk now
    frozen,      \* the versions the manifest records, None before prepare
    disk,        \* per cell: "absent", "partial" (no result.json) or "done"
    result,      \* per cell: what result.json and the logs say
    pc, at,      \* where the process is, and at which cell
    mined,       \* how the mining of the current cell ended
    judged,      \* how the evaluation of the current cell ended
    copied,      \* the version of the mutants copied into the current cell
    exit,        \* exit code of the last command, None before it ends
    lingering,   \* cells that have left processes behind
    edits, crashes,
    used,        \* history: the versions each cell was mined and judged with
    excused,     \* history: inputs edited between their check and their use
    discarded,   \* history: cells whose directory was deleted since their last try
    dirty        \* history: inputs edited since they were last checked

local == <<pc, at, mined, judged, copied, exit>>
store == <<frozen, disk, result>>
world == <<inputs, edits, crashes>>
history == <<used, excused, discarded, dirty>>
vars == <<local, store, world, lingering, history>>

Outcomes == {"ok", "failed", "timedout"}
Verdicts == {"none", "valid", "invalid", "timedout"}
Results == [mine : Outcomes, eval : Verdicts, sound : BOOLEAN, wall : Walls]
NoResult == [mine |-> "failed", eval |-> "none", sound |-> TRUE, wall |-> 0]

Init ==
    /\ inputs = [i \in Inputs |-> 0]
    /\ frozen = [i \in Inputs |-> None]
    /\ disk = [c \in Cells |-> "absent"]
    /\ result = [c \in Cells |-> NoResult]
    /\ pc = "idle" /\ at = 1
    /\ mined = "ok" /\ judged = "none" /\ copied = 0
    /\ exit = None
    /\ lingering = {}
    /\ edits = 0 /\ crashes = 0
    /\ used = [c \in Cells |-> [i \in Inputs |-> None]]
    /\ excused = [c \in Cells |-> {}]
    /\ discarded = {} /\ dirty = {}

Prepared == frozen["smart"] # None

\* The command ends, and its locals with it.
Stop(code) ==
    /\ pc' = "idle" /\ exit' = code
    /\ at' = 1 /\ mined' = "ok" /\ judged' = "none" /\ copied' = 0

\* The command goes on.
Goto(place) == pc' = place /\ exit' = None

-----------------------------------------------------------------------------
(* prepare: refuses a directory that already holds an experiment.          *)

Prepare ==
    /\ pc = "idle"
    /\ IF Prepared
       THEN Stop(2) /\ UNCHANGED frozen
       ELSE Stop(0) /\ frozen' = inputs
    /\ UNCHANGED <<disk, result, world, lingering, history>>

-----------------------------------------------------------------------------
(* summarise *)

Done(c) == disk[c] = "done"
AllDone == \A c \in Cells : Done(c)

\* The logs of a cell that mined contradict its manifest entry, or each other:
\* cell_metrics raises, and no summary is made at all.
Contradictory == \E c \in Cells : Done(c) /\ ~ result[c].sound

ValidCell(c) == Done(c) /\ result[c].eval = "valid"
ValidPair(d) == ValidCell(Off(d)) /\ ValidCell(Unsigned(d))
Timed(d) == ValidPair(d) /\ result[Off(d)].wall > 0 /\ result[Unsigned(d)].wall > 0

\* unsigned/off, in units of 1/Scale
Ratio(d) == (Scale * result[Unsigned(d)].wall) \div result[Off(d)].wall

GateComplete == \A d \in 1 .. Designs : Timed(d)

\* Twice the median of the ratios, in the same units.
TwiceMedian ==
    LET sorted == SortSeq([d \in 1 .. Designs |-> Ratio(d)], <)
    IN  sorted[(Designs + 1) \div 2] + sorted[Designs \div 2 + 1]

GatePassed == TwiceMedian <= 4 * Scale

Summary ==
    IF Contradictory THEN 2
    ELSE IF AllDone /\ \E d \in 1 .. Designs : ~ ValidPair(d) THEN 4
    ELSE IF AllDone /\ StageA /\ ~ GateComplete THEN 5
    ELSE IF StageA /\ GateComplete /\ ~ GatePassed THEN 3
    ELSE 0

Summarise ==
    /\ pc = "idle" /\ Prepared
    /\ Stop(Summary)
    /\ UNCHANGED <<store, world, lingering, history>>

-----------------------------------------------------------------------------
(* run: every hash is checked once at the start, the binary's again before *)
(* each cell.                                                              *)

FrozenBinaryOnly == inputs["smart"] = frozen["smart"]
Frozen == inputs = frozen

Run ==
    /\ pc = "idle" /\ Prepared
    /\ IF Frozen
       THEN /\ Goto("next") /\ dirty' = {}
            /\ UNCHANGED <<at, mined, judged, copied>>
       ELSE Stop(2) /\ UNCHANGED dirty
    /\ UNCHANGED <<store, world, lingering, used, excused, discarded>>

Finish ==
    /\ pc = "next" /\ at \notin Cells
    /\ Stop(Summary)
    /\ UNCHANGED <<store, world, lingering, history>>

SameBinary == inputs["smart"] = frozen["smart"]

\* Slip: a directory without a result is used as it is.
PartialTaken(c) == FALSE
\* A directory without a result belongs to a run that was killed.
Partial(c) == disk[c] = "partial"
SkipsAnyDirectory(c) == disk[c] # "absent"
SkipsValidOnly(c) == Done(c) /\ result[c].eval = "valid"
Skips(c) == Done(c)

Refuse ==
    /\ pc = "next" /\ at \in Cells
    /\ ~ SameBinary \/ (~ Skips(at) /\ Partial(at))
    /\ Stop(2)
    /\ UNCHANGED <<store, world, lingering, history>>

Skip ==
    /\ pc = "next" /\ at \in Cells
    /\ SameBinary /\ Skips(at)
    /\ Goto("next") /\ at' = at + 1
    /\ UNCHANGED <<mined, judged, copied, store, world, lingering, history>>

Open ==
    /\ pc = "next" /\ at \in Cells
    /\ SameBinary /\ ~ Skips(at) /\ ~ Partial(at)
    /\ Goto("opened")
    /\ disk' = [disk EXCEPT ![at] = "partial"]
    /\ dirty' = dirty \ {"smart"}
    /\ UNCHANGED <<at, mined, judged, copied, frozen, result, world, lingering,
                   used, excused, discarded>>

-----------------------------------------------------------------------------
(* run_cell: mine, copy the mutants and check the copy, evaluate, write    *)
(* result.json last.                                                       *)

Launch ==
    /\ pc = "opened"
    /\ Goto("mining")
    /\ judged' = "none"
    /\ used' = [used EXCEPT ![at] =
                  [i \in Inputs |-> IF i = "mutants" THEN None ELSE inputs[i]]]
    /\ excused' = [excused EXCEPT ![at] = dirty]
    /\ discarded' = discarded \ {at}
    /\ UNCHANGED <<at, mined, copied, store, world, lingering, dirty>>

\* What a command that has ended, in whatever way, may leave running: solvers
\* and model checkers of its own (BlockRunner.cpp:73-82 ties a block to the
\* mining's life, but nothing to the block's).
Leftovers == {{}, {at}}

MiningEnds ==
    /\ pc = "mining"
    /\ \E o \in Outcomes, invariants \in BOOLEAN, left \in Leftovers :
        /\ mined' = o
        /\ Goto(IF o = "ok" /\ invariants THEN "mined" ELSE "ended")
        /\ lingering' = lingering \union left
    /\ UNCHANGED <<at, judged, copied, store, world, history>>

Copy ==
    /\ pc = "mined"
    /\ Goto("copied")
    /\ copied' = inputs["mutants"]
    /\ UNCHANGED <<at, mined, judged, store, world, lingering, history>>

HashedSource == inputs["mutants"]

\* What is hashed is the copy the evaluator is going to read.
Hashed == copied

VerifyCopy ==
    /\ pc = "copied"
    /\ IF Hashed = frozen["mutants"]
       THEN /\ Goto("evaluating")
            /\ used' = [used EXCEPT ![at]["mutants"] = copied]
            /\ UNCHANGED <<at, mined, judged, copied>>
       ELSE Stop(2) /\ UNCHANGED used
    /\ UNCHANGED <<store, world, lingering, excused, discarded, dirty>>

EvaluationEnds ==
    /\ pc = "evaluating"
    /\ \E v \in Verdicts \ {"none"}, left \in Leftovers :
        /\ judged' = v
        /\ lingering' = lingering \union left
    /\ Goto("ended")
    /\ UNCHANGED <<at, mined, copied, store, world, history>>

WriteResult ==
    /\ pc = "ended"
    /\ Goto("next") /\ at' = at + 1
    /\ mined' = "ok" /\ judged' = "none" /\ copied' = 0
    /\ disk' = [disk EXCEPT ![at] = "done"]
    /\ \E sound \in BOOLEAN, wall \in Walls :
        /\ mined # "ok" => sound
        /\ judged # "valid" => wall = 0
        /\ result' = [result EXCEPT ![at] =
             [mine |-> mined, eval |-> judged, sound |-> sound, wall |-> wall]]
    /\ UNCHANGED <<frozen, world, lingering, history>>

-----------------------------------------------------------------------------
(* The world outside.                                                      *)

\* An input gets new contents, or old ones back.
Edit(i) ==
    /\ edits < MaxEdits
    /\ edits' = edits + 1
    /\ \E v \in 0 .. edits + 1 : v # inputs[i] /\ inputs' = [inputs EXCEPT ![i] = v]
    /\ dirty' = dirty \union {i}
    /\ UNCHANGED <<local, store, crashes, lingering, used, excused, discarded>>

\* The process is killed; the command it was waiting for is not.
Crash ==
    /\ pc # "idle" /\ crashes < MaxCrashes
    /\ crashes' = crashes + 1
    /\ Stop(None)
    /\ lingering' = IF pc \in {"mining", "evaluating"}
                    THEN lingering \union {at} ELSE lingering
    /\ UNCHANGED <<store, inputs, edits, history>>

LeftoversEnd(c) ==
    /\ c \in lingering
    /\ lingering' = lingering \ {c}
    /\ UNCHANGED <<local, store, world, history>>

\* Someone deletes the directory of a half done cell, as `run' asks for.
Discard(c) ==
    /\ pc = "idle" /\ Partial(c)
    /\ disk' = [disk EXCEPT ![c] = "absent"]
    /\ discarded' = discarded \union {c}
    /\ UNCHANGED <<local, frozen, result, world, lingering, used, excused, dirty>>

Script ==
    \/ Prepare \/ Summarise \/ Run
    \/ Finish \/ Refuse \/ Skip \/ Open
    \/ Launch \/ MiningEnds \/ Copy \/ VerifyCopy \/ EvaluationEnds \/ WriteResult

Next ==
    \/ Script \/ Crash
    \/ \E i \in Inputs : Edit(i)
    \/ \E c \in Cells : LeftoversEnd(c) \/ Discard(c)

Spec == Init /\ [][Next]_vars

-----------------------------------------------------------------------------
Places == {"idle", "next", "opened", "mining", "mined", "copied", "evaluating", "ended"}

\* Every variable keeps its type, and a cell that is being worked on is a cell.
TypeOK ==
    /\ inputs \in [Inputs -> Versions]
    /\ frozen \in [Inputs -> Versions \union {None}]
    /\ disk \in [Cells -> {"absent", "partial", "done"}]
    /\ result \in [Cells -> Results]
    /\ pc \in Places /\ at \in 1 .. 2 * Designs + 1
    /\ pc \notin {"idle", "next"} => at \in Cells
    /\ mined \in Outcomes /\ judged \in Verdicts /\ copied \in Versions
    /\ exit \in {None, 0, 2, 3, 4, 5}
    /\ lingering \subseteq Cells
    /\ discarded \subseteq Cells
    /\ edits \in 0 .. MaxEdits /\ crashes \in 0 .. MaxCrashes
    /\ used \in [Cells -> [Inputs -> Versions \union {None}]]
    /\ excused \in [Cells -> SUBSET Inputs]
    /\ dirty \subseteq Inputs

\* No cell is ever judged on mutants other than those the manifest froze, even
\* when the set is edited while cells are mined: the copy is hashed, not the
\* set it came from.
MutantsAreFrozen ==
    \A c \in Cells : used[c]["mutants"] \in {None, frozen["mutants"]}

\* A cell is mined with an input that is not the frozen one only if that input
\* was edited between its last check and its use: whatever happened before the
\* run that mined the cell was noticed.  (Config and sources are checked at the
\* start of the run only, so any edit during the run is such an edit.)
UnfrozenOnlyMidRun ==
    \A c \in Cells, i \in Inputs :
        used[c][i] \in {None, frozen[i]} \/ i \in excused[c]

\* A finished cell is never mined again, whatever is restarted: neither its
\* result nor the inputs it was made from change.
NeverRedone ==
    [][\A c \in Cells : Done(c) =>
          /\ disk'[c] = "done"
          /\ result'[c] = result[c]
          /\ used'[c] = used[c]]_vars

\* A `run' that ends with 0 has a valid pair for every design, and in stage A a
\* ratio for each: no cell was passed over, refused or lost on the way.
ZeroIsComplete ==
    [][pc = "next" /\ pc' = "idle" /\ exit' = 0 =>
          \A d \in 1 .. Designs : IF StageA THEN Timed(d) ELSE ValidPair(d)]_vars

\* When a cell is about to be mined, processes of an earlier try at it run, into
\* the same directory, only if someone has deleted that directory since: a cell
\* with a result is not tried again, whatever it left running, and a directory
\* without one is refused.  (`run' asks for the deletion and looks for no
\* processes, so deleting is enough to mix two tries.)
TriesApart == pc = "opened" /\ at \in lingering => at \in discarded

=============================================================================
