-------------------------------- MODULE Fuzz --------------------------------
(***************************************************************************)
(* The fuzz trace policy (simgen/Fuzz.cpp and its two callers): a search   *)
(* over stimulus for the sequences that visit most, a greedy choice of as  *)
(* many as there are traces, and the replay of the chosen ones.            *)
(*                                                                         *)
(* A stimulus is a flat sequence of draws.  The search lays it out by the  *)
(* widths drivenWidths lists, the generated harness reads it in the order  *)
(* renderVerilatorHarness writes it: two functions that must agree.        *)
(* `Visits' says which states a run of a stimulus visits; a run that hangs *)
(* is killed and visits nothing.  Random draws are arbitrary ones.         *)
(***************************************************************************)
EXTENDS Integers, Sequences, SequencesExt, FiniteSetsExt

CONSTANTS
    Signals,       \* the design's signals, in declaration order: [kind, width]
    Cycles,        \* --cycles
    Traces,        \* --traces
    Iterations,    \* fuzz_iterations, the budget of simulations
    Drawn,         \* the random sequences considered, a set of Stimuli
    Visits,        \* function: the states a run of a stimulus visits
    Hanging        \* the stimuli whose run never ends

ASSUME DesignAndFlags ==
    /\ Signals \in Seq([kind : STRING, width : Nat])
    /\ Cycles \in Nat /\ Traces \in Int /\ Iterations \in Int

VARIABLES
    phase,
    iterations,    \* simulations spent
    corpus,        \* the kept candidates: [stimulus, states], in order
    everything,    \* all states seen so far
    chosen,        \* indices into corpus, in the order they were picked
    covered,       \* union of the states of the chosen ones
    replayed       \* waveforms written

fuzzVars == <<phase, iterations, corpus, everything, chosen, covered, replayed>>

-----------------------------------------------------------------------------
(* Who reads what.  Kinds: "clock" and "reset" are driven by the harness   *)
(* itself, "output" by the design, "input" by the stimulus, "const" and    *)
(* "seq" are free registers drawn once and in every cycle; "deep const"    *)
(* and "deep seq" are those inside instances.                              *)

OfKind(kind) ==
    LET among[n \in 0 .. Len(Signals)] ==
            IF n = 0 THEN <<>>
            ELSE IF Signals[n].kind = kind THEN Append(among[n - 1], n)
            ELSE among[n - 1]
    IN  among[Len(Signals)]

\* drivenWidths, as the signals the widths belong to.
RegistersFirst == OfKind("seq") \o OfKind("deep seq") \o OfKind("input")
PerCycle == OfKind("input") \o OfKind("seq") \o OfKind("deep seq")
Constant == OfKind("const") \o OfKind("deep const")

\* The signal the search takes position `at' to belong to.
MeantFor(at) ==
    IF at <= Len(Constant) THEN Constant[at]
    ELSE PerCycle[1 + ((at - Len(Constant) - 1) % Len(PerCycle))]

Width(at) == IF Signals[MeantFor(at)].width > 0 THEN Signals[MeantFor(at)].width ELSE 1

\* The signals in the order the harness asks for their values: each loop of the
\* generator emits its reads, the loop over cycles runs at simulation time.
Reads ==
    LET once == OfKind("const") \o OfKind("deep const")
        each == OfKind("input") \o OfKind("seq") \o OfKind("deep seq")
    IN  once \o FlattenSeq([c \in 1 .. Cycles |-> each])

Size == Len(Constant) + Cycles * Len(PerCycle)
Draws(at) == 0 .. 2 ^ Width(at) - 1
Stimuli ==
    {s \in [1 .. Size -> UNION {Draws(at) : at \in 1 .. Size}] :
        \A at \in 1 .. Size : s[at] \in Draws(at)}

\* The random draws respect the widths, and a run visits so many states.
ASSUME DrawsAndVisits ==
    /\ Drawn \subseteq Stimuli
    /\ \A s \in Stimuli : IsFiniteSet(Visits[s])

StatesOf(stimulus) == IF stimulus \in Hanging THEN {} ELSE Visits[stimulus]

-----------------------------------------------------------------------------
FuzzInit ==
    /\ phase = IF PerCycle = <<>> \/ Traces <= 0 THEN "replay" ELSE "seed"
    /\ iterations = 0
    /\ corpus = <<>> /\ everything = {}
    /\ chosen = <<>> /\ covered = {} /\ replayed = 0

Entry(stimulus) == [stimulus |-> stimulus, states |-> StatesOf(stimulus)]
StatesIn(entries) == UNION {entries[i].states : i \in DOMAIN entries}

Seeds == IF Traces > 4 THEN Traces ELSE 4

\* Plain random draws, kept whatever they visit.
Seed ==
    /\ phase = "seed" /\ Len(corpus) < Seeds /\ iterations < Iterations
    /\ \E s \in Drawn :
        /\ corpus' = Append(corpus, Entry(s))
        /\ everything' = everything \union StatesOf(s)
    /\ iterations' = iterations + 1
    /\ UNCHANGED <<phase, chosen, covered, replayed>>

Seeded ==
    /\ phase = "seed" /\ (Len(corpus) = Seeds \/ iterations = Iterations)
    /\ phase' = "search"
    /\ UNCHANGED <<iterations, corpus, everything, chosen, covered, replayed>>

\* holdSpan: one signal keeps one value over a run of cycles.
Position(cycle, n) == Len(Constant) + (cycle - 1) * Len(PerCycle) + n
Held(s) ==
    IF Cycles < 2 THEN {s}
    ELSE UNION { {[at \in DOMAIN s |->
                      IF \E c \in first .. last : at = Position(c, n) THEN v ELSE s[at]]
                  : v \in Draws(Position(first, n)), last \in first .. Cycles}
               : n \in DOMAIN PerCycle, first \in 1 .. Cycles }

\* randomisePositions: up to four positions are drawn again.
Randomised(s) ==
    {t \in Stimuli : Cardinality({at \in DOMAIN s : t[at] # s[at]}) <= 4}

\* splice: a proper prefix of one parent, the rest of another.
Spliced(s, t) == {SubSeq(s, 1, cut) \o SubSeq(t, cut + 1, Size) : cut \in 0 .. Size - 1}

Offspring ==
    LET parents == {corpus[i].stimulus : i \in DOMAIN corpus}
    IN  UNION {Held(s) \union Randomised(s) \union UNION {Spliced(s, t) : t \in parents} :
                  s \in parents}

\* A candidate is kept when it visits something new, and then all it visits has
\* been seen.
SeenUpToFirst(states) ==
    everything \union (IF states \subseteq everything THEN {}
                       ELSE {CHOOSE x \in states \ everything : TRUE})
SeenWith(states) == everything \union states

Try ==
    /\ phase = "search" /\ corpus # <<>> /\ iterations < Iterations
    /\ \E s \in Offspring :
        /\ corpus' = IF StatesOf(s) \subseteq everything THEN corpus
                     ELSE Append(corpus, Entry(s))
        /\ everything' = SeenWith(StatesOf(s))
    /\ iterations' = iterations + 1
    /\ UNCHANGED <<phase, chosen, covered, replayed>>

Searched ==
    /\ phase = "search" /\ (corpus = <<>> \/ iterations >= Iterations)
    /\ phase' = "cover"
    /\ UNCHANGED <<iterations, corpus, everything, chosen, covered, replayed>>

-----------------------------------------------------------------------------
(* Greedy cover: the first of those that add most; when nothing adds       *)
(* anything, the first that is left.                                       *)

Unused == DOMAIN corpus \ {chosen[i] : i \in DOMAIN chosen}
Gain(i) == Cardinality(corpus[i].states \ covered)

FirstUnused == Min(Unused)
Best == Min({i \in Unused : \A j \in Unused : Gain(j) <= Gain(i)})

Pick ==
    /\ phase = "cover" /\ Len(chosen) < Traces /\ Unused # {}
    /\ chosen' = Append(chosen, Best)
    /\ covered' = covered \union corpus[Best].states
    /\ UNCHANGED <<phase, iterations, corpus, everything, replayed>>

Picked ==
    /\ phase = "cover" /\ (Len(chosen) >= Traces \/ Unused = {})
    /\ phase' = "replay"
    /\ UNCHANGED <<iterations, corpus, everything, chosen, covered, replayed>>

\* Trace by trace; beyond the chosen ones the harness draws for itself.  A
\* replay that hangs fails the simulation as a whole.
Replay ==
    /\ phase = "replay" /\ replayed < Traces
    /\ \E s \in IF replayed < Len(chosen)
                THEN {corpus[chosen[replayed + 1]].stimulus} ELSE Drawn :
        IF s \in Hanging THEN phase' = "failed" /\ UNCHANGED replayed
        ELSE replayed' = replayed + 1 /\ UNCHANGED phase
    /\ UNCHANGED <<iterations, corpus, everything, chosen, covered>>

FuzzNext == Seed \/ Seeded \/ Try \/ Searched \/ Pick \/ Picked \/ Replay

FuzzSpec == FuzzInit /\ [][FuzzNext]_fuzzVars

-----------------------------------------------------------------------------
\* Every stimulus that was run is read as it was meant: a position goes to the signal whose
\* width it was drawn with and whose run of values a mutation holds.
StimulusAligned == iterations + replayed > 0 => Reads = [at \in 1 .. Size |-> MeantFor(at)]

\* No state the search ever saw is lost when it forgets a candidate: the corpus
\* still visits everything, so the selection can be judged against it.
NothingSeenIsLost == everything = StatesIn(corpus)

\* "Chosen to maximise the union of states reached" (Fuzz.h:45) is met within
\* the bound of a greedy cover: of what the best two of the corpus visit, the
\* first two picked visit three quarters.  (No more than that: the run also
\* reaches selections that are not the best.)  And a stimulus that hangs, which
\* ends the run at its replay, is picked only when everything the corpus visits
\* is covered already.
SelectionNearBest ==
    phase = "replay" =>
      /\ Traces = 2 /\ Len(chosen) = 2 =>
           \A i, j \in DOMAIN corpus :
             4 * Cardinality(covered)
               >= 3 * Cardinality(corpus[i].states \union corpus[j].states)
      /\ \A n \in DOMAIN chosen :
           corpus[chosen[n]].stimulus \in Hanging =>
             StatesIn([m \in 1 .. n - 1 |-> corpus[chosen[m]]]) = everything
=============================================================================
