------------------------------- MODULE Traces --------------------------------
(***************************************************************************)
(* What a block makes of the waveforms it reads (tracer/, smart.cpp,       *)
(* sygus/SyGuSGenerater.cpp): which signals there are and how they are     *)
(* named, which value each has at each time, and which examples the SyGuS  *)
(* problem demands.  A pass of the refinement loop adds those of a         *)
(* counterexample.                                                         *)
(*                                                                         *)
(* A waveform is the times something changes at and, in the order of the   *)
(* file, its wires: the scopes a wire is in from the outermost, its        *)
(* reference and width, and its changes in the order of time.  A value is  *)
(* the sequence of its digits 0, 1, x and z.                               *)
(***************************************************************************)
EXTENDS Integers, Sequences, FiniteSets, SequencesExt

CONSTANTS
    Waves,        \* the waveforms, by path
    Setups        \* what a block is run with

Bits == Seq({"0", "1", "x", "z"})

Change == [time : Int, bits : Bits]
AnyWire ==
    [scope : Seq(STRING) \ {<<>>}, ref : STRING, width : Nat, changes : Seq(Change)]

\* The format of a waveform: changes in the order of time, of at least one digit
\* and no more than the wire has.
ASSUME WavesAreDumps ==
    \A path \in DOMAIN Waves :
        LET w == Waves[path] IN
        /\ w.times \in Seq(Int)
        /\ w.wires \in Seq(AnyWire) \ {<<>>}
        /\ \A wire \in Range(w.wires) : \A i \in DOMAIN wire.changes :
            /\ Len(wire.changes[i].bits) \in 1 .. wire.width
            /\ \A j \in i .. Len(wire.changes) : wire.changes[i].time =< wire.changes[j].time

\* A simulator writes every wire's value when it begins.
ASSUME SimulationsBeginWhole ==
    \A path \in DOMAIN Waves :
        LET w == Waves[path] IN
        w.kind # "smt" => \A wire \in Range(w.wires) : \A time \in Range(w.times) :
                             \E c \in Range(wire.changes) : c.time =< time

ASSUME SetupsReadWaves ==
    \A one \in Setups :
        /\ one.simulations \union one.leftovers \union {one.counterexample} \subseteq DOMAIN Waves
        /\ one.module \in STRING /\ one.hierarchical \in BOOLEAN

VARIABLES
    setup,        \* one of them
    tracesAt,     \* where the block is
    opened,       \* the paths of its traces, in the order they were read
    joined,       \* how many of them are in the columns
    signals,      \* the signals the block is about
    columns,      \* per signal, its values in all traces
    demanded      \* the examples of the problem: states, or pairs of them

tracesVars == <<setup, tracesAt, opened, joined, signals, columns, demanded>>

Root == setup.module
Latency == setup.latency

-----------------------------------------------------------------------------
(* Trace: a waveform as a table of columns.                                *)

Through(scope) == {i \in DOMAIN scope : scope[i] = Root}

\* scopeNaming and createSignal.  When the hierarchy is mined, a wire below the
\* root answers for the root, under the path from the nearest scope of that name;
\* any other answers for its own scope.
Signal(wire) ==
    LET scope == wire.scope IN
    IF setup.hierarchical /\ Through(scope) # {}
    THEN [module |-> Root, width |-> wire.width,
          name |-> Append(SubSeq(scope, Max(Through(scope)) + 1, Len(scope)), wire.ref)]
    ELSE [module |-> Last(scope), width |-> wire.width, name |-> <<wire.ref>>]

\* Slip: a short vector is left as short as it is written.
AsWritten(bits, width) == bits
\* A vector written with fewer digits than it has gets zeros on the left, or what
\* it begins with when that is x or z.
Extended(bits, width) ==
    [i \in 1 .. width - Len(bits) |-> IF bits[1] \in {"x", "z"} THEN bits[1] ELSE "0"] \o bits

Unknown(width) == [i \in 1 .. width |-> "x"]
Zero(width) == [i \in 1 .. width |-> "0"]
IsUndefined(value) == \E i \in DOMAIN value : value[i] \in {"x", "z"}

\* get_signal_value_at: the last change that is not later.
Until(wire, time) == {i \in DOMAIN wire.changes : wire.changes[i].time =< time}
ValueAt(wire, time) ==
    IF Until(wire, time) = {} THEN Unknown(wire.width)
    ELSE Extended(wire.changes[Max(Until(wire, time))].bits, wire.width)

\* A value for each time; in a simulation the times before the first change are
\* left out.
Skipped(path, wire) ==
    IF Waves[path].kind = "smt" THEN {}
    ELSE {i \in DOMAIN Waves[path].times : Until(wire, Waves[path].times[i]) = {}}

Column(path, wire) ==
    LET first == Cardinality(Skipped(path, wire))
    IN  [i \in 1 .. Len(Waves[path].times) - first |-> ValueAt(wire, Waves[path].times[first + i])]

Wires(path) == Waves[path].wires
Carrying(path, s) == {i \in DOMAIN Wires(path) : Signal(Wires(path)[i]) = s}

\* Slip: a signal the trace does not have has no values.
NoValues(path, s) == <<>>
\* valueLength is what the last wire left behind.
MissingValues(path, s) ==
    [i \in 1 .. Len(Column(path, Last(Wires(path)))) |-> Unknown(s.width)]

\* getSignalValue: of wires with one name the last is kept.
Values(path, s) ==
    IF Carrying(path, s) = {} THEN MissingValues(path, s)
    ELSE Column(path, Wires(path)[Max(Carrying(path, s))])

-----------------------------------------------------------------------------
(* runSmartBlock, up to the first SyGuS file.                              *)

TracesInit ==
    /\ setup \in Setups
    /\ tracesAt = "open"
    /\ opened = <<>> /\ joined = 0
    /\ signals = {} /\ columns = <<>> /\ demanded = {}

\* The files of a directory are read in any order.
Open(directory) ==
    \E path \in directory \ Range(opened) : opened' = Append(opened, path)

\* The simulations first, then the counterexamples an earlier block has left in
\* the scratch directory.
OpenTrace ==
    /\ tracesAt = "open"
    /\ IF setup.simulations \subseteq Range(opened) THEN Open(setup.leftovers)
                                                    ELSE Open(setup.simulations)
    /\ UNCHANGED <<setup, tracesAt, joined, signals, columns, demanded>>

\* The first trace says which signals there are; the block keeps those of its
\* file, or all of them when it cannot be opened.
Chosen ==
    {s \in {Signal(wire) : wire \in Range(Wires(opened[1]))} :
        s.module = Root /\ (setup.unreadable \/ s.name \in setup.names)}

ChooseSignals ==
    /\ tracesAt = "open" /\ opened # <<>>
    /\ setup.simulations \union setup.leftovers \subseteq Range(opened)
    /\ tracesAt' = "join"
    /\ signals' = Chosen
    /\ columns' = [s \in Chosen |-> <<>>]
    /\ UNCHANGED <<setup, opened, joined, demanded>>

\* addConstraints: the values of one more trace follow those of the others.
JoinTrace ==
    /\ tracesAt = "join" /\ joined < Len(opened)
    /\ joined' = joined + 1
    /\ columns' = [s \in signals |-> columns[s] \o Values(opened[joined + 1], s)]
    /\ UNCHANGED <<setup, tracesAt, opened, signals, demanded>>

\* What is read at an index; beyond the end of a column it is anything.
Read(s, i) == IF i \in DOMAIN columns[s] THEN columns[s][i] ELSE <<"beyond the end">>
State(i) == [s \in signals |-> Read(s, i)]
IsDefined(i) == \A s \in signals : ~ IsUndefined(Read(s, i))

\* renderArguments: what is undefined is printed as a zero.
Rendered(i) == [s \in signals |-> IF IsUndefined(Read(s, i)) THEN Zero(s.width) ELSE Read(s, i)]

\* printSysgusPath and printLTLSygusPath, with createConstraint and
\* createLTLConstraint: a state of every index, or the pair of it and of the one
\* `latency' further when both are defined.
Examples(last) ==
    IF Latency = 0 THEN {Rendered(i) : i \in 1 .. last}
    ELSE {<<State(i), State(i + Latency)>> :
            i \in {j \in 1 .. last - Latency : IsDefined(j) /\ IsDefined(j + Latency)}}

\* There are as many as the signal that sorts first has values.
PrintProblem ==
    /\ tracesAt = "join" /\ joined = Len(opened)
    /\ tracesAt' = "printed"
    /\ IF signals = {} THEN demanded' = {}
       ELSE \E s \in signals : demanded' = Examples(Len(columns[s]))
    /\ UNCHANGED <<setup, opened, joined, signals, columns>>

-----------------------------------------------------------------------------
(* A pass of the refinement loop.                                          *)

Digits(width) == [1 .. width -> {"0", "1"}]

\* fixupConstrains, with both ways to fill a state in: values that are undefined
\* in any of their bits get others.
Fixed(values, width) ==
    {v \in [DOMAIN values -> Digits(width)] :
        \A i \in DOMAIN values : ~ IsUndefined(values[i]) => v[i] = values[i]}

\* addTrace does nothing for a path it knows.
Learn ==
    /\ tracesAt = "printed" /\ setup.counterexample \notin Range(opened)
    /\ LET path == setup.counterexample IN
       /\ opened' = Append(opened, path)
       /\ \E fixed \in [signals -> UNION {Fixed(Values(path, s), s.width) : s \in signals}] :
            /\ \A s \in signals : fixed[s] \in Fixed(Values(path, s), s.width)
            /\ columns' = [s \in signals |-> columns[s] \o fixed[s]]
    /\ joined' = joined + 1
    /\ tracesAt' = "join"
    /\ UNCHANGED <<setup, signals, demanded>>

TracesNext == OpenTrace \/ ChooseSignals \/ JoinTrace \/ PrintProblem \/ Learn

TracesSpec == TracesInit /\ [][TracesNext]_tracesVars

-----------------------------------------------------------------------------
(* What the waveforms show, said time by time and digit by digit.          *)

\* Where a signal is in a waveform.
Shows(wire, s) ==
    /\ wire.width = s.width
    /\ IF setup.hierarchical
       THEN \E i \in Through(wire.scope) :
                Append(SubSeq(wire.scope, i + 1, Len(wire.scope)), wire.ref) = s.name
       ELSE Last(wire.scope) = Root /\ s.name = <<wire.ref>>

\* Digit k from the right of what was written; the leftmost goes on when x or z.
Digit(bits, k) ==
    IF k =< Len(bits) THEN bits[Len(bits) + 1 - k]
    ELSE IF bits[1] \in {"x", "z"} THEN bits[1] ELSE "0"

\* Is this the value of the signal at a time of the waveform?
IsValue(value, path, s, time) ==
    /\ DOMAIN value = 1 .. s.width
    /\ \A wire \in Range(Wires(path)) :
        Shows(wire, s) =>
            \A k \in 1 .. s.width :
                LET digit == value[s.width + 1 - k] IN
                \/ /\ \A c \in Range(wire.changes) : c.time > time
                   /\ digit = "x"
                \/ \E c \in Range(wire.changes) :
                    /\ c.time =< time
                    /\ \A d \in Range(wire.changes) : d.time =< time => d.time =< c.time
                    /\ digit = Digit(c.bits, k)
    /\ (\A wire \in Range(Wires(path)) : ~ Shows(wire, s)) => value = Unknown(s.width)

\* Two wires of a waveform that one signal stands for: scopes of one name when
\* the hierarchy is not mined, and an instance named like the root when it is,
\* although "full paths cannot collide the way leaf names can" (Trace.cpp:217).
Ambiguous(path) ==
    \E s \in signals : \E i, j \in DOMAIN Wires(path) :
        i # j /\ Shows(Wires(path)[i], s) /\ Shows(Wires(path)[j], s)

\* The times of the traces that were read at first, one trace after the other.
TimesOf(path) == [i \in DOMAIN Waves[path].times |-> <<path, Waves[path].times[i]>>]
Instants == FlattenSeq([n \in 1 .. Len(opened) |-> TimesOf(opened[n])])

\* The value at an instant, or what was filled in for a value of a counterexample
\* that has none.
IsShown(value, s, now) ==
    \/ IsValue(value, now[1], s, now[2])
    \/ /\ now[1] = setup.counterexample
       /\ value \in Digits(s.width)
       /\ \E v \in [1 .. s.width -> {"0", "1", "x", "z"}] :
             IsUndefined(v) /\ IsValue(v, now[1], s, now[2])

\* An example is what one waveform shows at one time, for every signal of the
\* block, and examples `latency' apart are of instants that far apart: columns
\* that are put together signal by signal, from traces that name, order and omit
\* signals each in its own way, never come out of step, and none of them is lost.
\* What a counterexample leaves undefined is filled in.
ExamplesAreInstants ==
    tracesAt = "printed" /\ signals # {} /\ (\A path \in Range(opened) : ~ Ambiguous(path)) =>
      /\ \A s \in signals : Len(columns[s]) = Len(Instants)
      /\ \A i \in DOMAIN Instants : \A s \in signals : IsShown(columns[s][i], s, Instants[i])
      /\ demanded = Examples(Len(Instants))
=============================================================================
