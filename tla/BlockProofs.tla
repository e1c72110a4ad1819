----------------------------- MODULE BlockProofs -----------------------------
(***************************************************************************)
(* Proofs about Block, for any design, grammar, traces and option setting: *)
(* the examples demand only what the design does, the refinement loop is   *)
(* bounded and learns, and the process keeps the contract the pool of      *)
(* blocks relies on.                                                       *)
(***************************************************************************)
EXTENDS Block, NumberFacts

-----------------------------------------------------------------------------
(* The inductive invariant, in parts.                                       *)

\* The examples are a sequence of states, the passes are counted.
Shape ==
  /\ mode \in DOMAIN Settings
  /\ read \in Nat /\ simulated \in Nat
  /\ positive \in Seq(States)
  /\ passes \in Nat

\* Until the simulation has been read, it is where all examples come from.
Reading == pc \in {"setup", "read"} => simulated = Len(positive)

\* A candidate that is checked allows what the examples demand.  Those that were
\* refuted do not, but for the last one while its counterexample is to be read.
Learned ==
  /\ pc \in {"setup", "read"} => refuted = {}
  /\ pc = "check" => Required \subseteq candidate
  /\ pc = "loop" /\ trace # <<>> => trace \in Counterexamples(candidate)
  /\ pc # "ended" =>
       \A f \in refuted :
         \/ ~(Required \subseteq f)
         \/ /\ pc = "loop" /\ trace # <<>> /\ f = candidate
            /\ {Len(trace) - Latency, Len(trace)} \cap Blurred(trace) = {}

\* The whole.
IInv == Shape /\ PassesBounded /\ Reading /\ DemandsAreReal /\ Learned

-----------------------------------------------------------------------------
(* Facts about sequences of examples.                                       *)

\* What every block's settings are.
LEMMA SettingTypes ==
  ASSUME mode \in DOMAIN Settings
  PROVE  /\ Latency \in Nat /\ NSignals \in Nat /\ CheckDepth \in Nat
         /\ RefinementDepth \in Int
         /\ Clocked \in BOOLEAN /\ Assumes \in BOOLEAN
         /\ SimTraces \in Seq(Seq(States) \ {<<>>})
         /\ \A i \in DOMAIN SimTraces : Assumes \/ SimTraces[i] \in Runs[Len(SimTraces[i])]
BY SettingAssumption
   DEF Latency, NSignals, CheckDepth, RefinementDepth, Clocked, Assumes, SimTraces

\* More examples demand no less.
LEMMA MoreExamples ==
  ASSUME NEW p \in Seq(States), NEW r \in Seq(States), Latency \in Nat
  PROVE  Windows(p) \subseteq Windows(p \o r)
<1> SUFFICES ASSUME NEW i \in 1..(Len(p) - Latency)
             PROVE  <<p[i], p[i + Latency]>> \in Windows(p \o r)
  BY DEF Windows
<1>1. Len(p \o r) = Len(p) + Len(r) /\ Len(p) \in Nat /\ Len(r) \in Nat
  OBVIOUS
<1>2. i \in 1..(Len(p \o r) - Latency)
  BY <1>1
<1>3. (p \o r)[i] = p[i] /\ (p \o r)[i + Latency] = p[i + Latency]
  BY <1>1
<1> QED
  BY <1>2, <1>3 DEF Windows

\* The last window of a run that is appended is demanded from then on.
LEMMA LastWindowDemanded ==
  ASSUME NEW p \in Seq(States), NEW r \in Seq(States), Latency \in Nat, Len(r) > Latency
  PROVE  LastWindow(r, Latency) \in Windows(p \o r)
<1> DEFINE i == Len(p) + Len(r) - Latency
<1>1. Len(p \o r) = Len(p) + Len(r) /\ Len(p) \in Nat /\ Len(r) \in Nat
  OBVIOUS
<1>2. i \in 1..(Len(p \o r) - Latency)
  BY <1>1
<1>3. (p \o r)[i] = r[Len(r) - Latency] /\ (p \o r)[i + Latency] = r[Len(r)]
  BY <1>1
<1> QED
  BY <1>2, <1>3 DEF Windows, LastWindow

\* A counterexample is a sequence of cubes, long enough to have a last window.
LEMMA PrintedTrace ==
  ASSUME mode \in DOMAIN Settings, NEW f, NEW t \in Counterexamples(f)
  PROVE  \E n \in Nat \ {0} : n > Latency /\ t \in Printed[n] /\ t \in [1..n -> Cubes]
<1>1. PICK n \in Unrolled(Settings[mode]) : t \in Printed[n]
  BY DEF Counterexamples, AllPrinted
<1>2. n \in Nat \ {0} /\ n > Latency
  BY SettingTypes DEF Unrolled, Latency, CheckDepth
<1>3. t \in [1..n -> Cubes]
  BY <1>1, <1>2 DEF Printed
<1> QED
  BY <1>1, <1>2, <1>3

\* Whatever its positions are filled in with, the result is a sequence of states
\* as long as the counterexample.
LEMMA FilledIn ==
  ASSUME NEW n \in Nat, NEW t \in [1..n -> Cubes], NEW r \in Repaired(t)
  PROVE  r \in [1..n -> States] /\ r \in Seq(States) /\ Len(r) = n
<1>1. r \in [1..n -> States]
  BY DEF Repaired
<1> QED
  BY <1>1

\* A repair keeps to the counterexample where it is defined in whole values: two
\* positions that are have the states of one of its completions.
LEMMA CompletionThrough ==
  ASSUME NEW n \in Nat, NEW t \in [1..n -> Cubes], NEW r \in Repaired(t),
         NEW i \in 1..n, NEW j \in 1..n, {i, j} \cap Blurred(t) = {}
  PROVE  \E c \in Completions(t) : c[i] = r[i] /\ c[j] = r[j]
<1> DEFINE c == [k \in 1..n |-> IF k \in {i, j} THEN r[k] ELSE CHOOSE x : x \in t[k]]
<1>1. r[i] \in t[i] /\ r[j] \in t[j]
  BY DEF Repaired, Blurred
<1>2. \A k \in 1..n : t[k] # {} /\ t[k] \subseteq States
  BY DesignAssumption
<1>3. \A k \in 1..n : c[k] \in t[k]
  BY <1>1, <1>2
<1>4. c \in Completions(t)
  BY <1>2, <1>3 DEF Completions
<1> QED
  BY <1>4

\* The last window of a repair is forbidden if it was defined in whole values.
LEMMA LastWindowForbidden ==
  ASSUME mode \in DOMAIN Settings, NEW f, NEW t \in Counterexamples(f), NEW r \in Repaired(t),
         {Len(t) - Latency, Len(t)} \cap Blurred(t) = {}
  PROVE  LastWindow(r, Latency) \notin f
<1>1. PICK n \in Nat \ {0} : n > Latency /\ t \in [1..n -> Cubes]
  BY PrintedTrace
<1>2. Len(t) = n /\ Latency \in Nat
  BY <1>1, SettingTypes
<1>3. Len(r) = n
  BY <1>1, FilledIn
<1>4. PICK c \in Completions(t) : c[n - Latency] = r[n - Latency] /\ c[n] = r[n]
  <2>1. n - Latency \in 1..n /\ n \in 1..n
    BY <1>1, <1>2
  <2> QED
    BY <1>1, <1>2, <2>1, CompletionThrough
<1>5. Len(c) = n
  BY <1>1 DEF Completions
<1>6. LastWindow(c, Latency) = LastWindow(r, Latency)
  BY <1>3, <1>4, <1>5 DEF LastWindow
<1> QED
  BY <1>6 DEF Counterexamples

-----------------------------------------------------------------------------
(* Facts about the design.                                                  *)

\* Steps lead from states the design can be in to such states.
LEMMA StepsReach ==
  ASSUME NEW s \in Reachable, NEW t, <<s, t>> \in Succ
  PROVE  t \in Reachable
BY DesignAssumption DEF Reachable

\* All states of a run are.
LEMMA RunsReach ==
  ASSUME NEW n \in Nat \ {0}, NEW r \in Runs[n], NEW i \in 1..n
  PROVE  r[i] \in Reachable
<1>1. /\ r \in [1..n -> States] /\ r[1] \in Start
      /\ \A j \in 1..(n - 1) : <<r[j], r[j + 1]>> \in Succ
  BY DEF Runs
<1> DEFINE T == {k \in Nat : k + 1 =< n => r[k + 1] \in Reachable}
<1>2. 0 \in T
  BY <1>1, DesignAssumption DEF Reachable
<1>3. ASSUME NEW k \in Nat, k \in T PROVE k + 1 \in T
  <2> SUFFICES ASSUME k + 2 =< n PROVE r[k + 2] \in Reachable
    OBVIOUS
  <2>1. r[k + 1] \in Reachable /\ <<r[k + 1], r[k + 1 + 1]>> \in Succ
    BY <1>1, <1>3
  <2>2. k + 1 + 1 = k + 2
    OBVIOUS
  <2> QED
    BY <2>1, <2>2, StepsReach
<1>4. Nat \subseteq T
  <2> HIDE DEF T
  <2> QED
    BY <1>2, <1>3, EveryNat
<1>5. i - 1 \in Nat /\ i - 1 + 1 = i
  OBVIOUS
<1> QED
  BY <1>4, <1>5

\* Two states of a run, Latency apart, are a window the design has.
LEMMA RunsHaveRealWindows ==
  ASSUME mode \in DOMAIN Settings, NEW n \in Nat \ {0}, NEW r \in Runs[n],
         NEW i \in 1..n, i + Latency =< n
  PROVE  <<r[i], r[i + Latency]>> \in RealWindows[mode]
<1> DEFINE p == [k \in 1..(Latency + 1) |-> r[i + k - 1]]
<1>0. Latency \in Nat
  BY SettingTypes
<1>1. /\ r \in [1..n -> States]
      /\ \A j \in 1..(n - 1) : <<r[j], r[j + 1]>> \in Succ
  BY DEF Runs
<1>2. p \in [1..(Latency + 1) -> States]
  BY <1>0, <1>1
<1>3. p[1] = r[i] /\ r[i] \in Reachable
  BY <1>0, RunsReach
<1>4. ASSUME NEW k \in 1..Latency PROVE <<p[k], p[k + 1]>> \in Succ
  <2>1. i + k - 1 \in 1..(n - 1) /\ (i + k - 1) + 1 = i + (k + 1) - 1
    BY <1>0
  <2>2. p[k] = r[i + k - 1] /\ p[k + 1] = r[(i + k - 1) + 1]
    BY <1>0, <2>1
  <2> QED
    BY <1>1, <2>1, <2>2
<1>5. p \in Paths(Latency)
  BY <1>2, <1>3, <1>4 DEF Paths
<1>6. Len(p) = Latency + 1 /\ p[Latency + 1] = r[i + Latency]
  BY <1>0
<1>7. LastWindow(p, Latency) = <<r[i], r[i + Latency]>>
  BY <1>0, <1>3, <1>6 DEF LastWindow
<1> QED
  BY <1>5, <1>7 DEF RealWindows, Latency

\* The completions of a counterexample are runs.
LEMMA CompletionsRun ==
  ASSUME NEW n \in Nat \ {0}, NEW t \in Printed[n], NEW c \in Completions(t)
  PROVE  c \in Runs[n]
<1>1. /\ t \in [1..n -> Cubes] /\ t[1] \subseteq Start
      /\ \A i \in 1..(n - 1) : t[i] \X t[i + 1] \subseteq Succ
  BY DEF Printed
<1>2. c \in [1..n -> States] /\ \A i \in 1..n : c[i] \in t[i]
  BY <1>1 DEF Completions
<1>3. c[1] \in Start
  BY <1>1, <1>2
<1>4. \A i \in 1..(n - 1) : <<c[i], c[i + 1]>> \in Succ
  BY <1>1, <1>2
<1> QED
  BY <1>2, <1>3, <1>4 DEF Runs

\* Two positions of a repair that were defined in whole values, Latency apart,
\* are a window the design has.
LEMMA RepairedIsReal ==
  ASSUME mode \in DOMAIN Settings, NEW f, NEW t \in Counterexamples(f), NEW r \in Repaired(t),
         NEW i \in 1..Len(t), i + Latency =< Len(t), {i, i + Latency} \cap Blurred(t) = {}
  PROVE  <<r[i], r[i + Latency]>> \in RealWindows[mode]
<1>1. PICK n \in Nat \ {0} : t \in Printed[n] /\ t \in [1..n -> Cubes]
  BY PrintedTrace
<1>2. Len(t) = n /\ Latency \in Nat
  BY <1>1, SettingTypes
<1>3. PICK c \in Completions(t) : c[i] = r[i] /\ c[i + Latency] = r[i + Latency]
  <2>1. i \in 1..n /\ i + Latency \in 1..n
    BY <1>2
  <2> QED
    BY <1>1, <2>1, CompletionThrough
<1>4. c \in Runs[n]
  BY <1>1, CompletionsRun
<1> QED
  BY <1>2, <1>3, <1>4, RunsHaveRealWindows

-----------------------------------------------------------------------------
(* Facts about what a waveform shows.                                       *)

\* A sample is a state the simulation shows, in its order.
LEMMA SamplesAreSeen ==
  ASSUME NEW r \in Seq(States)
  PROVE  /\ Seen(r) \in Seq(States)
         /\ Sampled(r) \in Seq(States)
         /\ \A i \in 1..Len(Sampled(r)) :
              \E j \in 1..Len(Seen(r)) : Sampled(r)[i] = Seen(r)[j] /\ (~Clocked => j = i)
         /\ ~Clocked => Seen(r) = r /\ Len(Sampled(r)) = Len(r)
<1> DEFINE seen == Seen(r)
<1>1. seen \in Seq(States)
  <2>1. CASE Clocked /\ Simulator = "verilator"
    <3>1. \A i \in 1..(Len(r) - 1) : Shown[<<r[i], r[i + 1]>>] \in States
      BY DesignAssumption
    <3>2. CASE Len(r) = 0
      <4>1. seen = [i \in 1..0 |-> Shown[<<r[i], r[i + 1]>>]]
        BY <2>1, <3>2 DEF Seen
      <4> QED
        BY <4>1
    <3>3. CASE Len(r) # 0
      <4>1. Len(r) - 1 \in Nat
        BY <3>3
      <4>2. seen \in [1..(Len(r) - 1) -> States]
        BY <2>1, <3>1 DEF Seen
      <4> QED
        BY <4>1, <4>2
    <3> QED
      BY <3>2, <3>3
  <2>2. CASE ~(Clocked /\ Simulator = "verilator")
    BY <2>2 DEF Seen
  <2> QED
    BY <2>1, <2>2
<1> DEFINE m == Len(seen)
<1>2. m \in Nat
  BY <1>1
<1>3. CASE Clocked
  <2>1. Sampled(r) = [i \in 1..(2 * m) |-> seen[(i + 1) \div 2]]
    BY <1>2, <1>3 DEF Sampled, PerCycle
  <2>2. \A i \in 1..(2 * m) : (i + 1) \div 2 \in 1..m
    <3> HIDE DEF m
    <3> QED
      BY <1>2
  <2>3. \A j \in 1..m : seen[j] \in States
    BY <1>1
  <2> HIDE DEF m, seen
  <2>4. Sampled(r) \in [1..(2 * m) -> States] /\ 2 * m \in Nat
    BY <1>2, <2>1, <2>2, <2>3
  <2>5. Sampled(r) \in Seq(States) /\ Len(Sampled(r)) = 2 * m
    BY <2>4
  <2>6. \A i \in 1..Len(Sampled(r)) : \E j \in 1..m : Sampled(r)[i] = seen[j]
    BY <2>1, <2>2, <2>5
  <2> QED
    BY <1>1, <1>3, <2>5, <2>6 DEF m, seen
<1>4. CASE ~Clocked
  <2>1. Seen(r) = r
    BY <1>4 DEF Seen
  <2>2. \A i \in 1..Len(r) : (i + 1 - 1) \div 1 = i
    OBVIOUS
  <2>3. Sampled(r) = [i \in 1..(1 * Len(r)) |-> r[(i + 1 - 1) \div 1]]
    BY <1>4, <2>1 DEF Sampled, PerCycle
  <2>4. Sampled(r) = [i \in 1..Len(r) |-> r[i]]
    BY <2>2, <2>3
  <2>5. Sampled(r) = r
    BY <2>4
  <2> QED
    BY <1>4, <2>1, <2>5
<1> QED
  BY <1>3, <1>4

\* A state the design can be in is a window when Latency is 0.
LEMMA ReachableIsReal ==
  ASSUME mode \in DOMAIN Settings, Latency = 0, NEW s \in Reachable
  PROVE  <<s, s>> \in RealWindows[mode]
<1> DEFINE p == [k \in 1..1 |-> s]
<1>1. p \in Paths(0)
  BY DEF Paths, Reachable
<1>2. LastWindow(p, 0) = <<s, s>>
  BY DEF LastWindow
<1> QED
  BY <1>1, <1>2 DEF RealWindows, Latency

\* What a waveform shows of a run of the design, the design can be in.
LEMMA SeenIsReachable ==
  ASSUME NEW n \in Nat \ {0}, NEW r \in Runs[n], NEW j \in 1..Len(Seen(r))
  PROVE  Seen(r)[j] \in Reachable
<1>1. r \in [1..n -> States] /\ \A i \in 1..(n - 1) : <<r[i], r[i + 1]>> \in Succ
  BY DEF Runs
<1>2. Len(r) = n
  BY <1>1
<1>3. CASE Clocked /\ Simulator = "verilator"
  <2>1. Seen(r) = [i \in 1..(n - 1) |-> Shown[<<r[i], r[i + 1]>>]] /\ n - 1 \in Nat
    BY <1>2, <1>3 DEF Seen
  <2>2. Len(Seen(r)) = n - 1
    BY <2>1
  <2>3. j \in 1..(n - 1) /\ Seen(r)[j] = Shown[<<r[j], r[j + 1]>>]
    BY <2>1, <2>2
  <2>4. <<r[j], Shown[<<r[j], r[j + 1]>>]>> \in Succ
    BY <1>1, <2>3, DesignAssumption
  <2> QED
    BY <2>3, <2>4, RunsReach, StepsReach
<1>4. CASE ~(Clocked /\ Simulator = "verilator")
  BY <1>2, <1>4, RunsReach DEF Seen
<1> QED
  BY <1>3, <1>4

\* Samples of a run of the design are windows it has, Latency apart, unless two of
\* them are one cycle.
LEMMA SampledIsReal ==
  ASSUME mode \in DOMAIN Settings, NEW k \in DOMAIN SimTraces, ~Assumes, ~(Clocked /\ Latency > 0),
         NEW i \in 1..Len(Sampled(SimTraces[k])), i + Latency =< Len(Sampled(SimTraces[k]))
  PROVE  <<Sampled(SimTraces[k])[i], Sampled(SimTraces[k])[i + Latency]>> \in RealWindows[mode]
<1> DEFINE r == SimTraces[k]
<1>1. r \in Seq(States) \ {<<>>} /\ r \in Runs[Len(r)] /\ Latency \in Nat
  BY SettingTypes
<1>2. Len(r) \in Nat \ {0}
  BY <1>1
<1>3. PICK j \in 1..Len(Seen(r)) : Sampled(r)[i] = Seen(r)[j]
  BY <1>1, SamplesAreSeen
<1>4. CASE Latency = 0
  <2>1. Sampled(r)[i] \in Reachable
    BY <1>1, <1>2, <1>3, SeenIsReachable
  <2>2. i + Latency = i
    BY <1>4
  <2> QED
    BY <1>4, <2>1, <2>2, ReachableIsReal
<1>5. CASE ~Clocked
  <2>1. Seen(r) = r /\ Len(Sampled(r)) = Len(r) /\ Sampled(r) \in Seq(States)
    BY <1>1, <1>5, SamplesAreSeen
  <2>2. \A l \in 1..Len(r) : Sampled(r)[l] = r[l]
    BY <1>1, <1>5, <2>1, SamplesAreSeen
  <2>3. i \in 1..Len(r) /\ i + Latency \in 1..Len(r)
    BY <1>1, <1>2, <2>1
  <2> QED
    BY <1>1, <1>2, <2>1, <2>2, <2>3, RunsHaveRealWindows
<1> QED
  BY <1>1, <1>4, <1>5

-----------------------------------------------------------------------------
(* Every step preserves the invariant.                                      *)

\* A block starts with nothing learned.
LEMMA InitInv == Init => IInv
<1> SUFFICES ASSUME Init PROVE IInv
  OBVIOUS
<1>1. mode \in DOMAIN Settings /\ NSignals \in Nat /\ Latency \in Nat
  BY SettingTypes DEF Init
<1>2. Len(positive) = 0 /\ 1..(0 - Latency) = {}
  BY <1>1 DEF Init
<1>3. DemandsAreReal
  BY <1>2 DEF DemandsAreReal
<1> QED
  BY <1>1, <1>2, <1>3 DEF Init, IInv, Shape, PassesBounded, Reading, Learned

\* A step that leaves the examples and the passes alone.
LEMMA ExamplesKept ==
  ASSUME IInv, UNCHANGED <<mode, read, positive, starts, simulated, misfilled, passes>>,
         pc' \in {"setup", "read"} => pc \in {"setup", "read"}
  PROVE  Shape' /\ PassesBounded' /\ Reading' /\ DemandsAreReal'
BY DEF IInv, Shape, PassesBounded, Reading, DemandsAreReal, IsReal, CrossesSeam,
       NSignals, RefinementDepth, Latency, Assumes, Clocked

\* When a sequence is added to the examples at a seam, what was demanded stays as
\* it was, and the rest is judged by the windows of the sequence.
LEMMA DemandsGrow ==
  ASSUME IInv, UNCHANGED mode, NEW r \in Seq(States),
         positive' = positive \o r, starts' = starts \cup {Len(positive) + 1},
         simulated =< simulated', misfilled \subseteq misfilled',
         \A i \in 1..Len(r) :
           i + Latency =< Len(r) =>
             \/ <<r[i], r[i + Latency]>> \in RealWindows[mode]
             \/ Len(positive) + i =< simulated' /\ (Assumes \/ (Clocked /\ Latency > 0))
             \/ {Len(positive) + i, Len(positive) + i + Latency} \cap misfilled' # {},
         simulated' \in Nat
  PROVE  DemandsAreReal'
<1> DEFINE n == Len(positive)
<1>1. /\ positive \in Seq(States) /\ Latency \in Nat /\ n \in Nat /\ Len(r) \in Nat
      /\ Len(positive') = n + Len(r) /\ simulated \in Nat
  BY SettingTypes DEF IInv, Shape
<1>2. Latency' = Latency /\ Assumes' = Assumes /\ Clocked' = Clocked
  BY DEF Latency, Assumes, Clocked
<1> SUFFICES ASSUME NEW i \in 1..(n + Len(r) - Latency)
             PROVE  \/ <<positive'[i], positive'[i + Latency]>> \in RealWindows[mode]
                    \/ i =< simulated' /\ (Assumes \/ (Clocked /\ Latency > 0))
                    \/ \E j \in starts' : i < j /\ j =< i + Latency
                    \/ {i, i + Latency} \cap misfilled' # {}
  BY <1>1, <1>2 DEF DemandsAreReal, IsReal, CrossesSeam
<1>3. CASE i + Latency =< n
  <2>1. i \in 1..(n - Latency) /\ positive'[i] = positive[i]
        /\ positive'[i + Latency] = positive[i + Latency]
    BY <1>1, <1>3
  <2>2. \/ <<positive[i], positive[i + Latency]>> \in RealWindows[mode]
        \/ i =< simulated /\ (Assumes \/ (Clocked /\ Latency > 0))
        \/ \E j \in starts : i < j /\ j =< i + Latency
        \/ {i, i + Latency} \cap misfilled # {}
    BY <2>1 DEF IInv, DemandsAreReal, IsReal, CrossesSeam
  <2>3. i =< simulated => i =< simulated'
    BY <1>1
  <2> QED
    BY <2>1, <2>2, <2>3
<1>4. CASE i =< n /\ i + Latency > n
  <2>1. n + 1 \in starts' /\ i < n + 1 /\ n + 1 =< i + Latency
    BY <1>1, <1>4
  <2> QED
    BY <2>1
<1>5. CASE i > n
  <2> DEFINE k == i - n
  <2>1. k \in 1..Len(r) /\ k + Latency =< Len(r) /\ n + k = i
        /\ n + k + Latency = i + Latency
    BY <1>1, <1>5
  <2>2. positive'[i] = r[k] /\ positive'[i + Latency] = r[k + Latency]
    <3>1. i + Latency \in 1..(n + Len(r)) /\ i + Latency > n /\ i + Latency - n = k + Latency
      BY <1>1, <1>5
    <3> QED
      BY <1>1, <1>5, <3>1
  <2> QED
    BY <2>1, <2>2
<1>6. i + Latency =< n \/ (i =< n /\ i + Latency > n) \/ i > n
  BY <1>1
<1> QED
  BY <1>3, <1>4, <1>5, <1>6

\* Reading a trace adds windows of the design, or of the simulation.
LEMMA ReadTraceStep ==
  ASSUME IInv, ReadTrace
  PROVE  Shape' /\ PassesBounded' /\ Reading' /\ DemandsAreReal'
<1> DEFINE r == SimTraces[read + 1]
<1>1. /\ mode \in DOMAIN Settings /\ read \in Nat /\ positive \in Seq(States)
      /\ Latency \in Nat /\ simulated = Len(positive)
  BY SettingTypes DEF IInv, Shape, Reading, ReadTrace
<1>2. read + 1 \in DOMAIN SimTraces /\ r \in Seq(States) /\ read' \in Nat
  BY <1>1, SettingTypes DEF ReadTrace
<1>3. Sampled(r) \in Seq(States)
  BY <1>2, SamplesAreSeen
<1>4. /\ positive' = positive \o Sampled(r) /\ positive' \in Seq(States)
      /\ Len(positive') = Len(positive) + Len(Sampled(r)) /\ Len(Sampled(r)) \in Nat
  BY <1>1, <1>3 DEF ReadTrace
<1>5. UNCHANGED <<mode, pc, misfilled, passes>> /\ simulated' = Len(positive')
      /\ starts' = starts \cup {Len(positive) + 1}
  BY DEF ReadTrace, checkVars
<1>8. simulated' \in Nat /\ simulated =< simulated'
  BY <1>1, <1>4, <1>5
<1>6. Shape' /\ PassesBounded' /\ Reading'
  BY <1>1, <1>2, <1>4, <1>5, <1>8
     DEF IInv, Shape, PassesBounded, Reading, NSignals, RefinementDepth
<1>7. ASSUME NEW i \in 1..Len(Sampled(r)), i + Latency =< Len(Sampled(r))
      PROVE  \/ <<Sampled(r)[i], Sampled(r)[i + Latency]>> \in RealWindows[mode]
             \/ Len(positive) + i =< simulated' /\ (Assumes \/ (Clocked /\ Latency > 0))
  <2>1. Len(positive) + i =< simulated'
    BY <1>1, <1>4, <1>5
  <2>2. CASE Assumes \/ (Clocked /\ Latency > 0)
    BY <2>1, <2>2
  <2>3. CASE ~(Assumes \/ (Clocked /\ Latency > 0))
    BY <1>1, <1>2, <1>7, <2>3, SampledIsReal
  <2> QED
    BY <2>2, <2>3
<1>9. DemandsAreReal'
  <2> HIDE DEF r
  <2> QED
    BY <1>3, <1>4, <1>5, <1>7, <1>8, DemandsGrow
<1> QED
  BY <1>6, <1>9

\* A counterexample is learned: what its repair adds.
LEMMA LearnStep ==
  ASSUME IInv, Refine, pc' = "solve"
  PROVE  /\ Shape' /\ PassesBounded' /\ Reading' /\ DemandsAreReal'
         /\ \E r \in Repaired(trace) : positive' = positive \o r
<1>1. /\ mode \in DOMAIN Settings /\ positive \in Seq(States) /\ Latency \in Nat
      /\ passes \in Nat /\ NSignals \in Nat /\ RefinementDepth \in Int
      /\ read \in Nat /\ simulated \in Nat
  BY SettingTypes DEF IInv, Shape
<1>2. /\ pc = "loop" /\ trace # <<>> /\ ~OutOfPasses /\ passes' = passes + 1
      /\ starts' = starts \cup {Len(positive) + 1}
      /\ misfilled' = misfilled \cup {Len(positive) + i : i \in Blurred(trace)}
      /\ UNCHANGED <<mode, read, simulated>>
  BY DEF Refine, Goto
<1>3. PICK r \in Repaired(trace) : positive' = positive \o r
  BY DEF Refine, Goto
<1>4. trace \in Counterexamples(candidate)
  BY <1>2 DEF IInv, Learned
<1>5. PICK n \in Nat \ {0} : trace \in [1..n -> Cubes]
  BY <1>1, <1>4, PrintedTrace
<1>6. r \in Seq(States) /\ Len(r) = n /\ Len(trace) = n
  BY <1>5, FilledIn
<1>7. positive' \in Seq(States)
  BY <1>1, <1>3, <1>6
<1>8. passes' =< NSignals + 1 /\ passes' =< RefinementDepth
  BY <1>1, <1>2 DEF OutOfPasses
<1>9. Shape' /\ PassesBounded' /\ Reading'
  BY <1>1, <1>2, <1>7, <1>8 DEF Shape, PassesBounded, Reading, NSignals, RefinementDepth
<1>10. ASSUME NEW i \in 1..Len(r), i + Latency =< Len(r)
       PROVE  \/ <<r[i], r[i + Latency]>> \in RealWindows[mode]
              \/ {Len(positive) + i, Len(positive) + i + Latency} \cap misfilled' # {}
  <2>1. CASE {i, i + Latency} \cap Blurred(trace) = {}
    BY <1>1, <1>4, <1>6, <1>10, <2>1, RepairedIsReal
  <2>2. CASE i \in Blurred(trace)
    BY <1>2, <2>2
  <2>3. CASE i + Latency \in Blurred(trace)
    <3>1. Len(positive) + (i + Latency) = Len(positive) + i + Latency
      BY <1>1
    <3> QED
      BY <1>2, <2>3, <3>1
  <2> QED
    BY <2>1, <2>2, <2>3
<1>11. DemandsAreReal'
  <2>1. simulated' \in Nat /\ simulated =< simulated' /\ misfilled \subseteq misfilled'
    BY <1>1, <1>2
  <2>2. r \in Seq(States) /\ UNCHANGED mode /\ starts' = starts \cup {Len(positive) + 1}
    BY <1>2, <1>6
  <2> QED
    BY <1>3, <1>10, <2>1, <2>2, DemandsGrow
<1> QED
  BY <1>3, <1>9, <1>11

\* Every step keeps the examples to what the design does, and the passes in bounds.
LEMMA ExamplesStep ==
  ASSUME IInv, [Next]_vars
  PROVE  Shape' /\ PassesBounded' /\ Reading' /\ DemandsAreReal'
<1> USE DEF Goto, exampleVars, drawVars, checkVars, exitVars
<1>1. CASE ReadTrace
  BY <1>1, ReadTraceStep
<1>2. CASE Refine
  <2>1. CASE pc' = "solve"
    BY <1>2, <2>1, LearnStep
  <2>2. CASE pc' # "solve"
    BY <1>2, <2>2, ExamplesKept DEF Refine
  <2> QED
    BY <2>1, <2>2
<1>3. CASE Setup \/ SetupFails \/ AllRead \/ Draw \/ Vet
  BY <1>3, ExamplesKept DEF Setup, SetupFails, AllRead, Draw, Vet
<1>4. CASE Solve \/ Check \/ Exit
  BY <1>4, ExamplesKept DEF Solve, Check, Exit
<1>5. CASE Publish
  BY <1>5, ExamplesKept DEF Publish, PublishOrder
<1>6. CASE Abort \/ Done \/ UNCHANGED vars
  BY <1>6, ExamplesKept DEF Abort, Done, vars
<1> QED
  BY <1>1, <1>2, <1>3, <1>4, <1>5, <1>6 DEF Next, Advance

\* What a step leaves of the learning: the same examples, and no new refutation.
LEMMA NothingLearned ==
  ASSUME IInv, UNCHANGED <<mode, positive, refuted>>, pc # "ended", pc # "loop",
         pc' \in {"setup", "read"} => pc \in {"setup", "read"},
         pc' = "check" => (Required \subseteq candidate)',
         pc' # "loop"
  PROVE  Learned'
<1>1. Required' = Required
  BY DEF Required, Windows, Latency
<1> QED
  BY <1>1 DEF IInv, Learned

\* A counterexample makes the examples demand what the refuted candidate forbids.
LEMMA LearnedStep ==
  ASSUME IInv, [Next]_vars
  PROVE  Learned'
<1> USE DEF Goto, exampleVars, drawVars, checkVars, exitVars
<1>0. mode \in DOMAIN Settings /\ positive \in Seq(States) /\ Latency \in Nat
  BY SettingTypes DEF IInv, Shape
<1>1. CASE Setup \/ ReadTrace \/ AllRead
  <2>1. /\ refuted = {} /\ refuted' = {}
        /\ pc' \in {"read", "negatives"}
    BY <1>1 DEF Setup, ReadTrace, AllRead, IInv, Learned
  <2> QED
    BY <2>1 DEF Learned
<1>2. CASE Draw \/ Vet
  <2>1. /\ UNCHANGED <<mode, positive, refuted>>
        /\ pc \in {"negatives", "vet"} /\ pc' \in {"negatives", "vet", "solve"}
    BY <1>2 DEF Draw, Vet
  <2> QED
    BY <2>1, NothingLearned
<1>3. CASE Solve
  <2>1. UNCHANGED <<mode, positive, refuted>> /\ pc = "solve" /\ pc' \in {"check", "ended"}
    BY <1>3 DEF Solve
  <2>2. pc' = "check" => candidate' \in Solutions
    BY <1>3 DEF Solve
  <2>3. pc' = "check" => (Required \subseteq candidate)'
    BY <2>1, <2>2 DEF Solutions, Required, Windows, Latency
  <2> QED
    BY <2>1, <2>3, NothingLearned
<1>4. CASE Check
  <2>1. pc = "check" /\ UNCHANGED <<mode, positive, candidate>> /\ pc' \in {"publish", "loop"}
    BY <1>4 DEF Check
  <2>2. Required' = Required /\ Latency' = Latency
    BY <2>1 DEF Required, Windows, Latency
  <2>3. \A f \in refuted : ~(Required \subseteq f)
    BY <2>1 DEF IInv, Learned
  <2>4. \/ /\ trace' \in Counterexamples(candidate) /\ pc' = "loop"
           /\ \/ refuted' = refuted
              \/ /\ refuted' = refuted \cup {candidate}
                 /\ {Len(trace') - Latency, Len(trace')} \cap Blurred(trace') = {}
        \/ refuted' = refuted /\ (pc' = "loop" => trace' = <<>>)
    BY <1>4 DEF Check
  <2>5. CASE refuted' = refuted /\ (pc' = "loop" => trace' = <<>>)
    BY <2>1, <2>2, <2>3, <2>5 DEF Learned
  <2>6. CASE /\ trace' \in Counterexamples(candidate) /\ pc' = "loop"
             /\ \/ refuted' = refuted
                \/ /\ refuted' = refuted \cup {candidate}
                   /\ {Len(trace') - Latency, Len(trace')} \cap Blurred(trace') = {}
    <3>1. Counterexamples(candidate)' = Counterexamples(candidate)
      BY <2>1, <2>2 DEF Counterexamples, Completions, LastWindow
    <3>2. trace' # <<>>
      <4>1. PICK n \in Nat \ {0} : trace' \in [1..n -> Cubes]
        BY <1>0, <2>6, PrintedTrace
      <4> QED
        BY <4>1
    <3>3. Blurred(trace)' = Blurred(trace')
      BY DEF Blurred
    <3> QED
      BY <2>1, <2>2, <2>3, <2>6, <3>1, <3>2, <3>3 DEF Learned
  <2> QED
    BY <2>4, <2>5, <2>6
<1>5. CASE Refine
  <2>1. pc = "loop" /\ pc' \in {"solve", "ended"} /\ UNCHANGED <<mode, candidate, refuted>>
    BY <1>5 DEF Refine
  <2>2. CASE pc' = "ended"
    BY <2>2 DEF Learned
  <2>3. CASE pc' = "solve"
    <3>1. PICK r \in Repaired(trace) : positive' = positive \o r
      BY <1>5, <2>3, LearnStep
    <3>2. trace \in Counterexamples(candidate)
      BY <1>5, <2>3 DEF Refine, IInv, Learned
    <3>3. PICK n \in Nat \ {0} : n > Latency /\ trace \in [1..n -> Cubes]
      BY <1>0, <3>2, PrintedTrace
    <3>4. r \in Seq(States) /\ Len(r) = n /\ trace # <<>>
      BY <3>3, FilledIn
    <3>5. Required \subseteq Windows(positive') /\ LastWindow(r, Latency) \in Windows(positive')
      BY <1>0, <3>1, <3>3, <3>4, MoreExamples, LastWindowDemanded DEF Required
    <3>6. Required' = Windows(positive')
      BY <2>1 DEF Required, Windows, Latency
    <3>7. ASSUME {Len(trace) - Latency, Len(trace)} \cap Blurred(trace) = {}
          PROVE  LastWindow(r, Latency) \notin candidate
      BY <1>0, <3>2, <3>7, LastWindowForbidden
    <3>8. \A f \in refuted' : ~(Required \subseteq f)'
      BY <2>1, <3>5, <3>6, <3>7 DEF IInv, Learned
    <3> QED
      BY <2>3, <3>8 DEF Learned
  <2> QED
    BY <2>1, <2>2, <2>3
<1>6. CASE Publish
  <2>1. /\ UNCHANGED <<mode, positive, refuted>>
        /\ pc \in {"publish", "wroteResult", "appendedSl"}
        /\ pc' \in {"wroteResult", "appendedSl", "appendedCmp"}
    BY <1>6 DEF Publish, PublishOrder
  <2> QED
    BY <2>1, NothingLearned
<1>7. CASE SetupFails \/ Abort \/ Exit
  BY <1>7 DEF SetupFails, Abort, Exit, Learned
<1>8. CASE Done \/ UNCHANGED vars
  <2>1. UNCHANGED <<mode, pc, positive, candidate, trace, refuted>>
    BY <1>8 DEF Done, vars
  <2>2. /\ Required' = Required /\ Counterexamples(candidate)' = Counterexamples(candidate)
        /\ Latency' = Latency /\ Blurred(trace)' = Blurred(trace)
    BY <2>1 DEF Required, Windows, Latency, Counterexamples, Completions, LastWindow, Blurred
  <2> QED
    BY <2>1, <2>2 DEF IInv, Learned
<1> QED
  BY <1>1, <1>2, <1>3, <1>4, <1>5, <1>6, <1>7, <1>8 DEF Next, Advance

\* The inductive invariant holds in every behaviour.
THEOREM Inductive == Safety => []IInv
<1>1. IInv /\ [Next]_vars => IInv'
  BY ExamplesStep, LearnedStep DEF IInv
<1> QED
  BY <1>1, InitInv, PTL DEF Safety

\* The refinement loop learns from every counterexample, however its undefined
\* values are filled in: no refuted candidate is checked again.
THEOREM LoopLearns == Safety => []NoCandidateTwice
<1>1. IInv => NoCandidateTwice
  BY DEF IInv, Learned, NoCandidateTwice
<1> QED
  BY <1>1, Inductive, PTL

\* Whatever the traces, the counterexamples and their repairs, the examples demand
\* nothing the design does not do, but for the stated exceptions.
THEOREM ExamplesAreReal == Safety => []DemandsAreReal
<1>1. IInv => DemandsAreReal
  BY DEF IInv
<1> QED
  BY <1>1, Inductive, PTL

\* The number of signals and refinement_depth bound the passes.
THEOREM LoopBounded == Safety => []PassesBounded
<1>1. IInv => PassesBounded
  BY DEF IInv
<1> QED
  BY <1>1, Inductive, PTL

-----------------------------------------------------------------------------
(* The contract with the pool.                                              *)

\* A block that has not begun to publish shows the pool nothing.
LEMMA ShowsNothing ==
  ASSUME pc \notin {"wroteResult", "appendedSl", "appendedCmp", "ended"},
         pc' \notin {"wroteResult", "appendedSl", "appendedCmp", "ended"},
         UNCHANGED code
  PROVE  UNCHANGED Contract!vars
BY DEF Contract!vars, Progress

\* Every step of the block is one of its contract, or shows the pool nothing.
THEOREM ContractHolds == Safety => ContractKept
<1>1. Init => Contract!Init
  BY DEF Init, Contract!Init, Progress
<1>2. [Next]_vars => [Contract!Next]_(Contract!vars)
  <2> SUFFICES ASSUME [Next]_vars PROVE Contract!Next \/ UNCHANGED Contract!vars
    OBVIOUS
  <2> USE DEF Goto, exitVars, checkVars, drawVars, exampleVars
  <2>1. CASE Setup \/ ReadTrace \/ AllRead \/ Draw \/ Vet
    BY <2>1, ShowsNothing DEF Setup, ReadTrace, AllRead, Draw, Vet
  <2>2. CASE Check
    BY <2>2, ShowsNothing DEF Check
  <2>3. CASE SetupFails
    BY <2>3 DEF SetupFails, Progress, Contract!Next, Contract!EndWithout
  <2>4. CASE Solve
    <3>1. CASE pc' = "check"
      BY <2>4, <3>1, ShowsNothing DEF Solve
    <3>2. CASE pc' # "check"
      BY <2>4, <3>2 DEF Solve, Progress, Contract!Next, Contract!EndWithout
    <3> QED
      BY <3>1, <3>2
  <2>5. CASE Refine
    <3>1. CASE pc' = "solve"
      BY <2>5, <3>1, ShowsNothing DEF Refine
    <3>2. CASE pc' # "solve"
      BY <2>5, <3>2 DEF Refine, Progress, Contract!Next, Contract!EndWithout
    <3> QED
      BY <3>1, <3>2
  <2>6. CASE Publish
    <3>1. /\ UNCHANGED code
          /\ \/ pc = "publish" /\ pc' = "wroteResult"
             \/ pc = "wroteResult" /\ pc' = "appendedSl"
             \/ pc = "appendedSl" /\ pc' = "appendedCmp"
      BY <2>6 DEF Publish, PublishOrder
    <3> QED
      BY <3>1 DEF Progress, Contract!Next, Contract!Publish
  <2>7. CASE Exit
    BY <2>7 DEF Exit, Progress, Contract!Next, Contract!EndVerified
  <2>8. CASE Abort
    BY <2>8 DEF Abort, Progress, Contract!Next, Contract!Crash
  <2>9. CASE Done \/ UNCHANGED vars
    BY <2>9 DEF Done, vars, Contract!vars, Progress
  <2> QED
    BY <2>1, <2>2, <2>3, <2>4, <2>5, <2>6, <2>7, <2>8, <2>9 DEF Next, Advance
<1> QED
  BY <1>1, <1>2, PTL DEF Safety, ContractKept, Contract!Safety
=============================================================================
