-------------------------- MODULE SimulationProofs ---------------------------
(***************************************************************************)
(* Proofs about simulation: the search for stimulus (Fuzz), for every      *)
(* design, budget and choice of random draws; and what a block makes of    *)
(* the waveforms (Traces), for any of them.                                *)
(***************************************************************************)
EXTENDS Fuzz, Traces, NumberFacts, SequenceTheorems

-----------------------------------------------------------------------------
(* The layout of a stimulus.                                               *)

\* One value of the function OfKind is defined by.
Among(f, kind, n) ==
    IF n = 0 THEN <<>>
    ELSE IF Signals[n].kind = kind THEN Append(f[n - 1], n) ELSE f[n - 1]

\* What OfKind defines is there, by induction on the number of signals.
LEMMA AmongExists ==
  ASSUME NEW kind, NEW n \in Nat
  PROVE  \E f : f = [i \in 0 .. n |-> Among(f, kind, i)]
<1> DEFINE T == {k \in Nat : \E f : f = [i \in 0 .. k |-> Among(f, kind, i)]}
<1>1. 0 \in T
  <2> DEFINE f == [i \in 0 .. 0 |-> <<>>]
  <2>1. f = [i \in 0 .. 0 |-> Among(f, kind, i)]
    BY DEF Among
  <2> QED  BY <2>1
<1>2. ASSUME NEW k \in Nat, k \in T  PROVE k + 1 \in T
  <2>1. PICK f : f = [i \in 0 .. k |-> Among(f, kind, i)]
    BY <1>2
  <2> DEFINE g == [i \in 0 .. k + 1 |-> IF i = k + 1 THEN Among(f, kind, i) ELSE f[i]]
  <2>2. ASSUME NEW i \in 0 .. k + 1  PROVE g[i] = Among(g, kind, i)
    <3>1. CASE i = 0
      BY <2>1, <3>1 DEF Among
    <3>2. CASE i # 0
      <4>1. g[i - 1] = f[i - 1] /\ i - 1 \in 0 .. k
        BY <3>2
      <4>2. g[i] = Among(f, kind, i)
        BY <2>1, <3>2
      <4> QED  BY <3>2, <4>1, <4>2 DEF Among
    <3> QED  BY <3>1, <3>2
  <2>3. g = [i \in 0 .. k + 1 |-> g[i]]
    OBVIOUS
  <2> HIDE DEF g
  <2>4. g = [i \in 0 .. k + 1 |-> Among(g, kind, i)]
    BY <2>2, <2>3
  <2> QED  BY <2>4
<1> HIDE DEF T
<1>3. n \in T
  BY <1>1, <1>2, EveryNat
<1> QED  BY <1>3 DEF T

\* The signals of a kind, in their order, are a sequence.
LEMMA KindsAreSequences ==
  ASSUME NEW kind  PROVE OfKind(kind) \in Seq(Nat)
<1>0. Len(Signals) \in Nat
  BY DesignAndFlags
<1>1. PICK g : g = [i \in 0 .. Len(Signals) |-> Among(g, kind, i)]
  BY <1>0, AmongExists
<1> DEFINE f == CHOOSE h : h = [i \in 0 .. Len(Signals) |-> Among(h, kind, i)]
<1>2. f = [i \in 0 .. Len(Signals) |-> Among(f, kind, i)]
  BY <1>1
<1>3. OfKind(kind) = f[Len(Signals)]
  BY DEF OfKind, Among
<1> HIDE DEF f
<1> DEFINE T == {k \in Nat : k <= Len(Signals) => f[k] \in Seq(Nat)}
<1>4. 0 \in T
  BY <1>0, <1>2 DEF Among
<1>5. ASSUME NEW k \in Nat, k \in T  PROVE k + 1 \in T
  <2> SUFFICES ASSUME k + 1 <= Len(Signals)  PROVE f[k + 1] \in Seq(Nat)
    OBVIOUS
  <2>1. f[k + 1] = Among(f, kind, k + 1) /\ f[k] \in Seq(Nat)
    <3>1. k \in 0 .. Len(Signals) /\ k + 1 \in 0 .. Len(Signals)
      BY <1>0
    <3>2. f[k + 1] = Among(f, kind, k + 1)
      BY <1>2, <3>1
    <3> QED  BY <1>5, <3>1, <3>2
  <2>2. f[k + 1] = Append(f[k], k + 1) \/ f[k + 1] = f[k]
    BY <2>1 DEF Among
  <2>3. Append(f[k], k + 1) \in Seq(Nat)
    BY <2>1, AppendProperties
  <2> QED  BY <2>1, <2>2, <2>3
<1> HIDE DEF T
<1>6. Len(Signals) \in T
  BY <1>0, <1>4, <1>5, EveryNat
<1> QED  BY <1>3, <1>6 DEF T

\* So are the two parts of a stimulus.
LEMMA LayoutIsSequences ==
  PerCycle \in Seq(Nat) /\ Constant \in Seq(Nat) /\ Size \in Nat
<1>1. PerCycle \in Seq(Nat)
  BY KindsAreSequences, ConcatProperties DEF PerCycle
<1>2. Constant \in Seq(Nat)
  BY KindsAreSequences, ConcatProperties DEF Constant
<1>3. Len(PerCycle) \in Nat /\ Len(Constant) \in Nat
  BY <1>1, <1>2
<1>4. Cycles * Len(PerCycle) \in Nat
  BY <1>3, DesignAndFlags
<1> QED  BY <1>1, <1>2, <1>3, <1>4 DEF Size

\* The remainder of what was put together from quotient and remainder.
LEMMA RemainderIs ==
  ASSUME NEW q \in Nat, NEW m \in Nat \ {0}, NEW r \in 0 .. m - 1
  PROVE  (q * m + r) % m = r
OBVIOUS

\* A sequence so many times over, position by position.
Times(seq, n) == [k \in 1 .. n * Len(seq) |-> seq[1 + ((k - 1) % Len(seq))]]

\* One time more is one sequence more at the end.
LEMMA OnceMore ==
  ASSUME NEW seq \in Seq(Nat), NEW n \in Nat
  PROVE  Times(seq, n + 1) = Times(seq, n) \o seq
<1> DEFINE m == Len(seq)
           s == Times(seq, n)
           t == Times(seq, n + 1)
<1>0. m \in Nat /\ n * m \in Nat /\ (n + 1) * m = n * m + m
  OBVIOUS
<1>1. \A k \in Nat : k * m \in Nat
  OBVIOUS
<1>2. ASSUME NEW k \in Nat \ {0}, m # 0  PROVE 1 + ((k - 1) % m) \in 1 .. m
  BY <1>0, <1>2
<1>3. s \in Seq(Nat) /\ Len(s) = n * m
  BY <1>0, <1>2 DEF Times
<1>4. t \in Seq(Nat) /\ Len(t) = n * m + m
  BY <1>0, <1>2 DEF Times
<1>5. ASSUME NEW k \in 1 .. n * m + m  PROVE t[k] = (s \o seq)[k]
  <2>0. t[k] = seq[1 + ((k - 1) % m)]
    BY <1>0 DEF Times
  <2>1. CASE k <= n * m
    BY <1>0, <1>3, <2>0, <2>1, ConcatProperties DEF Times
  <2>2. CASE k > n * m
    <3>1. PICK r \in 0 .. m - 1 : k - 1 = n * m + r
      <4> DEFINE r == k - 1 - n * m
      <4>1. k \in Int /\ n * m \in Int /\ k <= n * m + m
        BY <1>0
      <4>2. r \in 0 .. m - 1 /\ k - 1 = n * m + r
        BY <1>0, <2>2, <4>1
      <4> QED  BY <4>2
    <3>2. (k - 1) % m = r
      BY <1>0, <3>1, RemainderIs
    <3>3. (s \o seq)[k] = seq[k - n * m]
      <4>1. k \in 1 .. Len(s) + Len(seq) /\ ~ (k <= Len(s))
        BY <1>0, <1>3, <2>2
      <4>2. \A i \in 1 .. Len(s) + Len(seq) :
               (s \o seq)[i] = IF i <= Len(s) THEN s[i] ELSE seq[i - Len(s)]
        BY <1>3, ConcatProperties
      <4> QED  BY <1>3, <4>1, <4>2
    <3>4. k - n * m = 1 + r
      BY <1>0, <3>1
    <3> QED  BY <2>0, <3>2, <3>3, <3>4
  <2>3. k <= n * m \/ k > n * m
    <3>1. k \in Int /\ n * m \in Int
      BY <1>0
    <3> QED  BY <3>1
  <2> QED  BY <2>1, <2>2, <2>3
<1>6. s \o seq \in Seq(Nat) /\ Len(s \o seq) = n * m + m
  BY <1>0, <1>3, ConcatProperties
<1> HIDE DEF s, t
<1>7. t = s \o seq
  BY <1>0, <1>4, <1>5, <1>6, SeqEqual
<1> QED  BY <1>7 DEF s, t

\* What FlattenSeq makes of one sequence so many times over.
LEMMA FlattenIs ==
  ASSUME NEW seq \in Seq(Nat), NEW n \in Nat
  PROVE  FlattenSeq([c \in 1 .. n |-> seq]) = Times(seq, n)
<1> DEFINE seqs == [c \in 1 .. n |-> seq]
<1>0. Len(seqs) = n
  OBVIOUS
<1>1. CASE n = 0
  <2>1. FlattenSeq(seqs) = <<>>
    BY <1>0, <1>1 DEF FlattenSeq
  <2>2. Times(seq, n) = <<>>
    BY <1>1 DEF Times
  <2> QED  BY <2>1, <2>2
<1>2. CASE n # 0
  <2> DEFINE Is(f) == f = [i \in 1 .. n |-> IF i = 1 THEN seqs[i] ELSE f[i - 1] \o seqs[i]]
             g == [i \in 1 .. n |-> Times(seq, i)]
  <2>1. Times(seq, 0) = <<>>
    BY DEF Times
  <2>2. Times(seq, 1) = seq
    <3>1. Times(seq, 0 + 1) = Times(seq, 0) \o seq
      BY OnceMore
    <3>2. <<>> \o seq = seq
      BY ConcatEmptySeq
    <3> QED  BY <2>1, <3>1, <3>2
  <2>3. ASSUME NEW i \in 1 .. n, i # 1  PROVE Times(seq, i) = g[i - 1] \o seqs[i]
    <3>1. i - 1 \in Nat /\ i - 1 \in 1 .. n /\ i = (i - 1) + 1
      BY <2>3
    <3>2. Times(seq, (i - 1) + 1) = Times(seq, i - 1) \o seq
      BY <3>1, OnceMore
    <3> QED  BY <3>1, <3>2
  <2>4. Is(g)
    BY <2>2, <2>3
  <2>5. \E f : Is(f) /\ FlattenSeq(seqs) = f[n]
    <3> HIDE DEF seqs, g
    <3> QED  BY <1>0, <1>2, <2>4 DEF FlattenSeq
  <2>6. PICK f : Is(f) /\ FlattenSeq(seqs) = f[n]
    BY <2>5
  <2> DEFINE T == {k \in Nat : k + 1 <= n => f[k + 1] = Times(seq, k + 1)}
  <2>7. 0 \in T
    BY <1>2, <2>2, <2>6
  <2>8. ASSUME NEW k \in Nat, k \in T  PROVE k + 1 \in T
    <3> SUFFICES ASSUME (k + 1) + 1 <= n  PROVE f[(k + 1) + 1] = Times(seq, (k + 1) + 1)
      OBVIOUS
    <3>1. f[k + 1] = Times(seq, k + 1)
      BY <2>8
    <3>2. f[(k + 1) + 1] = f[k + 1] \o seq
      <4> DEFINE j == (k + 1) + 1
      <4>1. j \in 1 .. n /\ j # 1 /\ j - 1 = k + 1
        OBVIOUS
      <4> HIDE DEF j
      <4>2. f[j] = f[j - 1] \o seqs[j]
        BY <2>6, <4>1
      <4>3. seqs[j] = seq
        BY <4>1
      <4> QED  BY <4>1, <4>2, <4>3 DEF j
    <3>3. Times(seq, (k + 1) + 1) = Times(seq, k + 1) \o seq
      <4> DEFINE j == k + 1
      <4>1. j \in Nat
        OBVIOUS
      <4> HIDE DEF j
      <4>2. Times(seq, j + 1) = Times(seq, j) \o seq
        BY <4>1, OnceMore
      <4> QED  BY <4>2 DEF j
    <3> QED  BY <3>1, <3>2, <3>3
  <2> HIDE DEF T
  <2>9. n - 1 \in T
    BY <1>2, <2>7, <2>8, EveryNat
  <2>10. f[(n - 1) + 1] = Times(seq, (n - 1) + 1)
    BY <1>2, <2>9 DEF T
  <2>11. (n - 1) + 1 = n
    OBVIOUS
  <2> QED  BY <2>6, <2>10, <2>11
<1> QED  BY <1>1, <1>2

\* The harness reads what the search meant.
LEMMA ReadAsMeant ==
  Reads = [at \in 1 .. Size |-> MeantFor(at)]
<1> DEFINE m == Len(PerCycle)
           k0 == Len(Constant)
           flat == Times(PerCycle, Cycles)
<1>0. /\ PerCycle \in Seq(Nat) /\ Constant \in Seq(Nat) /\ Cycles \in Nat
      /\ m \in Nat /\ k0 \in Nat /\ Cycles * m \in Nat /\ Size = k0 + Cycles * m
  BY LayoutIsSequences, DesignAndFlags DEF Size
<1>1. Reads = Constant \o flat
  BY <1>0, FlattenIs DEF Reads, Constant, PerCycle
<1>2. flat \in Seq(Nat) /\ Len(flat) = Cycles * m
  <2>1. ASSUME NEW k \in 1 .. Cycles * m  PROVE PerCycle[1 + ((k - 1) % m)] \in Nat
    <3>1. m # 0
      BY <1>0, <2>1
    <3>2. 1 + ((k - 1) % m) \in 1 .. m
      BY <1>0, <3>1
    <3> QED  BY <1>0, <3>2
  <2> QED  BY <1>0, <2>1 DEF Times
<1>3. Reads = [at \in 1 .. Size |-> Reads[at]]
  <2>1. Reads \in Seq(Nat) /\ Len(Reads) = Size
    BY <1>0, <1>1, <1>2, ConcatProperties
  <2> QED  BY <2>1
<1>4. ASSUME NEW at \in 1 .. Size  PROVE Reads[at] = MeantFor(at)
  <2>1. CASE at <= k0
    BY <1>0, <1>1, <1>2, <2>1, ConcatProperties DEF MeantFor
  <2>2. CASE at > k0
    <3>1. Reads[at] = flat[at - k0] /\ at - k0 \in 1 .. Cycles * m
      BY <1>0, <1>1, <1>2, <2>2, ConcatProperties
    <3>2. flat[at - k0] = PerCycle[1 + ((at - k0 - 1) % m)]
      BY <3>1 DEF Times
    <3> QED  BY <1>0, <2>2, <3>1, <3>2 DEF MeantFor
  <2> QED  BY <1>0, <2>1, <2>2
<1> QED  BY <1>3, <1>4

\* Every stimulus that is run is read as it was meant (Fuzz.cpp:drivenWidths
\* against the reads of renderVerilatorHarness).
THEOREM StimulusSound == FuzzSpec => []StimulusAligned
<1>1. StimulusAligned
  BY ReadAsMeant DEF StimulusAligned
<1>2. StimulusAligned'
  BY ReadAsMeant DEF StimulusAligned
<1> QED  BY <1>1, <1>2, PTL DEF FuzzSpec

-----------------------------------------------------------------------------
(* The search and the choice.                                              *)

\* The candidates fit the design: every value has the width of its signal.
Visited == UNION {Visits[s] : s \in Stimuli}
Candidates == [stimulus : Stimuli, states : SUBSET Visited]
CorpusFits ==
    /\ corpus \in Seq(Candidates)
    /\ \A i \in DOMAIN corpus : corpus[i] = Entry(corpus[i].stimulus)

\* What the first n of the chosen visit.
CoveredBy(n) == StatesIn([m \in 1 .. n |-> corpus[chosen[m]]])

\* Each was chosen as one that adds most to those before it.
AddsMost(n) ==
    \A j \in DOMAIN corpus :
        Cardinality(corpus[j].states \ CoveredBy(n - 1))
            <= Cardinality(corpus[chosen[n]].states \ CoveredBy(n - 1))
Greedy ==
    /\ phase \in {"seed", "search"} => chosen = <<>>
    /\ chosen \in Seq(DOMAIN corpus)
    /\ covered = CoveredBy(Len(chosen))
    /\ \A n \in DOMAIN chosen : AddsMost(n)

FuzzInv == CorpusFits /\ NothingSeenIsLost /\ IsFiniteSet(everything) /\ Greedy

\* A position and its signal, for the n-th of those that change in a cycle.
LEMMA PositionMeant ==
  ASSUME NEW c \in 1 .. Cycles, NEW n \in DOMAIN PerCycle
  PROVE  Position(c, n) \in 1 .. Size /\ MeantFor(Position(c, n)) = PerCycle[n]
<1> DEFINE m == Len(PerCycle)
           k == Len(Constant)
<1>0. m \in Nat \ {0} /\ k \in Nat /\ Cycles \in Nat /\ n \in 1 .. m /\ c - 1 \in Nat
  BY LayoutIsSequences, DesignAndFlags
<1>1. (c - 1) * m \in Nat /\ (c - 1) * m + m <= Cycles * m
  <2>1. (Cycles - c) * m \in Nat
    BY <1>0
  <2>2. Cycles * m = (c - 1) * m + m + (Cycles - c) * m
    BY <1>0
  <2>3. (c - 1) * m \in Nat /\ Cycles * m \in Nat
    BY <1>0
  <2> QED  BY <1>0, <2>1, <2>2, <2>3
<1>2. Position(c, n) = k + ((c - 1) * m + n)
  BY <1>0, <1>1 DEF Position
<1>3. Position(c, n) \in 1 .. Size /\ Position(c, n) > k
  <2>1. Size = k + Cycles * m /\ Cycles * m \in Nat
    BY <1>0 DEF Size
  <2> QED  BY <1>0, <1>1, <1>2, <2>1
<1>4. Position(c, n) - k - 1 = (c - 1) * m + (n - 1)
  BY <1>0, <1>1, <1>2
<1>5. ((c - 1) * m + (n - 1)) % m = n - 1
  <2>1. m \in Nat \ {0} /\ c - 1 \in Nat /\ n - 1 \in 0 .. m - 1
    BY <1>0
  <2> HIDE DEF m
  <2> QED  BY <2>1, RemainderIs
<1>6. MeantFor(Position(c, n)) = PerCycle[1 + (n - 1)]
  BY <1>0, <1>3, <1>4, <1>5 DEF MeantFor
<1> QED  BY <1>0, <1>3, <1>6

\* holdSpan keeps to the widths: the cycles of a span have one signal.
LEMMA HeldFits ==
  ASSUME NEW s \in Stimuli  PROVE Held(s) \subseteq Stimuli
<1> SUFFICES ASSUME Cycles >= 2, NEW n \in DOMAIN PerCycle, NEW first \in 1 .. Cycles,
                    NEW last \in first .. Cycles, NEW v \in Draws(Position(first, n)),
                    NEW t, t = [at \in DOMAIN s |->
                                  IF \E c \in first .. last : at = Position(c, n) THEN v ELSE s[at]]
             PROVE  t \in Stimuli
  BY DesignAndFlags DEF Held
<1>1. \A at \in 1 .. Size : s[at] \in Draws(at)
  BY DEF Stimuli
<1>2. DOMAIN s = 1 .. Size
  BY DEF Stimuli
<1>3. ASSUME NEW at \in 1 .. Size  PROVE t[at] \in Draws(at)
  <2>1. CASE \E c \in first .. last : at = Position(c, n)
    <3>1. PICK c \in first .. last : at = Position(c, n)
      BY <2>1
    <3>2. c \in 1 .. Cycles
      BY DesignAndFlags
    <3>3. MeantFor(at) = MeantFor(Position(first, n))
      BY <3>1, <3>2, PositionMeant
    <3>4. Draws(at) = Draws(Position(first, n))
      BY <3>3 DEF Draws, Width
    <3> QED  BY <1>2, <2>1, <3>4
  <2>2. CASE ~ \E c \in first .. last : at = Position(c, n)
    BY <1>1, <1>2, <2>2
  <2> QED  BY <2>1, <2>2
<1> QED  BY <1>2, <1>3 DEF Stimuli

\* splice keeps to the widths: both parents have one layout.
LEMMA SplicedFits ==
  ASSUME NEW s \in Stimuli, NEW t \in Stimuli  PROVE Spliced(s, t) \subseteq Stimuli
<1> DEFINE V == UNION {Draws(at) : at \in 1 .. Size}
<1> SUFFICES ASSUME NEW cut \in 0 .. Size - 1,
                    NEW r, r = SubSeq(s, 1, cut) \o SubSeq(t, cut + 1, Size)
             PROVE  r \in Stimuli
  BY DEF Spliced
<1>0. Size \in Nat /\ cut \in Nat /\ cut <= Size
  BY LayoutIsSequences
<1>1. \A at \in 1 .. Size : s[at] \in Draws(at) /\ t[at] \in Draws(at)
  BY DEF Stimuli
<1>2. \A at \in 1 .. Size : s[at] \in V /\ t[at] \in V
  BY <1>1
<1> DEFINE a == SubSeq(s, 1, cut)
           b == SubSeq(t, cut + 1, Size)
<1> HIDE DEF V
<1>3. /\ a \in Seq(V) /\ Len(a) = cut
      /\ \A i \in 1 .. cut : a[i] = s[i]
  <2>1. \A i \in 1 .. cut : s[i] \in V
    BY <1>0, <1>2
  <2>2. /\ a \in Seq(V)
        /\ Len(a) = IF 1 <= cut THEN cut - 1 + 1 ELSE 0
        /\ \A i \in 1 .. cut - 1 + 1 : a[i] = s[1 + i - 1]
    BY <1>0, <2>1, SubSeqProperties
  <2> QED  BY <1>0, <2>2
<1>4. /\ b \in Seq(V) /\ Len(b) = Size - cut
      /\ \A i \in 1 .. Size - cut : b[i] = t[cut + i]
  <2>1. \A i \in cut + 1 .. Size : t[i] \in V
    BY <1>0, <1>2
  <2>2. /\ b \in Seq(V)
        /\ Len(b) = IF cut + 1 <= Size THEN Size - (cut + 1) + 1 ELSE 0
        /\ \A i \in 1 .. Size - (cut + 1) + 1 : b[i] = t[cut + 1 + i - 1]
    BY <1>0, <2>1, SubSeqProperties
  <2> QED  BY <1>0, <2>2
<1> HIDE DEF a, b
<1>5. /\ r \in Seq(V) /\ Len(r) = Size
      /\ \A i \in 1 .. Size : r[i] = IF i <= cut THEN a[i] ELSE b[i - cut]
  <2>1. r = a \o b
    BY DEF a, b
  <2>2. /\ r \in Seq(V) /\ Len(r) = Len(a) + Len(b)
        /\ \A i \in 1 .. Len(a) + Len(b) : r[i] = IF i <= Len(a) THEN a[i] ELSE b[i - Len(a)]
    <3>1. /\ a \o b \in Seq(V) /\ Len(a \o b) = Len(a) + Len(b)
          /\ \A i \in 1 .. Len(a) + Len(b) :
                (a \o b)[i] = IF i <= Len(a) THEN a[i] ELSE b[i - Len(a)]
      BY <1>3, <1>4, ConcatProperties
    <3> QED  BY <2>1, <3>1
  <2>3. Len(a) + Len(b) = Size
    BY <1>0, <1>3, <1>4
  <2> QED  BY <1>3, <2>2, <2>3
<1>6. ASSUME NEW i \in 1 .. Size  PROVE r[i] = s[i] \/ r[i] = t[i]
  <2>1. CASE i <= cut
    BY <1>0, <1>3, <1>5, <2>1
  <2>2. CASE i > cut
    <3>1. i - cut \in 1 .. Size - cut /\ cut + (i - cut) = i
      BY <1>0, <2>2
    <3>2. r[i] = b[i - cut]
      BY <1>0, <1>5, <2>2
    <3> QED  BY <1>4, <3>1, <3>2
  <2> QED  BY <1>0, <2>1, <2>2
<1>7. \A i \in 1 .. Size : r[i] \in Draws(i)
  BY <1>1, <1>6
<1>8. r \in [1 .. Size -> V]
  BY <1>5, LenProperties
<1> QED  BY <1>7, <1>8 DEF Stimuli, V

\* What the search derives from candidates that fit, fits.
LEMMA OffspringFits ==
  ASSUME CorpusFits  PROVE Offspring \subseteq Stimuli
<1>1. {corpus[i].stimulus : i \in DOMAIN corpus} \subseteq Stimuli
  <2>1. ASSUME NEW i \in DOMAIN corpus  PROVE corpus[i] \in Candidates
    BY ElementOfSeq, LenProperties DEF CorpusFits
  <2> QED  BY <2>1 DEF Candidates
<1>2. \A s \in Stimuli : Randomised(s) \subseteq Stimuli
  BY DEF Randomised
<1> DEFINE parents == {corpus[i].stimulus : i \in DOMAIN corpus}
<1>3. \A s \in parents : Held(s) \subseteq Stimuli /\ Randomised(s) \subseteq Stimuli
  BY <1>1, <1>2, HeldFits
<1>4. \A s, t \in parents : Spliced(s, t) \subseteq Stimuli
  BY <1>1, SplicedFits
<1> HIDE DEF parents
<1>5. ASSUME NEW x \in Offspring  PROVE x \in Stimuli
  <2>1. \/ \E s \in parents : x \in Held(s) \union Randomised(s)
        \/ \E s \in parents : \E t \in parents : x \in Spliced(s, t)
    BY DEF Offspring, parents
  <2> QED  BY <1>3, <1>4, <2>1
<1> QED  BY <1>5

-----------------------------------------------------------------------------
\* One more candidate.

\* The entry of a stimulus.
LEMMA EntryFits ==
  ASSUME NEW s \in Stimuli
  PROVE  /\ Entry(s) \in Candidates /\ Entry(s).stimulus = s
         /\ Entry(s).states = StatesOf(s) /\ IsFiniteSet(StatesOf(s))
BY DrawsAndVisits, FS_EmptySet DEF Entry, StatesOf, Candidates, Visited

\* The states of one candidate more.
LEMMA StatesOfOneMore ==
  ASSUME NEW c \in Seq(Candidates), NEW e \in Candidates
  PROVE  StatesIn(Append(c, e)) = StatesIn(c) \union e.states
<1> DEFINE d == Append(c, e)
<1>1. /\ Len(d) = Len(c) + 1 /\ d \in Seq(Candidates) /\ d[Len(c) + 1] = e
      /\ \A i \in 1 .. Len(c) : d[i] = c[i]
  BY AppendProperties
<1>2. DOMAIN d = 1 .. Len(c) + 1 /\ DOMAIN c = 1 .. Len(c) /\ Len(c) \in Nat
  BY <1>1
<1> HIDE DEF d
<1>3. StatesIn(d) \subseteq StatesIn(c) \union e.states
  BY <1>1, <1>2 DEF StatesIn
<1>4. StatesIn(c) \subseteq StatesIn(d)
  BY <1>1, <1>2 DEF StatesIn
<1>5. e.states \subseteq StatesIn(d)
  BY <1>1, <1>2 DEF StatesIn
<1> QED  BY <1>3, <1>4, <1>5 DEF d

\* A candidate is kept with what it visits, or visits nothing new.
LEMMA OneMore ==
  ASSUME CorpusFits, NothingSeenIsLost, IsFiniteSet(everything), NEW s \in Stimuli,
         everything' = everything \union StatesOf(s),
         \/ corpus' = Append(corpus, Entry(s))
         \/ corpus' = corpus /\ StatesOf(s) \subseteq everything
  PROVE  (CorpusFits /\ NothingSeenIsLost /\ IsFiniteSet(everything))'
<1>1. IsFiniteSet(everything')
  BY EntryFits, FS_Union
<1>2. CASE corpus' = corpus /\ StatesOf(s) \subseteq everything
  BY <1>1, <1>2 DEF CorpusFits, NothingSeenIsLost, StatesIn, Entry, StatesOf
<1>3. CASE corpus' = Append(corpus, Entry(s))
  <2>1. /\ corpus' \in Seq(Candidates) /\ Len(corpus') = Len(corpus) + 1
        /\ corpus'[Len(corpus) + 1] = Entry(s)
        /\ \A i \in 1 .. Len(corpus) : corpus'[i] = corpus[i]
    BY <1>3, EntryFits, AppendProperties DEF CorpusFits
  <2>2. DOMAIN corpus' = 1 .. Len(corpus) + 1 /\ DOMAIN corpus = 1 .. Len(corpus)
        /\ Len(corpus) \in Nat
    BY <2>1 DEF CorpusFits
  <2>3. ASSUME NEW i \in DOMAIN corpus'  PROVE corpus'[i] = Entry(corpus'[i].stimulus)
    BY <2>1, <2>2, EntryFits DEF CorpusFits
  <2>4. CorpusFits'
    BY <2>1, <2>3 DEF CorpusFits, Entry, StatesOf
  <2>5. StatesIn(corpus') = everything \union StatesOf(s)
    BY <1>3, EntryFits, StatesOfOneMore DEF CorpusFits, NothingSeenIsLost
  <2> QED  BY <1>1, <2>4, <2>5 DEF NothingSeenIsLost
<1> QED  BY <1>2, <1>3

-----------------------------------------------------------------------------
(* The greedy choice.                                                      *)

\* A kept candidate visits finitely many states, all of them seen.
LEMMA CorpusIsFinite ==
  ASSUME CorpusFits, NothingSeenIsLost, IsFiniteSet(everything), NEW i \in DOMAIN corpus
  PROVE  /\ i \in Nat /\ corpus[i] \in Candidates
         /\ corpus[i].states \subseteq everything /\ IsFiniteSet(corpus[i].states)
<1>1. i \in Nat /\ corpus[i] \in Candidates
  BY ElementOfSeq, LenProperties DEF CorpusFits
<1>2. corpus[i].states \subseteq everything
  BY DEF NothingSeenIsLost, StatesIn
<1> QED  BY <1>1, <1>2, FS_Subset

\* There is a candidate that adds most.
LEMMA BestAddsMost ==
  ASSUME CorpusFits, NothingSeenIsLost, IsFiniteSet(everything), Unused # {}
  PROVE  Best \in Unused /\ \A j \in Unused : Gain(j) <= Gain(Best)
<1> DEFINE gains == {Gain(j) : j \in Unused}
           mostly == {i \in Unused : \A j \in Unused : Gain(j) <= Gain(i)}
<1>1. ASSUME NEW j \in Unused
      PROVE  j \in Nat /\ Gain(j) \in Nat /\ Gain(j) <= Cardinality(everything)
  <2>1. j \in DOMAIN corpus
    BY DEF Unused
  <2>2. j \in Nat /\ corpus[j].states \ covered \in SUBSET everything
    BY <2>1, CorpusIsFinite
  <2> QED  BY <2>2, FS_Subset, FS_CardinalityType DEF Gain
<1>2. PICK most \in gains : \A g \in gains : g <= most
  <2>1. gains \subseteq Nat /\ gains # {} /\ \A g \in gains : g <= Cardinality(everything)
    BY <1>1
  <2>2. Cardinality(everything) \in Nat
    BY FS_CardinalityType
  <2> HIDE DEF gains
  <2> QED  BY <2>1, <2>2, GreatestNat
<1>3. mostly # {} /\ mostly \subseteq Nat
  BY <1>1, <1>2
<1>4. PICK n \in mostly : \A i \in mostly : n =< i
  BY <1>3, LeastNat
<1>5. Best \in mostly
  <2>1. Best = CHOOSE n1 \in mostly : \A i \in mostly : n1 =< i
    BY DEF Best, Min
  <2> HIDE DEF mostly
  <2> QED  BY <1>4, <2>1
<1> QED  BY <1>5

\* What the first ones cover does not change when one is chosen after them.
LEMMA CoveredStays ==
  ASSUME NEW n \in Nat, corpus' = corpus, \A m \in 1 .. n : chosen'[m] = chosen[m]
  PROVE  CoveredBy(n)' = CoveredBy(n)
BY DEF CoveredBy, StatesIn

\* What one more covers.
LEMMA CoveredNext ==
  ASSUME NEW n \in Nat \ {0}
  PROVE  CoveredBy(n) = CoveredBy(n - 1) \union corpus[chosen[n]].states
<1>1. \A m : m \in 1 .. n <=> m \in 1 .. n - 1 \/ m = n
  OBVIOUS
<1> QED  BY <1>1 DEF CoveredBy, StatesIn

\* None cover nothing.
LEMMA NothingCovered == CoveredBy(0) = {}
BY DEF CoveredBy, StatesIn

\* Before the search there is nothing.
LEMMA FuzzInvInit == FuzzInit => FuzzInv
<1> SUFFICES ASSUME FuzzInit  PROVE FuzzInv
  OBVIOUS
<1>1. corpus = <<>> /\ everything = {} /\ chosen = <<>> /\ covered = {}
  BY DEF FuzzInit
<1>2. CorpusFits /\ NothingSeenIsLost
  BY <1>1 DEF CorpusFits, NothingSeenIsLost, StatesIn
<1>3. Greedy
  BY <1>1, NothingCovered DEF Greedy
<1> QED  BY <1>1, <1>2, <1>3, FS_EmptySet DEF FuzzInv

\* While candidates are gathered none is chosen.
LEMMA GreedyBefore ==
  ASSUME Greedy, phase \in {"seed", "search"}, chosen' = chosen, covered' = covered
  PROVE  Greedy'
<1>1. chosen = <<>> /\ covered = {} /\ Len(chosen') = 0
  BY NothingCovered DEF Greedy
<1>2. CoveredBy(0)' = {}
  BY DEF CoveredBy, StatesIn
<1>3. CoveredBy(Len(chosen))' = {}
  BY <1>1, <1>2
<1>4. chosen' \in Seq((DOMAIN corpus)') /\ DOMAIN chosen' = {}
  BY <1>1
<1> QED  BY <1>1, <1>3, <1>4 DEF Greedy

\* One more pick.
LEMMA GreedyPick ==
  ASSUME FuzzInv, Pick  PROVE Greedy'
<1>k. PICK k : k = Len(chosen) + 1
  OBVIOUS
<1>0. /\ CorpusFits /\ NothingSeenIsLost /\ IsFiniteSet(everything) /\ Greedy
      /\ Unused # {} /\ phase = "cover" /\ phase' = phase /\ corpus' = corpus
      /\ covered' = covered \union corpus[Best].states /\ chosen' = Append(chosen, Best)
  BY DEF FuzzInv, Pick
<1>1. Best \in Unused /\ Best \in DOMAIN corpus /\ \A j \in Unused : Gain(j) <= Gain(Best)
  BY <1>0, BestAddsMost DEF Unused
<1>2. chosen \in Seq(DOMAIN corpus) /\ Len(chosen) \in Nat /\ DOMAIN chosen = 1 .. Len(chosen)
  BY <1>0 DEF Greedy
<1>3. /\ chosen' \in Seq(DOMAIN corpus) /\ Len(chosen') = k /\ chosen'[k] = Best
      /\ \A m \in 1 .. Len(chosen) : chosen'[m] = chosen[m]
  BY <1>k, <1>0, <1>1, <1>2, AppendProperties
<1>4. \A n \in 0 .. Len(chosen) : CoveredBy(n)' = CoveredBy(n)
  <2> TAKE n \in 0 .. Len(chosen)
  <2>1. n \in Nat /\ \A m \in 1 .. n : m \in 1 .. Len(chosen)
    BY <1>k, <1>2
  <2> QED  BY <1>k, <1>0, <1>3, <2>1, CoveredStays
<1>5. covered = CoveredBy(Len(chosen))
  BY <1>0 DEF Greedy
<1>6. covered' = CoveredBy(k)'
  <2>1. CoveredBy(k)' = CoveredBy(k - 1)' \union corpus'[chosen'[k]].states
    <3>1. \A m : m \in 1 .. k <=> m \in 1 .. k - 1 \/ m = k
      BY <1>k, <1>2
    <3> QED  BY <3>1 DEF CoveredBy, StatesIn
  <2>2. k - 1 = Len(chosen) /\ Len(chosen) \in 0 .. Len(chosen)
    BY <1>k, <1>2
  <2>3. CoveredBy(k - 1)' = covered
    BY <1>4, <1>5, <2>2
  <2>4. corpus'[chosen'[k]].states = corpus[Best].states
    BY <1>k, <1>0, <1>3
  <2> QED  BY <1>0, <2>1, <2>3, <2>4
<1>7. ASSUME NEW n \in 1 .. k  PROVE AddsMost(n)'
  <2>1. CASE n <= Len(chosen)
    <3>1. n - 1 \in 0 .. Len(chosen) /\ n \in 1 .. Len(chosen) /\ n \in DOMAIN chosen
      BY <1>k, <1>2, <2>1
    <3>2. AddsMost(n)
      BY <1>0, <3>1 DEF Greedy
    <3>3. CoveredBy(n - 1)' = CoveredBy(n - 1) /\ chosen'[n] = chosen[n]
      BY <1>k, <1>3, <1>4, <3>1
    <3> QED  BY <1>0, <3>2, <3>3 DEF AddsMost
  <2>2. CASE n = k
    <3>1. CoveredBy(n - 1)' = covered
      <4>1. n - 1 = Len(chosen) /\ Len(chosen) \in 0 .. Len(chosen)
        BY <1>k, <1>2, <2>2
      <4> QED  BY <1>4, <1>5, <4>1
    <3>2. ASSUME NEW j \in DOMAIN corpus
          PROVE  Cardinality(corpus[j].states \ covered) <= Cardinality(corpus[Best].states \ covered)
      <4>1. CASE j \in Unused
        BY <1>1, <4>1 DEF Gain
      <4>2. CASE j \notin Unused
        <5>1. PICK m \in DOMAIN chosen : j = chosen[m]
          BY <4>2 DEF Unused
        <5>2. corpus[j].states \subseteq covered
          BY <1>k, <1>2, <1>5, <5>1 DEF CoveredBy, StatesIn
        <5>3. Cardinality(corpus[j].states \ covered) = 0
          BY <5>2, FS_EmptySet
        <5>4. IsFiniteSet(corpus[Best].states \ covered)
          BY <1>0, <1>1, CorpusIsFinite, FS_Subset
        <5>5. Cardinality(corpus[Best].states \ covered) \in Nat
          BY <5>4, FS_CardinalityType
        <5> QED  BY <5>3, <5>5
      <4> QED  BY <4>1, <4>2
    <3> QED  BY <1>k, <1>0, <1>3, <2>2, <3>1, <3>2 DEF AddsMost
  <2> QED  BY <1>k, <1>2, <2>1, <2>2
<1> QED
  <2>1. DOMAIN chosen' = 1 .. k
    BY <1>k, <1>3
  <2>2. ~ (phase' \in {"seed", "search"})
    BY <1>0
  <2>3. chosen' \in Seq((DOMAIN corpus)')
    BY <1>k, <1>0, <1>3
  <2>4. covered' = CoveredBy(Len(chosen))'
    BY <1>k, <1>3, <1>6
  <2>5. \A n \in DOMAIN chosen' : AddsMost(n)'
    BY <1>7, <2>1
  <2> QED  BY <2>2, <2>3, <2>4, <2>5 DEF Greedy

\* The invariant is inductive.
LEMMA FuzzInvNext == FuzzInv /\ [FuzzNext]_fuzzVars => FuzzInv'
<1> SUFFICES ASSUME FuzzInv, [FuzzNext]_fuzzVars  PROVE FuzzInv'
  OBVIOUS
<1>0. CorpusFits /\ NothingSeenIsLost /\ IsFiniteSet(everything) /\ Greedy
  BY DEF FuzzInv
<1>1. CASE Seed
  <2>1. PICK s \in Drawn : /\ corpus' = Append(corpus, Entry(s))
                          /\ everything' = everything \union StatesOf(s)
    BY <1>1 DEF Seed
  <2>2. s \in Stimuli
    BY DrawsAndVisits
  <2>3. (CorpusFits /\ NothingSeenIsLost /\ IsFiniteSet(everything))'
    BY <1>0, <2>1, <2>2, OneMore
  <2>4. Greedy'
    BY <1>0, <1>1, GreedyBefore DEF Seed
  <2> QED  BY <2>3, <2>4 DEF FuzzInv
<1>2. CASE Try
  <2>1. PICK s \in Offspring : /\ corpus' = IF StatesOf(s) \subseteq everything THEN corpus
                                            ELSE Append(corpus, Entry(s))
                              /\ everything' = SeenWith(StatesOf(s))
    BY <1>2 DEF Try
  <2>2. s \in Stimuli
    BY <1>0, OffspringFits
  <2>3. (CorpusFits /\ NothingSeenIsLost /\ IsFiniteSet(everything))'
    BY <1>0, <2>1, <2>2, OneMore DEF SeenWith
  <2>4. Greedy'
    BY <1>0, <1>2, GreedyBefore DEF Try
  <2> QED  BY <2>3, <2>4 DEF FuzzInv
<1>3. CASE Pick
  <2>1. UNCHANGED <<corpus, everything>>
    BY <1>3 DEF Pick
  <2>2. (CorpusFits /\ NothingSeenIsLost /\ IsFiniteSet(everything))'
    BY <1>0, <2>1 DEF CorpusFits, NothingSeenIsLost, StatesIn, Entry, StatesOf
  <2> QED  BY <1>3, <2>2, GreedyPick DEF FuzzInv
<1>4. CASE UNCHANGED <<corpus, everything, chosen, covered>>
  <2>1. (CorpusFits /\ NothingSeenIsLost /\ IsFiniteSet(everything))'
    BY <1>0, <1>4 DEF CorpusFits, NothingSeenIsLost, StatesIn, Entry, StatesOf
  <2>2. phase' \in {"seed", "search"} => phase \in {"seed", "search"}
    BY DEF FuzzNext, fuzzVars, Seed, Seeded, Try, Searched, Pick, Picked, Replay
  <2>3. Greedy'
    BY <1>0, <1>4, <2>2 DEF Greedy, AddsMost, CoveredBy, StatesIn
  <2> QED  BY <2>1, <2>3 DEF FuzzInv
<1> QED
  BY <1>1, <1>2, <1>3, <1>4 DEF FuzzNext, fuzzVars, Seeded, Searched, Picked, Replay

\* The corpus fits the design, visits all that was seen, and each choice adds most.
THEOREM FuzzInvariant == FuzzSpec => []FuzzInv
BY FuzzInvInit, FuzzInvNext, PTL DEF FuzzSpec

\* The corpus still visits every state the search saw (Fuzz.cpp: a candidate that
\* adds nothing is dropped).
THEOREM SearchSound == FuzzSpec => []NothingSeenIsLost
<1>1. FuzzInv => NothingSeenIsLost
  BY DEF FuzzInv
<1> QED  BY <1>1, FuzzInvariant, PTL

-----------------------------------------------------------------------------
(* How good two greedy picks are.                                          *)

\* Sizes of unions.
LEMMA UnionAtMost ==
  ASSUME NEW A, NEW B, IsFiniteSet(A), IsFiniteSet(B)
  PROVE  /\ IsFiniteSet(A \union B) /\ IsFiniteSet(B \ A)
         /\ Cardinality(A) \in Nat /\ Cardinality(B) \in Nat
         /\ Cardinality(A \union B) \in Nat /\ Cardinality(B \ A) \in Nat
         /\ Cardinality(A \union B) <= Cardinality(A) + Cardinality(B)
         /\ Cardinality(A \union B) = Cardinality(A) + Cardinality(B \ A)
<1>1. IsFiniteSet(A \union B) /\ IsFiniteSet(B \ A) /\ IsFiniteSet(A \intersect B)
  BY FS_Union, FS_Subset
<1>2. /\ Cardinality(A) \in Nat /\ Cardinality(B) \in Nat /\ Cardinality(A \union B) \in Nat
      /\ Cardinality(B \ A) \in Nat /\ Cardinality(A \intersect B) \in Nat
  BY <1>1, FS_CardinalityType
<1>3. Cardinality(A \union B) = Cardinality(A) + Cardinality(B) - Cardinality(A \intersect B)
  BY FS_Union
<1>4. Cardinality(A \union (B \ A)) = Cardinality(A) + Cardinality(B \ A) - Cardinality(A \intersect (B \ A))
  BY <1>1, FS_Union
<1>5. A \union (B \ A) = A \union B /\ A \intersect (B \ A) = {}
  OBVIOUS
<1>6. Cardinality(A \union B) = Cardinality(A) + Cardinality(B \ A)
  <2>1. Cardinality(A \union B) = Cardinality(A) + Cardinality(B \ A) - Cardinality({})
    BY <1>4, <1>5
  <2> QED  BY <1>2, <2>1, FS_EmptySet
<1>7. Cardinality(A \union B) <= Cardinality(A) + Cardinality(B)
  BY <1>2, <1>3
<1> QED  BY <1>1, <1>2, <1>6, <1>7

\* With x = |A| and y = |B \ A|, the union of S and T has at most 2x and at most
\* x + 2y elements: once the first and twice the second make 3|U| <= 4(x + y).
LEMMA ThreeQuarters ==
  ASSUME NEW A, NEW B, NEW S, NEW T,
         IsFiniteSet(A), IsFiniteSet(B), IsFiniteSet(S), IsFiniteSet(T),
         Cardinality(S) <= Cardinality(A), Cardinality(T) <= Cardinality(A),
         Cardinality(S \ A) <= Cardinality(B \ A), Cardinality(T \ A) <= Cardinality(B \ A)
  PROVE  4 * Cardinality(A \union B) >= 3 * Cardinality(S \union T)
<1>1. Cardinality(S \union T) <= Cardinality(A) + Cardinality(A)
  <2>1. /\ Cardinality(S \union T) <= Cardinality(S) + Cardinality(T)
        /\ Cardinality(S) \in Nat /\ Cardinality(T) \in Nat /\ Cardinality(S \union T) \in Nat
    BY UnionAtMost
  <2>2. Cardinality(A) \in Nat
    BY FS_CardinalityType
  <2> QED  BY <2>1, <2>2
<1>2. Cardinality(S \union T) <= Cardinality(A) + Cardinality(S \ A) + Cardinality(T \ A)
  <2> DEFINE R == (S \ A) \union (T \ A)
  <2>1. /\ IsFiniteSet(R) /\ Cardinality(R) <= Cardinality(S \ A) + Cardinality(T \ A)
        /\ Cardinality(S \ A) \in Nat /\ Cardinality(T \ A) \in Nat /\ Cardinality(R) \in Nat
    BY UnionAtMost
  <2>2. IsFiniteSet(A \union R) /\ Cardinality(A \union R) <= Cardinality(A) + Cardinality(R)
        /\ Cardinality(A) \in Nat /\ Cardinality(A \union R) \in Nat
    BY <2>1, UnionAtMost
  <2>3. S \union T \in SUBSET (A \union R)
    OBVIOUS
  <2>4. Cardinality(S \union T) <= Cardinality(A \union R) /\ Cardinality(S \union T) \in Nat
    BY <2>2, <2>3, FS_Subset, FS_CardinalityType
  <2> QED  BY <2>1, <2>2, <2>4
<1>3. Cardinality(A \union B) = Cardinality(A) + Cardinality(B \ A)
  BY UnionAtMost
<1>4. /\ Cardinality(A) \in Nat /\ Cardinality(B \ A) \in Nat /\ Cardinality(S \union T) \in Nat
      /\ Cardinality(S \ A) \in Nat /\ Cardinality(T \ A) \in Nat
  BY UnionAtMost
<1> QED  BY <1>1, <1>2, <1>3, <1>4

\* Of any two candidates the two chosen visit three quarters.
LEMMA TwoPicks ==
  ASSUME FuzzInv, Len(chosen) = 2, NEW i \in DOMAIN corpus, NEW j \in DOMAIN corpus
  PROVE  4 * Cardinality(covered)
           >= 3 * Cardinality(corpus[i].states \union corpus[j].states)
<1>0. /\ CorpusFits /\ NothingSeenIsLost /\ IsFiniteSet(everything)
      /\ chosen \in Seq(DOMAIN corpus) /\ covered = CoveredBy(2) /\ DOMAIN chosen = 1 .. 2
      /\ AddsMost(1) /\ AddsMost(2)
  BY DEF FuzzInv, Greedy
<1>1. chosen[1] \in DOMAIN corpus /\ chosen[2] \in DOMAIN corpus
  <2>1. 1 \in 1 .. Len(chosen) /\ 2 \in 1 .. Len(chosen)
    OBVIOUS
  <2> QED  BY <1>0, <2>1, ElementOfSeq
<1> DEFINE A == corpus[chosen[1]].states
           B == corpus[chosen[2]].states
           S == corpus[i].states
           T == corpus[j].states
<1>2. IsFiniteSet(A) /\ IsFiniteSet(B) /\ IsFiniteSet(S) /\ IsFiniteSet(T)
  BY <1>0, <1>1, CorpusIsFinite
<1>3. CoveredBy(0) = {} /\ CoveredBy(1) = A /\ CoveredBy(2) = A \union B
  <2>1. CoveredBy(1) = CoveredBy(0) \union A
    BY CoveredNext
  <2>2. CoveredBy(2) = CoveredBy(1) \union B
    BY CoveredNext
  <2> QED  BY <2>1, <2>2, NothingCovered
<1>4. Cardinality(S) <= Cardinality(A) /\ Cardinality(T) <= Cardinality(A)
  <2>1. \A s : s \ CoveredBy(1 - 1) = s
    BY <1>3
  <2> QED  BY <1>0, <2>1 DEF AddsMost
<1>5. Cardinality(S \ A) <= Cardinality(B \ A) /\ Cardinality(T \ A) <= Cardinality(B \ A)
  <2>1. CoveredBy(2 - 1) = A
    BY <1>3
  <2> QED  BY <1>0, <2>1 DEF AddsMost
<1> HIDE DEF A, B, S, T
<1>6. 4 * Cardinality(A \union B) >= 3 * Cardinality(S \union T)
  BY <1>2, <1>4, <1>5, ThreeQuarters
<1> QED  BY <1>0, <1>3, <1>6 DEF S, T

\* A stimulus that hangs visits nothing, so it adds most only when all is covered.
LEMMA HangingIsLast ==
  ASSUME FuzzInv, NEW n \in DOMAIN chosen, corpus[chosen[n]].stimulus \in Hanging
  PROVE  CoveredBy(n - 1) = everything
<1>0. /\ CorpusFits /\ NothingSeenIsLost /\ IsFiniteSet(everything)
      /\ chosen \in Seq(DOMAIN corpus) /\ AddsMost(n)
  BY DEF FuzzInv, Greedy
<1>1. DOMAIN chosen = 1 .. Len(chosen) /\ \A m \in DOMAIN chosen : chosen[m] \in DOMAIN corpus
  BY <1>0
<1>2. corpus[chosen[n]].states = {}
  BY <1>0, <1>1 DEF CorpusFits, Entry, StatesOf
<1>3. ASSUME NEW j \in DOMAIN corpus  PROVE corpus[j].states \subseteq CoveredBy(n - 1)
  <2>1. Cardinality(corpus[j].states \ CoveredBy(n - 1)) <= 0
    BY <1>0, <1>2, FS_EmptySet DEF AddsMost
  <2>2. IsFiniteSet(corpus[j].states \ CoveredBy(n - 1))
    BY <1>0, CorpusIsFinite, FS_Subset
  <2>3. Cardinality(corpus[j].states \ CoveredBy(n - 1)) = 0
    BY <2>1, <2>2, FS_CardinalityType
  <2> QED  BY <2>2, <2>3, FS_EmptySet
<1>4. everything \subseteq CoveredBy(n - 1)
  BY <1>0, <1>3 DEF NothingSeenIsLost, StatesIn
<1>5. CoveredBy(n - 1) \subseteq everything
  <2>1. \A m \in 1 .. n - 1 : m \in DOMAIN chosen
    BY <1>1
  <2> QED  BY <1>0, <1>1, <2>1 DEF CoveredBy, NothingSeenIsLost, StatesIn
<1> QED  BY <1>4, <1>5

\* The choice of two visits three quarters of what the best two would, whatever
\* the design and the draws; a stimulus that hangs is chosen last (Fuzz.cpp,
\* greedy cover).
THEOREM SelectionSound == FuzzSpec => []SelectionNearBest
<1>1. FuzzInv => SelectionNearBest
  BY TwoPicks, HangingIsLast DEF SelectionNearBest, CoveredBy
<1> QED  BY <1>1, FuzzInvariant, PTL

-----------------------------------------------------------------------------
(* The values of the waveforms, joined trace by trace.                     *)

\* One value of the function FlattenSeq is defined by, and that function.
Flat(f, ss, i) == IF i = 1 THEN ss[i] ELSE f[i - 1] \o ss[i]
Flattens(f, ss, n) == f = [i \in 1 .. n |-> Flat(f, ss, i)]

\* What FlattenSeq is defined by is there, by induction on the number of sequences.
LEMMA FlattensExists ==
  ASSUME NEW ss, NEW n \in Nat
  PROVE  \E f : Flattens(f, ss, n)
<1> DEFINE K == {k \in Nat : \E f : Flattens(f, ss, k)}
<1>1. 0 \in K
  <2> DEFINE f == [i \in 1 .. 0 |-> 0]
  <2>1. f = [i \in 1 .. 0 |-> Flat(f, ss, i)]
    OBVIOUS
  <2> QED  BY <2>1 DEF Flattens
<1>2. ASSUME NEW k \in Nat, k \in K  PROVE k + 1 \in K
  <2>1. PICK f : Flattens(f, ss, k)
    BY <1>2
  <2>f. \A i \in 1 .. k : f[i] = Flat(f, ss, i)
    BY <2>1 DEF Flattens
  <2> DEFINE g == [i \in 1 .. k + 1 |-> IF i = k + 1 THEN Flat(f, ss, i) ELSE f[i]]
  <2>2. ASSUME NEW i \in 1 .. k + 1  PROVE g[i] = Flat(g, ss, i)
    <3>1. g[i] = Flat(f, ss, i)
      BY <2>f
    <3>2. i # 1 => g[i - 1] = f[i - 1]
      OBVIOUS
    <3> QED  BY <3>1, <3>2 DEF Flat
  <2>3. g = [i \in 1 .. k + 1 |-> g[i]]
    OBVIOUS
  <2> HIDE DEF g
  <2>4. g = [i \in 1 .. k + 1 |-> Flat(g, ss, i)]
    BY <2>2, <2>3
  <2> QED  BY <2>4 DEF Flattens
<1> HIDE DEF K
<1>3. n \in K
  BY <1>1, <1>2, EveryNat
<1> QED  BY <1>3 DEF K

\* The function in FlattenSeq is that one.
LEMMA FlattenSeqIs ==
  ASSUME NEW ss, Len(ss) \in Nat, Len(ss) # 0
  PROVE  \E f : Flattens(f, ss, Len(ss)) /\ FlattenSeq(ss) = f[Len(ss)]
<1> DEFINE n == Len(ss)
           f == CHOOSE h : h = [i \in 1 .. n |-> Flat(h, ss, i)]
<1>1. \E g : g = [i \in 1 .. n |-> Flat(g, ss, i)]
  BY FlattensExists DEF Flattens
<1>2. f = [i \in 1 .. n |-> Flat(f, ss, i)]
  BY <1>1
<1>3. FlattenSeq(ss) = f[n]
  BY DEF FlattenSeq, Flat
<1> HIDE DEF f
<1> QED  BY <1>2, <1>3 DEF Flattens

\* One sequence more.
LEMMA FlattenAppend ==
  ASSUME NEW T, NEW ss \in Seq(Seq(T)), NEW s \in Seq(T)
  PROVE  /\ FlattenSeq(ss) \in Seq(T)
         /\ FlattenSeq(Append(ss, s)) = FlattenSeq(ss) \o s
<1> DEFINE n == Len(ss)
           tt == Append(ss, s)
<1>0. /\ n \in Nat /\ Len(tt) = n + 1 /\ tt[n + 1] = s
      /\ \A i \in 1 .. n : tt[i] = ss[i] /\ ss[i] \in Seq(T)
  BY AppendProperties
<1> HIDE DEF tt
<1>1. PICK g : Flattens(g, tt, n + 1) /\ FlattenSeq(tt) = g[n + 1]
  BY <1>0, FlattenSeqIs
<1>g. \A i \in 1 .. n + 1 : g[i] = Flat(g, tt, i)
  BY <1>1 DEF Flattens
<1>2. CASE n = 0
  <2>1. ss = <<>>
    BY <1>2
  <2>2. FlattenSeq(ss) = <<>>
    BY <2>1 DEF FlattenSeq
  <2>3. g[1] = s
    BY <1>0, <1>g, <1>2 DEF Flat
  <2>4. <<>> \o s = s /\ <<>> \in Seq(T)
    BY ConcatEmptySeq
  <2> QED  BY <1>1, <1>2, <2>2, <2>3, <2>4 DEF tt
<1>3. CASE n # 0
  <2>1. PICK f : Flattens(f, ss, n) /\ FlattenSeq(ss) = f[n]
    BY <1>0, <1>3, FlattenSeqIs
  <2>f. \A i \in 1 .. n : f[i] = Flat(f, ss, i)
    BY <2>1 DEF Flattens
  <2> DEFINE K == {k \in Nat : k + 1 <= n => g[k + 1] = f[k + 1] /\ f[k + 1] \in Seq(T)}
  <2>2. 0 \in K
    <3>1. 1 \in 1 .. n /\ 1 \in 1 .. n + 1
      BY <1>0, <1>3
    <3>2. f[1] = ss[1] /\ g[1] = tt[1]
      BY <1>g, <2>f, <3>1 DEF Flat
    <3> QED  BY <1>0, <3>1, <3>2
  <2>3. ASSUME NEW k \in Nat, k \in K  PROVE k + 1 \in K
    <3> SUFFICES ASSUME (k + 1) + 1 <= n
                 PROVE  g[(k + 1) + 1] = f[(k + 1) + 1] /\ f[(k + 1) + 1] \in Seq(T)
      OBVIOUS
    <3>1. PICK j : j = (k + 1) + 1
      OBVIOUS
    <3>2. j \in 1 .. n /\ j \in 1 .. n + 1 /\ j # 1 /\ j - 1 = k + 1
      BY <1>0, <3>1
    <3>3. g[j - 1] = f[j - 1] /\ f[j - 1] \in Seq(T)
      BY <1>0, <2>3, <3>2
    <3>4. f[j] = f[j - 1] \o ss[j] /\ g[j] = g[j - 1] \o tt[j]
      BY <1>g, <2>f, <3>2 DEF Flat
    <3>5. f[j - 1] \o ss[j] \in Seq(T)
      BY <1>0, <3>2, <3>3, ConcatProperties
    <3> QED  BY <1>0, <3>1, <3>2, <3>3, <3>4, <3>5
  <2> HIDE DEF K
  <2>4. n - 1 \in K
    <3>1. Nat \subseteq K
      BY <2>2, <2>3, EveryNat
    <3>2. n - 1 \in Nat
      BY <1>0, <1>3
    <3> QED  BY <3>1, <3>2
  <2>5. g[n] = f[n] /\ f[n] \in Seq(T)
    BY <1>0, <1>3, <2>4 DEF K
  <2>6. g[n + 1] = g[n] \o s
    <3>1. PICK j : j = n + 1
      OBVIOUS
    <3>2. j \in 1 .. n + 1 /\ j # 1 /\ j - 1 = n /\ tt[j] = s
      BY <1>0, <1>3, <3>1
    <3>3. g[j] = g[j - 1] \o tt[j]
      BY <1>g, <3>2 DEF Flat
    <3> QED  BY <3>1, <3>2, <3>3
  <2> QED  BY <1>1, <2>1, <2>5, <2>6 DEF tt
<1> QED  BY <1>2, <1>3

-----------------------------------------------------------------------------
\* The greatest of numbers with a bound.
LEMMA MaxIs ==
  ASSUME NEW S, S \subseteq Nat, S # {}, NEW b \in Nat, \A n \in S : n =< b
  PROVE  Max(S) \in S /\ \A n \in S : n =< Max(S)
<1>1. PICK m \in S : \A n \in S : n =< m
  BY GreatestNat
<1>2. m \in Nat /\ \A n \in S : n \in Nat /\ m >= n
  BY <1>1
<1>3. /\ Max(S) \in S /\ \A n \in S : Max(S) >= n
  BY <1>2 DEF Max
<1> QED  BY <1>3

\* A wire of a waveform, and the order of its changes.
LEMMA WireIs ==
  ASSUME NEW path \in DOMAIN Waves, NEW wire \in Range(Wires(path))
  PROVE  /\ wire \in AnyWire
         /\ \A i \in DOMAIN wire.changes :
            /\ Len(wire.changes[i].bits) \in 1 .. wire.width
            /\ \A j \in i .. Len(wire.changes) : wire.changes[i].time =< wire.changes[j].time
<1>1. Wires(path) \in Seq(AnyWire)
  BY WavesAreDumps DEF Wires
<1>2. PICK i \in DOMAIN Wires(path) : wire = Wires(path)[i]
  BY DEF Range
<1>3. wire \in AnyWire
  BY <1>1, <1>2
<1>4. wire \in Range(Waves[path].wires)
  BY DEF Wires
<1> QED  BY <1>3, <1>4, WavesAreDumps

\* What is written is extended digit by digit.
LEMMA ExtendedIs ==
  ASSUME NEW w \in Nat, NEW bits \in Bits, Len(bits) \in 1 .. w
  PROVE  /\ Extended(bits, w) \in Bits /\ DOMAIN Extended(bits, w) = 1 .. w
         /\ \A k \in 1 .. w : Extended(bits, w)[w + 1 - k] = Digit(bits, k)
<1> DEFINE D == {"0", "1", "x", "z"}
           n == Len(bits)
           pad == IF bits[1] \in {"x", "z"} THEN bits[1] ELSE "0"
           left == [i \in 1 .. w - n |-> pad]
<1>1. n \in Nat /\ n <= w /\ n >= 1 /\ w - n \in Nat /\ bits \in Seq(D)
  BY DEF Bits
<1>2. bits[1] \in D
  BY <1>1
<1>3. left \in Seq(D) /\ Len(left) = w - n
  BY <1>1, <1>2
<1>4. Extended(bits, w) = left \o bits
  BY DEF Extended
<1> HIDE DEF left
<1>5. /\ left \o bits \in Seq(D) /\ Len(left \o bits) = (w - n) + n
      /\ \A i \in 1 .. (w - n) + n :
            (left \o bits)[i] = IF i <= w - n THEN left[i] ELSE bits[i - (w - n)]
  <2>1. /\ left \o bits \in Seq(D) /\ Len(left \o bits) = Len(left) + Len(bits)
        /\ \A i \in 1 .. Len(left) + Len(bits) :
              (left \o bits)[i] = IF i <= Len(left) THEN left[i] ELSE bits[i - Len(left)]
    <3> HIDE DEF D
    <3> QED  BY <1>1, <1>3, ConcatProperties
  <2> QED  BY <1>3, <2>1
<1>6. ASSUME NEW k \in 1 .. w  PROVE (left \o bits)[w + 1 - k] = Digit(bits, k)
  <2>1. w + 1 - k \in 1 .. (w - n) + n /\ k \in Nat
    BY <1>1
  <2>2. CASE k <= n
    <3>1. ~ (w + 1 - k <= w - n) /\ (w + 1 - k) - (w - n) = n + 1 - k
      BY <1>1, <2>2
    <3>2. (left \o bits)[w + 1 - k] = bits[(w + 1 - k) - (w - n)]
      BY <1>5, <2>1, <3>1
    <3> QED  BY <2>2, <3>1, <3>2 DEF Digit
  <2>3. CASE ~ (k <= n)
    <3>1. w + 1 - k <= w - n /\ w + 1 - k \in 1 .. w - n
      BY <1>1, <2>1, <2>3
    <3>2. (left \o bits)[w + 1 - k] = left[w + 1 - k]
      BY <1>5, <2>1, <3>1
    <3>3. left[w + 1 - k] = pad
      BY <3>1 DEF left
    <3> QED  BY <2>3, <3>2, <3>3 DEF Digit
  <2> QED  BY <2>2, <2>3
<1>7. DOMAIN (left \o bits) = 1 .. w
  BY <1>1, <1>5
<1> QED  BY <1>4, <1>5, <1>6, <1>7 DEF Bits

\* A value nothing is known of.
LEMMA UnknownIs ==
  ASSUME NEW w \in Nat
  PROVE  /\ Unknown(w) \in Bits /\ DOMAIN Unknown(w) = 1 .. w
         /\ \A k \in 1 .. w : Unknown(w)[w + 1 - k] = "x"
BY DEF Unknown, Bits

\* The digits of a wire's value at a time.
ShowsDigits(value, wire, width, time) ==
  \A k \in 1 .. width :
     LET digit == value[width + 1 - k] IN
     \/ /\ \A c \in Range(wire.changes) : c.time > time
        /\ digit = "x"
     \/ \E c \in Range(wire.changes) :
          /\ c.time =< time
          /\ \A d \in Range(wire.changes) : d.time =< time => d.time =< c.time
          /\ digit = Digit(c.bits, k)

\* What get_signal_value_at returns is what the latest change shows.
LEMMA ValueAtIs ==
  ASSUME NEW path \in DOMAIN Waves, NEW wire \in Range(Wires(path)), NEW time \in Int
  PROVE  /\ ValueAt(wire, time) \in Bits /\ DOMAIN ValueAt(wire, time) = 1 .. wire.width
         /\ ShowsDigits(ValueAt(wire, time), wire, wire.width, time)
<1> DEFINE w == wire.width  changes == wire.changes
<1>1. /\ w \in Nat /\ changes \in Seq(Change)
      /\ \A i \in DOMAIN changes :
            /\ Len(changes[i].bits) \in 1 .. w
            /\ \A j \in i .. Len(changes) : changes[i].time =< changes[j].time
  BY WireIs DEF AnyWire
<1>2. /\ Len(changes) \in Nat /\ DOMAIN changes = 1 .. Len(changes)
      /\ \A i \in DOMAIN changes : changes[i] \in Change
  BY <1>1
<1>3. \A i \in DOMAIN changes : changes[i].time \in Int /\ changes[i].bits \in Bits
  BY <1>2 DEF Change
<1>4. \A c : c \in Range(changes) <=> \E i \in DOMAIN changes : c = changes[i]
  BY DEF Range
<1>5. Until(wire, time) = {i \in DOMAIN changes : changes[i].time =< time}
  BY DEF Until
<1> HIDE DEF w, changes
<1>6. CASE Until(wire, time) = {}
  <2>1. ValueAt(wire, time) = Unknown(w)
    BY <1>6 DEF ValueAt, w
  <2>2. \A c \in Range(changes) : c.time > time
    BY <1>3, <1>4, <1>5, <1>6
  <2>3. ShowsDigits(Unknown(w), wire, w, time)
    BY <1>1, <2>2, UnknownIs DEF ShowsDigits, changes
  <2> QED  BY <1>1, <2>1, <2>3, UnknownIs DEF w
<1>7. CASE Until(wire, time) # {}
  <2> DEFINE m == Max(Until(wire, time))
  <2>1. Until(wire, time) \subseteq Nat /\ \A n \in Until(wire, time) : n =< Len(changes)
    BY <1>2, <1>5
  <2>2. m \in Until(wire, time) /\ \A n \in Until(wire, time) : n =< m
    BY <1>2, <1>7, <2>1, MaxIs
  <2>3. ValueAt(wire, time) = Extended(changes[m].bits, w)
    BY <1>7 DEF ValueAt, w, changes
  <2> HIDE DEF m
  <2>4. m \in DOMAIN changes /\ changes[m].time =< time
    BY <1>5, <2>2
  <2>5. ASSUME NEW i \in DOMAIN changes, changes[i].time =< time
        PROVE  changes[i].time =< changes[m].time
    <3>1. i =< m
      BY <1>5, <2>2, <2>5
    <3>2. m \in i .. Len(changes)
      BY <1>2, <2>4, <3>1
    <3> QED  BY <1>1, <3>2
  <2>6. /\ Extended(changes[m].bits, w) \in Bits
        /\ DOMAIN Extended(changes[m].bits, w) = 1 .. w
        /\ \A k \in 1 .. w : Extended(changes[m].bits, w)[w + 1 - k] = Digit(changes[m].bits, k)
    BY <1>1, <1>3, <2>4, ExtendedIs
  <2>7. /\ changes[m] \in Range(changes)
        /\ \A d \in Range(changes) : d.time =< time => d.time =< changes[m].time
    BY <1>4, <2>4, <2>5
  <2>8. ShowsDigits(Extended(changes[m].bits, w), wire, w, time)
    BY <2>4, <2>6, <2>7 DEF ShowsDigits, changes
  <2> QED  BY <2>3, <2>6, <2>8 DEF w
<1> QED  BY <1>6, <1>7

-----------------------------------------------------------------------------
\* A signal of the root: a record, and, where the hierarchy is mined, a path that
\* does not go through the root again.
Plain(s) ==
  /\ s = [module |-> Root, width |-> s.width, name |-> s.name]
  /\ s.width \in Nat
  /\ setup.hierarchical => \A i \in 1 .. Len(s.name) - 1 : s.name[i] # Root

\* The path from a scope on.
LEMMA PathFrom ==
  ASSUME NEW wire \in AnyWire, NEW i \in Through(wire.scope)
  PROVE  LET name == Append(SubSeq(wire.scope, i + 1, Len(wire.scope)), wire.ref)
         IN  /\ i \in 1 .. Len(wire.scope) /\ Len(wire.scope) \in Nat
             /\ Len(name) = Len(wire.scope) - i + 1
             /\ \A j \in 1 .. Len(wire.scope) - i : name[j] = wire.scope[i + j]
<1> DEFINE scope == wire.scope  n == Len(scope)
           rest == SubSeq(scope, i + 1, n)
<1>1. scope \in Seq(STRING) /\ wire.ref \in STRING /\ n \in Nat
  BY DEF AnyWire
<1>2. i \in 1 .. n
  BY <1>1 DEF Through
<1>3. /\ rest \in Seq(STRING) /\ Len(rest) = n - i
      /\ \A j \in 1 .. n - i : rest[j] = scope[i + j]
  BY <1>1, <1>2
<1> HIDE DEF scope, rest
<1>4. /\ Len(Append(rest, wire.ref)) = Len(rest) + 1
      /\ \A j \in 1 .. Len(rest) : Append(rest, wire.ref)[j] = rest[j]
  BY <1>1, <1>3, AppendProperties
<1> QED  BY <1>1, <1>2, <1>3, <1>4 DEF scope, rest

\* A wire carries the signal it shows.
LEMMA NamingIs ==
  ASSUME setup \in Setups, NEW wire \in AnyWire, NEW s, Plain(s)
  PROVE  Signal(wire) = s <=> Shows(wire, s)
<1> DEFINE scope == wire.scope  n == Len(scope)
           Named(i) == Append(SubSeq(scope, i + 1, n), wire.ref)
<1>1. /\ scope \in Seq(STRING) /\ wire.ref \in STRING /\ n \in Nat /\ n # 0
      /\ setup.hierarchical \in BOOLEAN
  BY SetupsReadWaves DEF AnyWire
<1>2. Through(scope) \subseteq 1 .. n /\ \A i \in Through(scope) : scope[i] = Root
  BY <1>1 DEF Through
<1>3. Last(scope) = scope[n]
  BY DEF Last
<1>4. CASE ~ setup.hierarchical
  <2>1. Signal(wire) = [module |-> Last(scope), width |-> wire.width, name |-> <<wire.ref>>]
    BY <1>4 DEF Signal
  <2>2. Shows(wire, s) <=> wire.width = s.width /\ Last(scope) = Root /\ s.name = <<wire.ref>>
    BY <1>4 DEF Shows
  <2> HIDE DEF scope
  <2> QED  BY <2>1, <2>2 DEF Plain
<1>5. CASE setup.hierarchical /\ Through(scope) = {}
  <2>1. Signal(wire) = [module |-> Last(scope), width |-> wire.width, name |-> <<wire.ref>>]
    BY <1>5 DEF Signal
  <2>2. ~ Shows(wire, s)
    BY <1>5 DEF Shows
  <2>3. Last(scope) # Root
    <3>1. n \in DOMAIN scope
      BY <1>1
    <3> QED  BY <1>3, <1>5, <3>1 DEF Through
  <2> HIDE DEF scope
  <2> QED  BY <2>1, <2>2, <2>3 DEF Plain
<1>6. CASE setup.hierarchical /\ Through(scope) # {}
  <2> DEFINE m == Max(Through(scope))
  <2>1. m \in Through(scope) /\ \A i \in Through(scope) : i =< m
    BY <1>1, <1>2, <1>6, MaxIs
  <2>2. Signal(wire) = [module |-> Root, width |-> wire.width, name |-> Named(m)]
    BY <1>6 DEF Signal
  <2>3. Shows(wire, s) <=> wire.width = s.width /\ \E i \in Through(scope) : Named(i) = s.name
    BY <1>6 DEF Shows
  <2> HIDE DEF m
  <2>4. ASSUME NEW i \in Through(scope), Named(i) = s.name  PROVE i = m
    <3>1. /\ i \in 1 .. n /\ m \in 1 .. n /\ i =< m
          /\ Len(Named(i)) = n - i + 1
          /\ \A j \in 1 .. n - i : Named(i)[j] = scope[i + j]
      BY <1>1, <1>2, <2>1, PathFrom
    <3>2. SUFFICES ASSUME i # m  PROVE FALSE
      OBVIOUS
    <3>3. m - i \in 1 .. n - i /\ m - i \in 1 .. Len(s.name) - 1 /\ i + (m - i) = m
      BY <1>1, <2>4, <3>1, <3>2
    <3>4. s.name[m - i] = scope[i + (m - i)]
      BY <2>4, <3>1, <3>3
    <3>5. s.name[m - i] = Root
      BY <1>2, <2>1, <3>3, <3>4
    <3> QED  BY <1>6, <3>3, <3>5 DEF Plain
  <2>5. Shows(wire, s) <=> wire.width = s.width /\ Named(m) = s.name
    BY <2>1, <2>3, <2>4
  <2> HIDE DEF scope, Named
  <2> QED  BY <2>2, <2>5 DEF Plain
<1> QED  BY <1>1, <1>4, <1>5, <1>6

\* What a wire of the root carries is such a signal.
LEMMA SignalIsPlain ==
  ASSUME setup \in Setups, NEW wire \in AnyWire, Signal(wire).module = Root
  PROVE  Plain(Signal(wire))
<1> DEFINE scope == wire.scope  n == Len(scope)
           Named(i) == Append(SubSeq(scope, i + 1, n), wire.ref)
<1>1. /\ scope \in Seq(STRING) /\ wire.ref \in STRING /\ n \in Nat /\ wire.width \in Nat
      /\ setup.hierarchical \in BOOLEAN
  BY SetupsReadWaves DEF AnyWire
<1>2. Through(scope) \subseteq 1 .. n
  BY <1>1 DEF Through
<1>3. CASE setup.hierarchical /\ Through(scope) # {}
  <2> DEFINE m == Max(Through(scope))
  <2>1. m \in Through(scope) /\ \A i \in Through(scope) : i =< m
    BY <1>1, <1>2, <1>3, MaxIs
  <2>2. Signal(wire) = [module |-> Root, width |-> wire.width, name |-> Named(m)]
    BY <1>3 DEF Signal
  <2> HIDE DEF m
  <2>3. /\ m \in 1 .. n
        /\ Len(Named(m)) = n - m + 1
        /\ \A j \in 1 .. n - m : Named(m)[j] = scope[m + j]
    BY <2>1, PathFrom
  <2>4. ASSUME NEW j \in 1 .. Len(Named(m)) - 1  PROVE Named(m)[j] # Root
    <3>1. j \in 1 .. n - m /\ m + j \in 1 .. n /\ ~ (m + j =< m)
      BY <1>1, <2>3
    <3>2. m + j \notin Through(scope)
      BY <2>1, <3>1
    <3>3. scope[m + j] # Root
      BY <1>1, <3>1, <3>2 DEF Through
    <3> QED  BY <2>3, <3>1, <3>3
  <2> HIDE DEF scope, Named
  <2> QED  BY <1>1, <2>2, <2>4 DEF Plain
<1>4. CASE ~ (setup.hierarchical /\ Through(scope) # {})
  <2>1. Signal(wire) = [module |-> Last(scope), width |-> wire.width, name |-> <<wire.ref>>]
    BY <1>4 DEF Signal
  <2>2. \A j \in 1 .. Len(<<wire.ref>>) - 1 : FALSE
    OBVIOUS
  <2> HIDE DEF scope
  <2> QED  BY <1>1, <2>1, <2>2 DEF Plain
<1> QED  BY <1>3, <1>4

-----------------------------------------------------------------------------
\* Of a wire there is a value for each time.
LEMMA ColumnIs ==
  ASSUME NEW path \in DOMAIN Waves, NEW wire \in Range(Wires(path))
  PROVE  LET times == Waves[path].times  column == Column(path, wire) IN
         /\ times \in Seq(Int) /\ column \in Seq(Bits) /\ Len(column) = Len(times)
         /\ \A i \in 1 .. Len(times) : times[i] \in Int /\ column[i] = ValueAt(wire, times[i])
<1> DEFINE times == Waves[path].times  n == Len(times)
<1>1. times \in Seq(Int) /\ n \in Nat /\ DOMAIN times = 1 .. n
      /\ \A i \in 1 .. n : times[i] \in Int
  BY WavesAreDumps
<1>2. Skipped(path, wire) = {}
  <2>1. CASE Waves[path].kind = "smt"
    BY <2>1 DEF Skipped
  <2>2. CASE Waves[path].kind # "smt"
    <3>1. ASSUME NEW i \in DOMAIN times  PROVE Until(wire, times[i]) # {}
      <4>1. wire \in Range(Waves[path].wires) /\ times[i] \in Range(times)
        BY DEF Wires, Range
      <4>2. PICK c \in Range(wire.changes) : c.time =< times[i]
        BY <2>2, <4>1, SimulationsBeginWhole
      <4>3. PICK j \in DOMAIN wire.changes : c = wire.changes[j]
        BY DEF Range
      <4> QED  BY <4>2, <4>3 DEF Until
    <3> QED  BY <2>2, <3>1 DEF Skipped
  <2> QED  BY <2>1, <2>2
<1>3. Cardinality(Skipped(path, wire)) = 0
  BY <1>2, FS_EmptySet
<1> HIDE DEF times
<1>4. Column(path, wire) = [i \in 1 .. n - 0 |-> ValueAt(wire, times[0 + i])]
  BY <1>3 DEF Column, times
<1>5. Column(path, wire) = [i \in 1 .. n |-> ValueAt(wire, times[i])]
  <2>1. n - 0 = n /\ \A i \in 1 .. n : 0 + i = i
    BY <1>1
  <2> QED  BY <1>4, <2>1
<1>6. \A i \in 1 .. n : ValueAt(wire, times[i]) \in Bits
  BY <1>1, ValueAtIs
<1> QED  BY <1>1, <1>5, <1>6 DEF times

\* At most one wire of a waveform shows a signal.
Single(path, s) ==
  \A i, j \in DOMAIN Wires(path) : Shows(Wires(path)[i], s) /\ Shows(Wires(path)[j], s) => i = j

\* The values of one trace: one for each time, as wide as the signal.
LEMMA ValuesAre ==
  ASSUME setup \in Setups, NEW path \in DOMAIN Waves, NEW s, Plain(s)
  PROVE  LET times == Waves[path].times  values == Values(path, s) IN
         /\ times \in Seq(Int)
         /\ values \in Seq(Bits) /\ Len(values) = Len(times)
         /\ \A i \in 1 .. Len(times) :
              /\ DOMAIN values[i] = 1 .. s.width
              /\ Single(path, s) => IsValue(values[i], path, s, times[i])
<1> DEFINE times == Waves[path].times  n == Len(times)  wires == Wires(path)
<1>1. /\ wires \in Seq(AnyWire) /\ wires # <<>> /\ Len(wires) \in Nat /\ Len(wires) # 0
      /\ DOMAIN wires = 1 .. Len(wires)
      /\ \A i \in DOMAIN wires : wires[i] \in AnyWire /\ wires[i] \in Range(wires)
  BY WavesAreDumps DEF Wires, Range
<1>2. times \in Seq(Int) /\ n \in Nat /\ \A i \in 1 .. n : times[i] \in Int
  BY WavesAreDumps
<1>3. \A i \in DOMAIN wires : Signal(wires[i]) = s <=> Shows(wires[i], s)
  BY <1>1, NamingIs
<1>4. Carrying(path, s) = {i \in DOMAIN wires : Shows(wires[i], s)}
  BY <1>3 DEF Carrying
<1>5. s.width \in Nat
  BY DEF Plain
<1> HIDE DEF times, wires
<1>6. CASE Carrying(path, s) = {}
  <2> DEFINE last == Last(wires)
  <2>1. last \in Range(wires)
    BY <1>1 DEF Last
  <2>2. Len(Column(path, last)) = n
    BY <2>1, ColumnIs DEF wires, times
  <2>3. Values(path, s) = [i \in 1 .. n |-> Unknown(s.width)]
    BY <1>6, <2>2 DEF Values, MissingValues, wires
  <2>4. Unknown(s.width) \in Bits /\ DOMAIN Unknown(s.width) = 1 .. s.width
    BY <1>5, UnknownIs
  <2>5. \A wire \in Range(wires) : ~ Shows(wire, s)
    BY <1>4, <1>6 DEF Range
  <2>6. \A i \in 1 .. n : IsValue(Unknown(s.width), path, s, times[i])
    BY <2>4, <2>5 DEF IsValue, wires
  <2> QED  BY <1>2, <2>3, <2>4, <2>6 DEF times
<1>7. CASE Carrying(path, s) # {}
  <2> DEFINE m == Max(Carrying(path, s))
  <2>1. Carrying(path, s) \subseteq Nat /\ \A i \in Carrying(path, s) : i =< Len(wires)
    BY <1>1, <1>4
  <2>2. m \in Carrying(path, s)
    BY <1>1, <1>7, <2>1, MaxIs
  <2>3. Values(path, s) = Column(path, wires[m])
    BY <1>7 DEF Values, wires
  <2> HIDE DEF m
  <2>4. m \in DOMAIN wires /\ Shows(wires[m], s) /\ wires[m] \in Range(wires)
    BY <1>1, <1>4, <2>2
  <2>5. wires[m].width = s.width
    BY <2>4 DEF Shows
  <2>6. /\ Values(path, s) \in Seq(Bits) /\ Len(Values(path, s)) = n
        /\ \A i \in 1 .. n : Values(path, s)[i] = ValueAt(wires[m], times[i])
    BY <2>3, <2>4, ColumnIs DEF wires, times
  <2>7. ASSUME NEW i \in 1 .. n
        PROVE  /\ DOMAIN ValueAt(wires[m], times[i]) = 1 .. s.width
               /\ ShowsDigits(ValueAt(wires[m], times[i]), wires[m], s.width, times[i])
    BY <1>2, <2>4, <2>5, ValueAtIs DEF wires
  <2>8. ASSUME NEW i \in 1 .. n, Single(path, s)
        PROVE  IsValue(ValueAt(wires[m], times[i]), path, s, times[i])
    <3>1. \A wire \in Range(wires) : Shows(wire, s) => wire = wires[m]
      BY <2>4, <2>8 DEF Single, Range, wires
    <3>2. \A wire \in Range(wires) :
             Shows(wire, s) =>
               ShowsDigits(ValueAt(wires[m], times[i]), wire, s.width, times[i])
      BY <2>7, <3>1
    <3>3. ~ \A wire \in Range(wires) : ~ Shows(wire, s)
      BY <2>4
    <3> QED  BY <2>7, <3>2, <3>3 DEF IsValue, ShowsDigits, wires
  <2> QED  BY <1>2, <2>6, <2>7, <2>8 DEF times
<1> QED  BY <1>6, <1>7

-----------------------------------------------------------------------------
\* The times of the first n of some traces.
JoinedOf(paths, n) == FlattenSeq([m \in 1 .. n |-> TimesOf(paths[m])])
Moments == (DOMAIN Waves) \X Int

\* A column and the times it should be of.
Shown(column, s, moments) ==
  \A i \in 1 .. Len(moments) : IsShown(column[i], s, moments[i])

\* The moments of a waveform, one for each of its times.
LEMMA TimesAre ==
  ASSUME NEW path \in DOMAIN Waves
  PROVE  /\ TimesOf(path) \in Seq(Moments) /\ Len(TimesOf(path)) = Len(Waves[path].times)
         /\ \A i \in 1 .. Len(Waves[path].times) : TimesOf(path)[i] = <<path, Waves[path].times[i]>>
<1> DEFINE times == Waves[path].times
<1>1. times \in Seq(Int) /\ Len(times) \in Nat /\ DOMAIN times = 1 .. Len(times)
      /\ \A i \in 1 .. Len(times) : times[i] \in Int
  BY WavesAreDumps
<1> HIDE DEF times
<1>2. TimesOf(path) = [i \in 1 .. Len(times) |-> <<path, times[i]>>]
  BY <1>1 DEF TimesOf, times
<1>3. \A i \in 1 .. Len(times) : <<path, times[i]>> \in Moments
  BY <1>1 DEF Moments
<1> QED  BY <1>1, <1>2, <1>3 DEF times

\* One trace more is joined.
LEMMA JoinedNext ==
  ASSUME NEW paths \in Seq(DOMAIN Waves), NEW n \in Nat, n < Len(paths)
  PROVE  /\ JoinedOf(paths, n) \in Seq(Moments)
         /\ JoinedOf(paths, n + 1) = JoinedOf(paths, n) \o TimesOf(paths[n + 1])
<1> DEFINE ss == [m \in 1 .. n |-> TimesOf(paths[m])]
           s == TimesOf(paths[n + 1])
<1>1. \A m \in 1 .. n + 1 : paths[m] \in DOMAIN Waves
  OBVIOUS
<1>2. \A m \in 1 .. n + 1 : TimesOf(paths[m]) \in Seq(Moments)
  BY <1>1, TimesAre
<1>3. ss \in Seq(Seq(Moments)) /\ Len(ss) = n /\ s \in Seq(Moments)
  BY <1>2
<1>4. [m \in 1 .. n + 1 |-> TimesOf(paths[m])] = Append(ss, s)
  BY <1>2, <1>3
<1>5. /\ FlattenSeq(ss) \in Seq(Moments)
      /\ FlattenSeq(Append(ss, s)) = FlattenSeq(ss) \o s
  BY <1>3, FlattenAppend
<1> QED  BY <1>4, <1>5 DEF JoinedOf

\* Before the first trace there are no moments.
LEMMA NothingJoined == ASSUME NEW paths  PROVE JoinedOf(paths, 0) = <<>>
<1>1. [m \in 1 .. 0 |-> TimesOf(paths[m])] = <<>>
  OBVIOUS
<1> QED  BY <1>1 DEF JoinedOf, FlattenSeq

\* The moments of the traces that are joined.
LEMMA JoinedIs ==
  ASSUME NEW paths \in Seq(DOMAIN Waves), NEW n \in 0 .. Len(paths)
  PROVE  JoinedOf(paths, n) \in Seq(Moments)
<1>1. CASE n = 0
  <2>1. JoinedOf(paths, n) = <<>>
    BY <1>1, NothingJoined
  <2> QED  BY <2>1
<1>2. CASE n # 0
  <2>1. PICK m \in Nat : n = m + 1
    BY <1>2
  <2>2. m < Len(paths) /\ paths[n] \in DOMAIN Waves
    BY <1>2, <2>1
  <2>3. /\ JoinedOf(paths, m) \in Seq(Moments)
        /\ JoinedOf(paths, n) = JoinedOf(paths, m) \o TimesOf(paths[n])
    BY <2>1, <2>2, JoinedNext
  <2>4. TimesOf(paths[n]) \in Seq(Moments)
    BY <2>2, TimesAre
  <2> QED  BY <2>3, <2>4, ConcatProperties
<1> QED  BY <1>1, <1>2

\* A trace that is opened does not change what is joined.
LEMMA JoinedOfLonger ==
  ASSUME NEW paths \in Seq(DOMAIN Waves), NEW path \in DOMAIN Waves, NEW n \in 0 .. Len(paths)
  PROVE  JoinedOf(Append(paths, path), n) = JoinedOf(paths, n)
<1>1. \A m \in 1 .. n : Append(paths, path)[m] = paths[m]
  BY AppendProperties
<1>2. [m \in 1 .. n |-> TimesOf(Append(paths, path)[m])] = [m \in 1 .. n |-> TimesOf(paths[m])]
  BY <1>1
<1> QED  BY <1>2 DEF JoinedOf

\* Two columns that show their moments show them one after the other.
LEMMA ShownLonger ==
  ASSUME NEW column \in Seq(Bits), NEW moments \in Seq(Moments), Len(column) = Len(moments),
         NEW values \in Seq(Bits), NEW times \in Seq(Moments), Len(values) = Len(times), NEW s
  PROVE  /\ column \o values \in Seq(Bits)
         /\ Len(column \o values) = Len(moments \o times)
         /\ Shown(column, s, moments) /\ Shown(values, s, times)
               => Shown(column \o values, s, moments \o times)
<1> DEFINE a == Len(column)  b == Len(values)
<1>1. /\ a \in Nat /\ b \in Nat
      /\ column \o values \in Seq(Bits) /\ Len(column \o values) = a + b
      /\ \A i \in 1 .. a + b :
            (column \o values)[i] = IF i <= a THEN column[i] ELSE values[i - a]
      /\ Len(moments \o times) = a + b
      /\ \A i \in 1 .. a + b :
            (moments \o times)[i] = IF i <= a THEN moments[i] ELSE times[i - a]
  <2>1. a \in Nat /\ b \in Nat /\ Len(moments) = a /\ Len(times) = b
    OBVIOUS
  <2>2. /\ column \o values \in Seq(Bits) /\ Len(column \o values) = a + b
        /\ \A i \in 1 .. a + b :
              (column \o values)[i] = IF i <= a THEN column[i] ELSE values[i - a]
    BY ConcatProperties
  <2>3. /\ Len(moments \o times) = Len(moments) + Len(times)
        /\ \A i \in 1 .. Len(moments) + Len(times) :
              (moments \o times)[i] = IF i <= Len(moments) THEN moments[i]
                                       ELSE times[i - Len(moments)]
    BY ConcatProperties
  <2> HIDE DEF a, b
  <2> QED  BY <2>1, <2>2, <2>3
<1>2. ASSUME Shown(column, s, moments), Shown(values, s, times), NEW i \in 1 .. a + b
      PROVE  IsShown((column \o values)[i], s, (moments \o times)[i])
  <2>1. CASE i <= a
    <3>1. i \in 1 .. Len(moments)
      BY <1>1, <2>1
    <3>2. IsShown(column[i], s, moments[i])
      BY <1>2, <3>1 DEF Shown
    <3> QED  BY <1>1, <2>1, <3>2
  <2>2. CASE ~ (i <= a)
    <3>1. i - a \in 1 .. Len(times)
      BY <1>1, <2>2
    <3>2. IsShown(values[i - a], s, times[i - a])
      BY <1>2, <3>1 DEF Shown
    <3> QED  BY <1>1, <2>2, <3>2
  <2> QED  BY <2>1, <2>2
<1> QED  BY <1>1, <1>2 DEF Shown

\* The values of one trace.
LEMMA ValuesShown ==
  ASSUME setup \in Setups, NEW path \in DOMAIN Waves, NEW s, Plain(s)
  PROVE  /\ Values(path, s) \in Seq(Bits) /\ Len(Values(path, s)) = Len(TimesOf(path))
         /\ Single(path, s) => Shown(Values(path, s), s, TimesOf(path))
<1>1. /\ Values(path, s) \in Seq(Bits) /\ Len(Values(path, s)) = Len(Waves[path].times)
      /\ \A i \in 1 .. Len(Waves[path].times) :
            Single(path, s) => IsValue(Values(path, s)[i], path, s, Waves[path].times[i])
  BY ValuesAre
<1>2. /\ Len(TimesOf(path)) = Len(Waves[path].times)
      /\ \A i \in 1 .. Len(Waves[path].times) :
            TimesOf(path)[i] = <<path, Waves[path].times[i]>>
  BY TimesAre
<1>3. ASSUME NEW i \in 1 .. Len(TimesOf(path)), Single(path, s)
      PROVE  IsShown(Values(path, s)[i], s, TimesOf(path)[i])
  BY <1>1, <1>2, <1>3 DEF IsShown
<1> QED  BY <1>1, <1>2, <1>3 DEF Shown

\* The values of a counterexample, filled in.
LEMMA FixedShown ==
  ASSUME setup \in Setups, NEW s, Plain(s),
         NEW fixed \in Fixed(Values(setup.counterexample, s), s.width)
  PROVE  LET path == setup.counterexample IN
         /\ path \in DOMAIN Waves
         /\ fixed \in Seq(Bits) /\ Len(fixed) = Len(TimesOf(path))
         /\ Single(path, s) => Shown(fixed, s, TimesOf(path))
<1> DEFINE path == setup.counterexample  values == Values(path, s)  n == Len(TimesOf(path))
<1>0. path \in DOMAIN Waves
  BY SetupsReadWaves
<1>1. /\ values \in Seq(Bits) /\ Len(values) = n /\ n \in Nat
      /\ \A i \in 1 .. n :
            /\ DOMAIN values[i] = 1 .. s.width
            /\ TimesOf(path)[i] = <<path, Waves[path].times[i]>>
            /\ Single(path, s) => IsValue(values[i], path, s, Waves[path].times[i])
  <2>1. /\ Len(TimesOf(path)) = Len(Waves[path].times)
        /\ Len(Waves[path].times) \in Nat
        /\ \A i \in 1 .. Len(Waves[path].times) :
              TimesOf(path)[i] = <<path, Waves[path].times[i]>>
    BY <1>0, TimesAre
  <2>2. /\ values \in Seq(Bits) /\ Len(values) = Len(Waves[path].times)
        /\ \A i \in 1 .. Len(Waves[path].times) :
              /\ DOMAIN values[i] = 1 .. s.width
              /\ Single(path, s) => IsValue(values[i], path, s, Waves[path].times[i])
    BY <1>0, ValuesAre
  <2> QED  BY <2>1, <2>2
<1> HIDE DEF path, values, n
<1>2. /\ DOMAIN values = 1 .. n /\ fixed \in [1 .. n -> Digits(s.width)]
      /\ \A i \in 1 .. n : ~ IsUndefined(values[i]) => fixed[i] = values[i]
      /\ \A i \in 1 .. n : values[i] \in Bits
  BY <1>1 DEF Fixed, path, values
<1>3. Digits(s.width) \subseteq Bits
  BY DEF Digits, Bits, Plain
<1>4. fixed \in Seq(Bits) /\ Len(fixed) = n
  BY <1>1, <1>2, <1>3
<1>5. ASSUME NEW i \in 1 .. n, Single(path, s)
      PROVE  IsShown(fixed[i], s, TimesOf(path)[i])
  <2>1. IsValue(values[i], path, s, Waves[path].times[i])
    BY <1>1, <1>5
  <2>2. CASE ~ IsUndefined(values[i])
    BY <1>1, <1>2, <2>1, <2>2 DEF IsShown
  <2>3. CASE IsUndefined(values[i])
    <3>1. values[i] \in [1 .. s.width -> {"0", "1", "x", "z"}]
      <4>1. PICK v : v = values[i]
        OBVIOUS
      <4>2. v \in Seq({"0", "1", "x", "z"}) /\ DOMAIN v = 1 .. s.width
        BY <1>1, <1>2, <4>1 DEF Bits
      <4>3. v \in [1 .. Len(v) -> {"0", "1", "x", "z"}] /\ DOMAIN v = 1 .. Len(v)
        BY <4>2, LenProperties
      <4> QED  BY <4>1, <4>2, <4>3
    <3>2. fixed[i] \in Digits(s.width)
      BY <1>2
    <3> QED  BY <1>1, <2>1, <2>3, <3>1, <3>2 DEF IsShown, path
  <2> QED  BY <2>2, <2>3
<1> QED  BY <1>0, <1>4, <1>5 DEF Shown, path, n

-----------------------------------------------------------------------------
\* Each column is as long as the traces that are joined and, unless a waveform has
\* two wires for one signal, shows them moment by moment.
TracesInv ==
  /\ setup \in Setups /\ tracesAt \in {"open", "join", "printed"}
  /\ opened \in Seq(DOMAIN Waves) /\ joined \in 0 .. Len(opened)
  /\ tracesAt = "open" => joined = 0 /\ signals = {}
  /\ tracesAt = "printed" => joined = Len(opened)
  /\ \A s \in signals :
       /\ Plain(s)
       /\ columns[s] \in Seq(Bits) /\ Len(columns[s]) = Len(JoinedOf(opened, joined))
       /\ (\A path \in Range(opened) : Single(path, s)) =>
             Shown(columns[s], s, JoinedOf(opened, joined))
  /\ tracesAt = "printed" /\ signals # {} =>
       demanded = Examples(Len(JoinedOf(opened, joined)))

\* The invariant holds before a trace is read.
LEMMA TracesInvInit == TracesInit => TracesInv
<1> SUFFICES ASSUME TracesInit PROVE TracesInv
  OBVIOUS
<1>1. opened \in Seq(DOMAIN Waves) /\ Len(opened) = 0
  BY DEF TracesInit
<1> QED  BY <1>1 DEF TracesInit, TracesInv

\* Reading one more trace.
LEMMA OpenKeeps ==
  ASSUME opened \in Seq(DOMAIN Waves), NEW directory, directory \subseteq DOMAIN Waves, Open(directory)
  PROVE  opened' \in Seq(DOMAIN Waves) /\ Len(opened') = Len(opened) + 1
<1>1. PICK path \in DOMAIN Waves : opened' = Append(opened, path)
  BY DEF Open
<1> QED  BY <1>1, AppendProperties

\* The problem depends on the columns and the setup.
LEMMA SameProblem ==
  ASSUME UNCHANGED <<setup, signals, columns>>, NEW n
  PROVE  Examples(n)' = Examples(n)
BY DEF Examples, Latency, Rendered, Read, State, IsDefined

\* What a signal is depends on the setup only.
LEMMA SameSignals ==
  ASSUME UNCHANGED setup
  PROVE  /\ \A s : Plain(s)' <=> Plain(s)
         /\ \A path, s : Single(path, s)' <=> Single(path, s)
         /\ \A column, s, moments : Shown(column, s, moments)' <=> Shown(column, s, moments)
BY DEF Plain, Root, Single, Shows, Through, Shown, IsShown, IsValue

\* Every step keeps the invariant.
LEMMA TracesInvNext == TracesInv /\ [TracesNext]_tracesVars => TracesInv'
<1> SUFFICES ASSUME TracesInv, [TracesNext]_tracesVars  PROVE TracesInv'
  OBVIOUS
<1>0. /\ setup \in Setups /\ opened \in Seq(DOMAIN Waves) /\ joined \in 0 .. Len(opened)
      /\ Len(opened) \in Nat
  BY DEF TracesInv
<1>1. CASE OpenTrace
  <2>1. /\ tracesAt = "open" /\ UNCHANGED <<setup, tracesAt, joined, signals, columns, demanded>>
        /\ \E directory \in {setup.leftovers, setup.simulations} : Open(directory)
    BY <1>1 DEF OpenTrace
  <2>2. PICK directory \in {setup.leftovers, setup.simulations} : Open(directory)
    BY <2>1
  <2>3. directory \subseteq DOMAIN Waves
    BY <1>0, SetupsReadWaves
  <2>4. opened' \in Seq(DOMAIN Waves) /\ Len(opened') = Len(opened) + 1
    BY <1>0, <2>2, <2>3, OpenKeeps
  <2>5. signals = {} /\ joined = 0
    BY <2>1 DEF TracesInv
  <2> QED  BY <1>0, <2>1, <2>4, <2>5 DEF TracesInv
<1>2. CASE ChooseSignals
  <2>1. /\ tracesAt = "open" /\ opened # <<>> /\ tracesAt' = "join" /\ signals' = Chosen
        /\ columns' = [s \in Chosen |-> <<>>] /\ UNCHANGED <<setup, opened, joined, demanded>>
    BY <1>2 DEF ChooseSignals
  <2>2. joined = 0
    BY <2>1 DEF TracesInv
  <2>3. JoinedOf(opened, 0) = <<>>
    BY NothingJoined
  <2>4. ASSUME NEW s \in Chosen  PROVE Plain(s)
    <3>1. opened[1] \in DOMAIN Waves
      BY <1>0, <2>1
    <3>2. PICK wire \in Range(Wires(opened[1])) : s = Signal(wire) /\ s.module = Root
      BY DEF Chosen
    <3>3. wire \in AnyWire
      BY <3>1, <3>2, WireIs
    <3> QED  BY <1>0, <3>2, <3>3, SignalIsPlain
  <2>5. ASSUME NEW s \in signals'
        PROVE  /\ Plain(s)'
               /\ columns'[s] \in Seq(Bits) /\ Len(columns'[s]) = Len(JoinedOf(opened, joined)')
               /\ Shown(columns[s], s, JoinedOf(opened, joined))'
    <3>1. columns'[s] = <<>> /\ JoinedOf(opened, joined)' = <<>>
      BY <2>1, <2>2, <2>3
    <3>2. Plain(s)'
      BY <2>1, <2>4, SameSignals
    <3>3. <<>> \in Seq(Bits) /\ Len(<<>>) = 0
      OBVIOUS
    <3> QED  BY <3>1, <3>2, <3>3 DEF Shown
  <2> QED  BY <1>0, <2>1, <2>2, <2>5 DEF TracesInv
<1>3. CASE JoinTrace
  <2>1. /\ tracesAt = "join" /\ joined < Len(opened) /\ joined' = joined + 1
        /\ columns' = [s \in signals |-> columns[s] \o Values(opened[joined + 1], s)]
        /\ UNCHANGED <<setup, tracesAt, opened, signals, demanded>>
    BY <1>3 DEF JoinTrace
  <2>2. PICK path : path = opened[joined + 1]
    OBVIOUS
  <2>3. path \in DOMAIN Waves /\ path \in Range(opened) /\ joined \in Nat
    BY <1>0, <2>1, <2>2 DEF Range
  <2>4. PICK before : before = JoinedOf(opened, joined)
    OBVIOUS
  <2>5. before \in Seq(Moments) /\ JoinedOf(opened, joined)' = before \o TimesOf(path)
    BY <1>0, <2>1, <2>2, <2>3, <2>4, JoinedNext
  <2>6. TimesOf(path) \in Seq(Moments)
    BY <2>3, TimesAre
  <2>7. ASSUME NEW s \in signals
        PROVE  /\ Plain(s)'
               /\ columns'[s] \in Seq(Bits) /\ Len(columns'[s]) = Len(JoinedOf(opened, joined)')
               /\ (\A p \in Range(opened) : Single(p, s))' =>
                     Shown(columns[s], s, JoinedOf(opened, joined))'
    <3>1. PICK column : column = columns[s]
      OBVIOUS
    <3>2. PICK values : values = Values(path, s)
      OBVIOUS
    <3>3. /\ Plain(s) /\ column \in Seq(Bits) /\ Len(column) = Len(before)
          /\ (\A p \in Range(opened) : Single(p, s)) => Shown(column, s, before)
      BY <2>4, <3>1 DEF TracesInv
    <3>4. /\ values \in Seq(Bits) /\ Len(values) = Len(TimesOf(path))
          /\ Single(path, s) => Shown(values, s, TimesOf(path))
      BY <1>0, <2>3, <3>2, <3>3, ValuesShown
    <3>5. /\ column \o values \in Seq(Bits)
          /\ Len(column \o values) = Len(before \o TimesOf(path))
          /\ Shown(column, s, before) /\ Shown(values, s, TimesOf(path))
               => Shown(column \o values, s, before \o TimesOf(path))
      BY <2>5, <2>6, <3>3, <3>4, ShownLonger
    <3>6. columns'[s] = column \o values
      BY <2>1, <2>2, <3>1, <3>2
    <3>7. (\A p \in Range(opened) : Single(p, s))' => \A p \in Range(opened) : Single(p, s)
      BY <2>1, SameSignals
    <3>8. (\A p \in Range(opened) : Single(p, s)) =>
             Shown(column \o values, s, before \o TimesOf(path))
      BY <2>3, <3>3, <3>4, <3>5
    <3>9. Shown(columns[s], s, JoinedOf(opened, joined))' <=>
             Shown(column \o values, s, before \o TimesOf(path))
      BY <2>1, <2>5, <3>6, SameSignals DEF Shown
    <3>10. Plain(s)'
      BY <2>1, <3>3, SameSignals
    <3> QED  BY <2>5, <3>5, <3>6, <3>7, <3>8, <3>9, <3>10
  <2>8. joined' \in 0 .. Len(opened')
    BY <1>0, <2>1
  <2> QED  BY <1>0, <2>1, <2>7, <2>8 DEF TracesInv
<1>4. CASE PrintProblem
  <2>1. /\ tracesAt = "join" /\ joined = Len(opened) /\ tracesAt' = "printed"
        /\ UNCHANGED <<setup, opened, joined, signals, columns>>
        /\ signals # {} => \E s \in signals : demanded' = Examples(Len(columns[s]))
    BY <1>4 DEF PrintProblem
  <2>2. signals # {} => demanded' = Examples(Len(JoinedOf(opened, joined)))
    BY <2>1 DEF TracesInv
  <2>3. signals' # {} => demanded' = Examples(Len(JoinedOf(opened, joined)))'
    <3>1. \A n : Examples(n)' = Examples(n)
      BY <2>1, SameProblem
    <3>2. Examples(Len(JoinedOf(opened, joined)))' = Examples(Len(JoinedOf(opened, joined)))
      BY <2>1, <3>1
    <3> QED  BY <2>1, <2>2, <3>2
  <2> QED  BY <1>0, <2>1, <2>3, SameSignals DEF TracesInv
<1>5. CASE Learn
  <2> DEFINE path == setup.counterexample
  <2>1. /\ tracesAt = "printed" /\ tracesAt' = "join"
        /\ opened' = Append(opened, path) /\ joined' = joined + 1
        /\ UNCHANGED <<setup, signals, demanded>>
    BY <1>5 DEF Learn
  <2>2. PICK fixed : /\ \A s \in signals : fixed[s] \in Fixed(Values(path, s), s.width)
                     /\ columns' = [s \in signals |-> columns[s] \o fixed[s]]
    BY <1>5 DEF Learn
  <2>3. joined = Len(opened) /\ path \in DOMAIN Waves
    BY <1>0, <2>1, SetupsReadWaves DEF TracesInv
  <2> HIDE DEF path
  <2>4. PICK before : before = JoinedOf(opened, joined)
    OBVIOUS
  <2>5. PICK paths : paths = Append(opened, path)
    OBVIOUS
  <2>6. /\ paths \in Seq(DOMAIN Waves) /\ Len(paths) = Len(opened) + 1
        /\ paths[Len(opened) + 1] = path
        /\ \A i \in 1 .. Len(opened) : paths[i] = opened[i]
    BY <1>0, <2>3, <2>5, AppendProperties
  <2>7. before \in Seq(Moments) /\ JoinedOf(opened, joined)' = before \o TimesOf(path)
    <3>1. JoinedOf(paths, joined) = before
      BY <1>0, <2>3, <2>4, <2>5, JoinedOfLonger
    <3>2. /\ JoinedOf(paths, joined) \in Seq(Moments)
          /\ JoinedOf(paths, joined + 1) = JoinedOf(paths, joined) \o TimesOf(paths[joined + 1])
      <4>1. joined \in Nat /\ joined < Len(paths)
        BY <1>0, <2>3, <2>6
      <4> QED  BY <2>6, <4>1, JoinedNext
    <3> QED  BY <2>1, <2>3, <2>5, <2>6, <3>1, <3>2
  <2>8. TimesOf(path) \in Seq(Moments)
    BY <2>3, TimesAre
  <2>9. path \in Range(opened)' /\ \A p \in Range(opened) : p \in Range(opened)'
    <3>1. DOMAIN opened = 1 .. Len(opened) /\ DOMAIN paths = 1 .. Len(opened) + 1
      BY <1>0, <2>6
    <3>2. path \in Range(paths)
      BY <1>0, <2>6, <3>1 DEF Range
    <3>3. \A p \in Range(opened) : p \in Range(paths)
      BY <1>0, <2>6, <3>1 DEF Range
    <3> QED  BY <2>1, <2>5, <3>2, <3>3
  <2>10. ASSUME NEW s \in signals
         PROVE  /\ Plain(s)'
                /\ columns'[s] \in Seq(Bits) /\ Len(columns'[s]) = Len(JoinedOf(opened, joined)')
                /\ (\A p \in Range(opened) : Single(p, s))' =>
                      Shown(columns[s], s, JoinedOf(opened, joined))'
    <3>1. PICK column : column = columns[s]
      OBVIOUS
    <3>2. PICK values : values = fixed[s]
      OBVIOUS
    <3>3. /\ Plain(s) /\ column \in Seq(Bits) /\ Len(column) = Len(before)
          /\ (\A p \in Range(opened) : Single(p, s)) => Shown(column, s, before)
      BY <2>4, <3>1 DEF TracesInv
    <3>4. /\ values \in Seq(Bits) /\ Len(values) = Len(TimesOf(path))
          /\ Single(path, s) => Shown(values, s, TimesOf(path))
      BY <1>0, <2>2, <3>2, <3>3, FixedShown DEF path
    <3>5. /\ column \o values \in Seq(Bits)
          /\ Len(column \o values) = Len(before \o TimesOf(path))
          /\ Shown(column, s, before) /\ Shown(values, s, TimesOf(path))
               => Shown(column \o values, s, before \o TimesOf(path))
      BY <2>7, <2>8, <3>3, <3>4, ShownLonger
    <3>6. columns'[s] = column \o values
      BY <2>2, <3>1, <3>2
    <3>7. (\A p \in Range(opened) : Single(p, s))' =>
             Single(path, s) /\ \A p \in Range(opened) : Single(p, s)
      BY <2>1, <2>9, SameSignals
    <3>8. Single(path, s) /\ (\A p \in Range(opened) : Single(p, s)) =>
             Shown(column \o values, s, before \o TimesOf(path))
      BY <3>3, <3>4, <3>5
    <3>9. Shown(columns[s], s, JoinedOf(opened, joined))' <=>
             Shown(column \o values, s, before \o TimesOf(path))
      BY <2>1, <2>7, <3>6, SameSignals DEF Shown
    <3>10. Plain(s)'
      BY <2>1, <3>3, SameSignals
    <3> QED  BY <2>7, <3>5, <3>6, <3>7, <3>8, <3>9, <3>10
  <2>11. joined' \in 0 .. Len(opened') /\ opened' \in Seq(DOMAIN Waves)
    BY <1>0, <2>1, <2>3, <2>5, <2>6
  <2> QED  BY <1>0, <2>1, <2>10, <2>11 DEF TracesInv
<1>6. CASE UNCHANGED tracesVars
  <2>1. UNCHANGED <<setup, tracesAt, opened, joined, signals, columns, demanded>>
    BY <1>6 DEF tracesVars
  <2>2. Examples(Len(JoinedOf(opened, joined)))' = Examples(Len(JoinedOf(opened, joined)))
    <3>1. \A n : Examples(n)' = Examples(n)
      BY <2>1, SameProblem
    <3> QED  BY <2>1, <3>1
  <2> QED  BY <1>0, <2>1, <2>2, SameSignals DEF TracesInv
<1> QED  BY <1>1, <1>2, <1>3, <1>4, <1>5, <1>6 DEF TracesNext

\* The columns of a block always have a value for each moment of the traces that
\* are joined, and show it, in whatever order the traces are read (Trace.cpp,
\* SyGuSGenerater.cpp).
THEOREM TracesInvariant == TracesSpec => []TracesInv
<1> QED  BY TracesInvInit, TracesInvNext, PTL DEF TracesSpec

\* For any waveforms, signals and order of reading (Trace.cpp, SyGuSGenerater.cpp),
\* an example is what one waveform shows at one time, none is lost, and examples
\* `latency' apart are of instants that far apart.
THEOREM ExamplesShown == TracesSpec => []ExamplesAreInstants
<1>1. TracesInv => ExamplesAreInstants
  <2> SUFFICES ASSUME TracesInv, tracesAt = "printed", signals # {},
                      \A path \in Range(opened) : ~ Ambiguous(path)
               PROVE  /\ \A s \in signals : Len(columns[s]) = Len(Instants)
                      /\ \A i \in DOMAIN Instants : \A s \in signals :
                            IsShown(columns[s][i], s, Instants[i])
                      /\ demanded = Examples(Len(Instants))
    BY DEF ExamplesAreInstants
  <2>1. Instants = JoinedOf(opened, joined)
    BY DEF TracesInv, Instants, JoinedOf
  <2>2. \A s \in signals : \A path \in Range(opened) : Single(path, s)
    BY DEF Ambiguous, Single
  <2>3. \A s \in signals : Len(columns[s]) = Len(Instants) /\ Shown(columns[s], s, Instants)
    BY <2>1, <2>2 DEF TracesInv
  <2>4. DOMAIN Instants = 1 .. Len(Instants)
    <3>1. Instants \in Seq(Moments)
      BY <2>1, JoinedIs DEF TracesInv
    <3> QED  BY <3>1
  <2>5. demanded = Examples(Len(Instants))
    BY <2>1 DEF TracesInv
  <2> QED  BY <2>3, <2>4, <2>5 DEF Shown
<1> QED  BY <1>1, TracesInvariant, PTL
=============================================================================
