----------------------------- MODULE PartsProofs -----------------------------
(***************************************************************************)
(* Proofs about the parts that run alone: several runs in one directory    *)
(* (Rerun), for any number of them; the minimiser and the search for a     *)
(* minimal satisfying assignment (Mus), for any mined file; the options    *)
(* (Options), for any config files and any command line; an answer of cvc5 *)
(* on its way to EBMC (Candidate), for any signals and any depth.          *)
(***************************************************************************)
EXTENDS Rerun, Mus, Options, Candidate, NumberFacts, SequenceTheorems

-----------------------------------------------------------------------------
(* Rerun.                                                                  *)

Own == [run |-> run, whole |-> TRUE]
Early == {"idle", "prepare", "elaborate", "search", "searched"}
Stages == Early \union {"simulate", "rounds", "blocks"}

\* Types.  What is on disk was written after the directory was last removed.
OnDisk(r) == removed < r /\ r <= run
Counters ==
  /\ run \in Nat /\ removed \in Nat /\ removed <= run
  /\ doing \in Stages
  /\ traces \in Nat /\ tried \in Nat /\ simulated \in Nat /\ round \in Nat
  /\ blockCounter \in Nat
  /\ design \subseteq Sources /\ queue \subseteq Names
  /\ orphans \subseteq Indices /\ excused \subseteq Indices
  /\ doing # "idle" => removed < run /\ traces \in Indices
  /\ doing = "searched" => tried + 1 \in Candidates
SourcesThere ==
  /\ sources \in [Sources -> Nat]
  /\ \A f \in Sources : sources[f] # 0 => OnDisk(sources[f])
ElaboratedThere == elaborated \in Nat /\ (elaborated # 0 => OnDisk(elaborated))
WavesThere ==
  /\ vcd \in [Indices -> [run : Nat, whole : BOOLEAN]]
  /\ \A i \in Indices : vcd[i] # Nothing => OnDisk(vcd[i].run)
FilesThere ==
  /\ files \in [Names -> Nat]
  /\ \A n \in Names : files[n] # 0 => OnDisk(files[n])
ScratchThere ==
  /\ scratch \in [Cores -> SUBSET Nat]
  /\ \A c \in Cores : \A r \in scratch[c] : OnDisk(r) /\ <<r, c>> \in lost

\* The states in fuzz are of searches that were killed, but for those the run is
\* about to read; a simulator that outlived its run may write them after a removal.
Killed(r, c) == r \in Nat /\ r <= run /\ <<r, c>> \in cut
StatesThere ==
  /\ states \in [Candidates -> Nat]
  /\ \A c \in Candidates :
       \/ states[c] = 0
       \/ Killed(states[c], c)
       \/ doing = "searched" /\ c = tried + 1 /\ states[c] = run
  /\ \A l \in strays : Killed(l[1], l[2])
RerunTypes ==
  /\ Counters /\ SourcesThere /\ ElaboratedThere /\ WavesThere /\ FilesThere /\ ScratchThere
  /\ StatesThere

\* A run goes on from its preparation only when it has written its sources.
Prepared == doing \notin {"idle", "prepare"} => \A f \in design : sources[f] = run

\* The waveforms asked for so far are the run's own, and it goes on only when it
\* has all of them.
Simulating ==
  /\ doing \in Early => round = 0 /\ simulated = 0
  /\ doing = "simulate" => round = 0 /\ simulated <= traces
  /\ doing \in {"rounds", "blocks"} => simulated = traces
  /\ doing \in {"simulate", "rounds", "blocks"} =>
       \A i \in 1 .. simulated : vcd[i] = Own \/ i \in excused

\* From the second round on the block files are the run's own; a block's file is
\* there until it runs.
Blocks ==
  /\ doing = "blocks" => round >= 1 /\ queue \subseteq Present
  /\ doing = "rounds" /\ round >= 1 => \A n \in Names : files[n] \in {0, run}
  /\ doing = "blocks" /\ round > 1  => \A n \in Names : files[n] \in {0, run}

RerunInv == RerunTypes /\ Prepared /\ Simulating /\ Blocks /\ StaleReadsExplained

\* A read that is as StaleReadsExplained says.
Explained(s) ==
  /\ s.from < run
  /\ removed < s.from \/ s.what = "states"
  /\ \/ s.what = "source" /\ s.key \notin design
     \/ s.what = "waveform" /\ (s.key > traces \/ s.key \in excused)
     \/ s.what = "block file" /\ s.round = 1
     \/ s.what = "scratch" /\ <<s.from, s.key>> \in lost
     \/ s.what = "states" /\ <<s.from, s.key>> \in cut
     \/ s.what = "elaboration" /\ s.round = 0

\* The property, read by read.
LEMMA ReadsExplained == StaleReadsExplained <=> \A s \in stale : Explained(s)
BY DEF StaleReadsExplained, Explained

\* In an empty directory there is nothing to explain.
LEMMA RerunInvInit == RerunInit => RerunInv
<1> SUFFICES ASSUME RerunInit  PROVE RerunInv
  OBVIOUS
<1>1. RerunTypes
  BY RerunBounds DEF RerunInit, RerunTypes, Counters, SourcesThere, ElaboratedThere, WavesThere,
     FilesThere, ScratchThere, StatesThere, Stages, Early, Nothing, OnDisk
<1>2. Prepared /\ Simulating /\ Blocks /\ StaleReadsExplained
  BY DEF RerunInit, Prepared, Simulating, Blocks, StaleReadsExplained, Early
<1> QED  BY <1>1, <1>2 DEF RerunInv

-----------------------------------------------------------------------------
\* Every action keeps the types.

\* The run and its counters.
LEMMA CountersKept ==
  ASSUME RerunInv, [RerunNext]_rerunVars  PROVE Counters'
<1> USE RerunBounds DEF Stages, Early, asked, counters, memory, disk, history, Indices, Names,
        Counters
<1>0. Counters /\ Simulating
  BY DEF RerunInv, RerunTypes
<1>1. CASE Ended /\ UNCHANGED run
  <2>1. removed' \in {removed, run} /\ orphans' \subseteq Indices
    <3>1. CASE Simulate
      BY <1>0, <3>1 DEF Simulate
    <3>2. CASE KilledSimulating
      <4>1. simulated + 1 \in Indices /\ orphans' = orphans \union {simulated + 1}
        BY <1>0, <3>2 DEF KilledSimulating
      <4>2. removed' = removed
        BY <3>2 DEF KilledSimulating
      <4> QED  BY <1>0, <4>1, <4>2
    <3>3. CASE OrphanWrites
      BY <1>0, <3>3 DEF OrphanWrites
    <3>4. CASE Finish
      BY <1>0, <3>4 DEF Finish
    <3> QED
      BY <1>0, <1>1, <3>1, <3>2, <3>3, <3>4 DEF RerunNext, rerunVars, Start, Prepare, Stops,
         Elaborate, SearchRuns, SearchReads, SearchEnds, KilledSearching, LateStates,
         WriteInitialBlocks, BeginRound, RunBlock, NextRound
  <2> QED  BY <1>0, <1>1, <2>1 DEF Ended
<1>2. CASE Start
  BY <1>0, <1>2 DEF Start
<1>3. CASE Prepare /\ ~ Ended
  <2>1. doing = "prepare" /\ doing' = "elaborate"
        /\ UNCHANGED <<memory, run, removed, orphans>>
    BY <1>3 DEF Prepare
  <2> QED  BY <1>0, <2>1
<1>4. CASE Elaborate
  BY <1>0, <1>4 DEF Elaborate
<1>5. CASE SearchRuns
  BY <1>0, <1>5 DEF SearchRuns, Candidates
<1>6. CASE SearchReads
  BY <1>0, <1>6 DEF SearchReads
<1>7. CASE SearchEnds \/ LateStates
  BY <1>0, <1>7 DEF SearchEnds, LateStates
<1>8. CASE Simulate /\ ~ Ended
  <2>1. /\ simulated + 1 \in Indices /\ simulated' = simulated + 1
        /\ excused' \in {excused, excused \union {simulated + 1}}
        /\ UNCHANGED <<run, doing, design, traces, tried, round, queue, blockCounter, orphans,
                        removed>>
    BY <1>0, <1>8 DEF Simulate
  <2> QED  BY <1>0, <2>1
<1>9. CASE OrphanWrites
  <2>1. /\ orphans' \subseteq Indices /\ excused' \subseteq Indices
        /\ UNCHANGED <<doing, asked, counters, removed>>
    BY <1>0, <1>9 DEF OrphanWrites
  <2> QED  BY <1>0, <2>1
<1>10. CASE WriteInitialBlocks
  BY <1>0, <1>10 DEF WriteInitialBlocks
<1>11. CASE BeginRound
  BY <1>0, <1>11 DEF BeginRound, Present
<1>12. CASE RunBlock
  <2>1. queue' \subseteq queue /\ blockCounter' = blockCounter + 1
    BY <1>12 DEF RunBlock
  <2>2. UNCHANGED <<doing, asked, tried, simulated, round, orphans, excused, removed>>
    BY <1>12 DEF RunBlock
  <2> QED  BY <1>0, <2>1, <2>2
<1>13. CASE NextRound
  BY <1>0, <1>13 DEF NextRound
<1>14. CASE UNCHANGED rerunVars
  BY <1>0, <1>14 DEF rerunVars
<1> QED
  BY <1>1, <1>2, <1>3, <1>4, <1>5, <1>6, <1>7, <1>8, <1>9, <1>10, <1>11, <1>12, <1>13, <1>14
     DEF RerunNext, Prepare, Stops, KilledSearching, Simulate, KilledSimulating, Finish

\* Only a removal takes anything off the disk, and then there is nothing left.
LEMMA DiskKept ==
  ASSUME RerunInv, [RerunNext]_rerunVars
  PROVE  \/ \A r \in Nat : OnDisk(r) => OnDisk(r)'
         \/ Finish /\ Emptied
<1> USE DEF OnDisk, asked, history, disk
<1>0. run \in Nat
  BY DEF RerunInv, RerunTypes, Counters
<1>1. CASE Start
  BY <1>0, <1>1 DEF Start
<1>2. CASE Finish
  BY <1>0, <1>2 DEF Finish
<1>3. CASE ~ Start /\ ~ Finish
  <2>1. UNCHANGED <<run, removed>>
    BY <1>3 DEF RerunNext, rerunVars, Prepare, Stops, Elaborate, SearchRuns, SearchReads,
       SearchEnds, KilledSearching, LateStates, Simulate, KilledSimulating, OrphanWrites,
       WriteInitialBlocks, BeginRound, RunBlock, NextRound
  <2> QED  BY <2>1
<1> QED  BY <1>1, <1>2, <1>3

\* The sources on disk are of runs since the last removal.
LEMMA SourcesKept ==
  ASSUME RerunInv, [RerunNext]_rerunVars  PROVE SourcesThere'
<1>0. Counters /\ SourcesThere
  BY DEF RerunInv, RerunTypes
<1>1. CASE Prepare
  <2>1. PICK written : sources' = [f \in Sources |-> IF f \in written THEN run ELSE sources[f]]
    BY <1>1 DEF Prepare
  <2>2. removed < run /\ run \in Nat /\ UNCHANGED <<run, removed>>
    BY <1>0, <1>1 DEF Prepare, Counters
  <2> QED  BY <1>0, <2>1, <2>2 DEF SourcesThere, Sources, OnDisk
<1>2. CASE sources' = sources
  BY <1>0, <1>2, DiskKept DEF SourcesThere, Sources, Emptied
<1>3. CASE Emptied
  BY <1>3 DEF SourcesThere, Sources, Emptied
<1> QED
  BY <1>1, <1>2, <1>3 DEF RerunNext, rerunVars, disk, Start, Stops, Elaborate, SearchRuns,
     SearchReads, SearchEnds, KilledSearching, LateStates, Simulate, KilledSimulating,
     OrphanWrites, WriteInitialBlocks, BeginRound, RunBlock, NextRound, Finish

\* The states on disk, and the simulators still to write some, are of killed searches.
LEMMA StatesKept ==
  ASSUME RerunInv, [RerunNext]_rerunVars  PROVE StatesThere'
<1>0. Counters /\ StatesThere
  BY DEF RerunInv, RerunTypes
<1> USE DEF asked, counters, disk, history
<1>1. run <= run' /\ run \in Nat /\ run' \in Nat /\ cut \subseteq cut'
  <2>1. run' \in {run, run + 1}
    BY DEF RerunNext, rerunVars, Start, Prepare, Stops, Elaborate, SearchRuns, SearchReads,
       SearchEnds, KilledSearching, LateStates, Simulate, KilledSimulating, OrphanWrites,
       WriteInitialBlocks, BeginRound, RunBlock, NextRound, Finish
  <2>2. cut \subseteq cut'
    <3>1. CASE KilledSearching
      BY <3>1 DEF KilledSearching
    <3> QED
      BY <3>1 DEF RerunNext, rerunVars, Start, Prepare, Stops, Elaborate, SearchRuns, SearchReads,
         SearchEnds, LateStates, Simulate, KilledSimulating, OrphanWrites, WriteInitialBlocks,
         BeginRound, RunBlock, NextRound, Finish
  <2> QED  BY <1>0, <2>1, <2>2 DEF Counters
<1> DEFINE Then(r, c) == r \in Nat /\ r <= run' /\ <<r, c>> \in cut'
<1>2. ASSUME NEW r, NEW c, Killed(r, c)  PROVE Then(r, c)
  BY <1>1, <1>2 DEF Killed
<1>3. ASSUME states' \in [Candidates -> Nat], \A l \in strays' : Then(l[1], l[2]),
             \A c \in Candidates :
               \/ states'[c] = 0 \/ Then(states'[c], c)
               \/ doing' = "searched" /\ c = tried' + 1 /\ states'[c] = run'
      PROVE  StatesThere'
  BY <1>3 DEF StatesThere, Killed, Candidates
<1>4. strays' = strays => \A l \in strays' : Then(l[1], l[2])
  BY <1>0, <1>2 DEF StatesThere
<1> HIDE DEF Then
<1>5. CASE SearchRuns
  <2>1. /\ doing = "search" /\ doing' = "searched" /\ UNCHANGED <<run, tried, strays>>
        /\ states' \in {states, [states EXCEPT ![tried + 1] = run]}
    BY <1>5 DEF SearchRuns
  <2>2. states' \in [Candidates -> Nat]
    BY <1>0, <1>1, <2>1 DEF StatesThere
  <2>3. ASSUME NEW c \in Candidates
        PROVE  \/ states'[c] = 0 \/ Then(states'[c], c)
               \/ doing' = "searched" /\ c = tried' + 1 /\ states'[c] = run'
    <3>1. CASE states'[c] = states[c]
      BY <1>0, <1>2, <2>1, <3>1 DEF StatesThere
    <3>2. CASE c = tried + 1 /\ states'[c] = run
      BY <2>1, <3>2
    <3> QED  BY <1>0, <2>1, <3>1, <3>2 DEF StatesThere
  <2> QED  BY <1>3, <1>4, <2>1, <2>2, <2>3
<1>6. CASE SearchReads
  <2>1. states' = [states EXCEPT ![tried + 1] = 0] /\ strays' = strays
    BY <1>6 DEF SearchReads, AfterRead
  <2>2. \A c \in Candidates : states'[c] = 0 \/ Then(states'[c], c)
    BY <1>0, <1>2, <2>1 DEF StatesThere
  <2>3. states' \in [Candidates -> Nat]
    BY <1>0, <2>1 DEF StatesThere
  <2> QED  BY <1>3, <1>4, <2>1, <2>2, <2>3
<1>7. CASE KilledSearching
  <2>1. /\ states' = states /\ UNCHANGED run
        /\ cut' = cut \union {<<run, tried + 1>>}
        /\ strays' \in {strays, strays \union {<<run, tried + 1>>}}
    BY <1>7 DEF KilledSearching
  <2>2. Then(run, tried + 1)
    BY <1>1, <2>1 DEF Then
  <2>3. \A c \in Candidates : states'[c] = 0 \/ Then(states'[c], c)
    BY <1>0, <1>2, <2>1, <2>2 DEF StatesThere
  <2>4. \A l \in strays' : Then(l[1], l[2])
    <3> SUFFICES ASSUME NEW l \in strays'  PROVE Then(l[1], l[2])
      OBVIOUS
    <3>1. CASE l \in strays
      BY <1>0, <1>2, <3>1 DEF StatesThere
    <3>2. CASE l = <<run, tried + 1>>
      BY <2>2, <3>2
    <3> QED  BY <2>1, <3>1, <3>2
  <2>5. states' \in [Candidates -> Nat]
    BY <1>0, <2>1 DEF StatesThere
  <2> QED  BY <1>3, <2>3, <2>4, <2>5
<1>8. CASE LateStates
  <2>1. PICK l \in strays : /\ strays' = strays \ {l}
                            /\ states' \in {states, [states EXCEPT ![l[2]] = l[1]]}
    BY <1>8 DEF LateStates
  <2>2. Killed(l[1], l[2]) /\ l[1] \in Nat /\ UNCHANGED <<run, doing, tried, cut>>
    BY <1>0, <1>8, <2>1 DEF LateStates, StatesThere, Killed
  <2>3. states' \in [Candidates -> Nat]
    BY <1>0, <2>1, <2>2 DEF StatesThere
  <2>4. ASSUME NEW c \in Candidates
        PROVE  \/ states'[c] = 0 \/ Then(states'[c], c)
               \/ doing' = "searched" /\ c = tried' + 1 /\ states'[c] = run'
    <3>1. CASE states'[c] = states[c]
      BY <1>0, <1>2, <2>2, <3>1 DEF StatesThere
    <3>2. CASE c = l[2] /\ states'[c] = l[1]
      BY <1>2, <2>2, <3>2
    <3> QED  BY <1>0, <2>1, <3>1, <3>2 DEF StatesThere
  <2>5. \A k \in strays' : Then(k[1], k[2])
    BY <1>0, <1>2, <2>1 DEF StatesThere
  <2> QED  BY <1>3, <2>3, <2>4, <2>5
<1>9. CASE UNCHANGED <<states, strays>> /\ (doing # "searched" \/ UNCHANGED <<doing, run, tried>>)
  <2>1. /\ states' \in [Candidates -> Nat]
        /\ \A c \in Candidates :
             \/ states'[c] = 0 \/ Then(states'[c], c)
             \/ doing' = "searched" /\ c = tried' + 1 /\ states'[c] = run'
    BY <1>0, <1>2, <1>9 DEF StatesThere
  <2> QED  BY <1>3, <1>4, <1>9, <2>1
<1>10. CASE Finish /\ Emptied
  <2>1. strays' = strays /\ states' = [c \in Candidates |-> 0]
    BY <1>10 DEF Finish, Emptied
  <2>2. states' \in [Candidates -> Nat] /\ \A c \in Candidates : states'[c] = 0
    BY <2>1
  <2> QED  BY <1>3, <1>4, <2>1, <2>2
<1> QED
  BY <1>5, <1>6, <1>7, <1>8, <1>9, <1>10 DEF RerunNext, rerunVars, Start, Prepare, Stops, Elaborate,
     SearchEnds, Simulate, KilledSimulating, OrphanWrites, WriteInitialBlocks, BeginRound, RunBlock,
     NextRound, Finish

\* The elaborated design on disk is of a run since the last removal.
LEMMA ElaboratedKept ==
  ASSUME RerunInv, [RerunNext]_rerunVars  PROVE ElaboratedThere'
<1>0. Counters /\ ElaboratedThere
  BY DEF RerunInv, RerunTypes
<1>1. CASE Elaborate
  BY <1>0, <1>1 DEF Elaborate, ElaboratedThere, OnDisk, Counters, asked, history
<1>2. CASE elaborated' = elaborated
  BY <1>0, <1>2, DiskKept DEF ElaboratedThere, Emptied
<1>3. CASE elaborated' = 0
  BY <1>3 DEF ElaboratedThere
<1> QED
  BY <1>1, <1>2, <1>3 DEF RerunNext, rerunVars, disk, Emptied, Start, Prepare, Stops, SearchRuns,
     SearchReads, SearchEnds, KilledSearching, LateStates, Simulate, KilledSimulating,
     OrphanWrites, WriteInitialBlocks, BeginRound, RunBlock, NextRound, Finish

\* A new waveform is of this run.
LEMMA WaveWritten ==
  ASSUME Counters, WavesThere, NEW i \in Indices, NEW w \in [run : Nat, whole : BOOLEAN],
         w # Nothing => OnDisk(w.run), vcd' = [vcd EXCEPT ![i] = w],
         UNCHANGED <<run, removed>>
  PROVE  WavesThere'
<1>1. vcd' \in [Indices -> [run : Nat, whole : BOOLEAN]]
  BY DEF WavesThere
<1>2. ASSUME NEW j \in Indices, vcd'[j] # Nothing  PROVE OnDisk(vcd'[j].run)
  BY <1>2 DEF WavesThere
<1> QED  BY <1>1, <1>2 DEF WavesThere, OnDisk, Indices, Nothing

\* So is every waveform.
LEMMA WavesKept ==
  ASSUME RerunInv, [RerunNext]_rerunVars  PROVE WavesThere'
<1>0. Counters /\ WavesThere
  BY DEF RerunInv, RerunTypes
<1>1. CASE Simulate
  <2>1. simulated + 1 \in Indices /\ removed < run /\ run \in Nat
    <3>1. doing = "simulate" /\ simulated < traces
      BY <1>1 DEF Simulate
    <3> QED  BY <1>0, <3>1, RerunBounds DEF Counters, Indices
  <2>2. PICK outcome \in Outcomes : \E after \in Writes(outcome, vcd[simulated + 1]) :
          vcd' = [vcd EXCEPT ![simulated + 1] = after]
    BY <1>1 DEF Simulate
  <2>3. PICK after \in Writes(outcome, vcd[simulated + 1]) :
          vcd' = [vcd EXCEPT ![simulated + 1] = after]
    BY <2>2
  <2>4. after = vcd[simulated + 1] \/ after \in [run : {run}, whole : BOOLEAN]
    <3>1. CASE outcome = "ok"
      <4>1. after = [run |-> run, whole |-> TRUE]
        BY <2>3, <3>1 DEF Writes
      <4> QED  BY <4>1
    <3>2. CASE outcome # "ok"
      BY <2>3, <3>2 DEF Writes
    <3> QED  BY <3>1, <3>2
  <2>5. /\ after \in [run : Nat, whole : BOOLEAN]
        /\ after # Nothing => OnDisk(after.run)
    BY <1>0, <2>1, <2>4 DEF WavesThere, OnDisk
  <2> QED  BY <1>0, <1>1, <2>1, <2>3, <2>5, WaveWritten DEF Simulate
<1>2. CASE KilledSimulating
  <2>1. simulated + 1 \in Indices /\ removed < run /\ run \in Nat
    <3>1. doing = "simulate" /\ simulated < traces
      BY <1>2 DEF KilledSimulating
    <3> QED  BY <1>0, <3>1, RerunBounds DEF Counters, Indices
  <2> DEFINE w == [run |-> run, whole |-> FALSE]
  <2>2. vcd' = [vcd EXCEPT ![simulated + 1] = w] /\ UNCHANGED <<run, removed>>
    BY <1>2 DEF KilledSimulating
  <2>3. w \in [run : Nat, whole : BOOLEAN] /\ OnDisk(w.run)
    BY <2>1 DEF OnDisk
  <2> HIDE DEF w
  <2> QED  BY <1>0, <2>1, <2>2, <2>3, WaveWritten
<1>3. CASE OrphanWrites
  <2>1. PICK o \in orphans : vcd' = [vcd EXCEPT ![o].whole = FALSE]
    BY <1>3 DEF OrphanWrites
  <2>2. o \in Indices /\ UNCHANGED <<run, removed>>
    BY <1>0, <1>3 DEF OrphanWrites, Counters, asked
  <2> DEFINE w == [vcd[o] EXCEPT !.whole = FALSE]
  <2>3. vcd' = [vcd EXCEPT ![o] = w]
    BY <2>1
  <2>4. vcd[o] \in [run : Nat, whole : BOOLEAN]
    BY <1>0, <2>2 DEF WavesThere
  <2>5. w \in [run : Nat, whole : BOOLEAN] /\ w.run = vcd[o].run
    BY <2>4
  <2>6. w # Nothing => vcd[o] # Nothing
    <3> SUFFICES ASSUME vcd[o] = Nothing  PROVE w = Nothing
      OBVIOUS
    <3>1. w = [Nothing EXCEPT !.whole = FALSE]
      OBVIOUS
    <3> HIDE DEF w
    <3> QED  BY <3>1 DEF Nothing
  <2> HIDE DEF w
  <2> QED  BY <1>0, <2>2, <2>3, <2>5, <2>6, WaveWritten DEF WavesThere
<1>4. CASE vcd' = vcd
  BY <1>0, <1>4, DiskKept DEF WavesThere, Indices, Nothing, Emptied
<1>5. CASE Emptied
  BY <1>5 DEF WavesThere, Indices, Nothing, Emptied
<1> QED
  BY <1>1, <1>2, <1>3, <1>4, <1>5 DEF RerunNext, rerunVars, disk, Start, Prepare, Stops, Elaborate,
     SearchRuns, SearchReads, SearchEnds, KilledSearching, LateStates, WriteInitialBlocks,
     BeginRound, RunBlock, NextRound, Finish

\* So is every block file.
LEMMA FilesKept ==
  ASSUME RerunInv, [RerunNext]_rerunVars  PROVE FilesThere'
<1>0. Counters /\ FilesThere
  BY DEF RerunInv, RerunTypes
<1>1. CASE WriteInitialBlocks
  <2>1. PICK n \in Names : files' = Written(n)
    BY <1>1 DEF WriteInitialBlocks
  <2>2. removed < run /\ run \in Nat /\ UNCHANGED <<run, removed>>
    BY <1>0, <1>1 DEF WriteInitialBlocks, Counters, asked, history
  <2> QED  BY <1>0, <2>1, <2>2 DEF FilesThere, Written, Names, OnDisk
<1>2. CASE NextRound
  <2>1. PICK n \in Names : files' = Rewritten(n)
    BY <1>2 DEF NextRound
  <2>2. removed < run /\ run \in Nat /\ UNCHANGED <<run, removed>>
    BY <1>0, <1>2 DEF NextRound, Counters, asked, history
  <2> QED  BY <1>0, <2>1, <2>2 DEF FilesThere, Rewritten, Names, OnDisk
<1>3. CASE files' = files
  BY <1>0, <1>3, DiskKept DEF FilesThere, Names, Emptied
<1>4. CASE Emptied
  BY <1>4 DEF FilesThere, Names, Emptied
<1> QED
  BY <1>1, <1>2, <1>3, <1>4 DEF RerunNext, rerunVars, disk, Start, Prepare, Stops, Elaborate,
     SearchRuns, SearchReads, SearchEnds, KilledSearching, LateStates, Simulate, KilledSimulating,
     OrphanWrites, BeginRound, RunBlock, Finish

\* So is every counterexample, and its block is known to have left it.
LEMMA ScratchKept ==
  ASSUME RerunInv, [RerunNext]_rerunVars  PROVE ScratchThere'
<1>0. Counters /\ ScratchThere
  BY DEF RerunInv, RerunTypes
<1>1. CASE RunBlock
  <2>0. OnDisk(run)
    <3>1. removed < run /\ run \in Nat
      BY <1>0, <1>1 DEF RunBlock, Counters
    <3> QED  BY <3>1 DEF OnDisk
  <2> DEFINE c == blockCounter + 1
  <2>1. /\ c \in Cores /\ removed < run /\ run \in Nat
        /\ UNCHANGED <<run, removed>>
    BY <1>0, <1>1 DEF RunBlock, Counters, asked
  <2>2. PICK ended \in {"at its end", "on the way"} :
          /\ scratch' = [scratch EXCEPT ![c] = ScratchLeft(ended)]
          /\ lost' = IF ended = "on the way" THEN lost \union {<<run, c>>} ELSE lost
    BY <1>1 DEF RunBlock
  <2>3. CASE ended = "at its end"
    BY <1>0, <2>1, <2>2, <2>3 DEF ScratchThere, ScratchLeft, OnDisk, Cores
  <2>4. CASE ended = "on the way"
    <3> HIDE DEF c
    <3>1. scratch' = [scratch EXCEPT ![c] = scratch[c] \union {run}]
      BY <2>2, <2>4 DEF ScratchLeft, c
    <3>2. lost' = lost \union {<<run, c>>}
      BY <2>2, <2>4
    <3>3. scratch' \in [Cores -> SUBSET Nat]
      BY <1>0, <2>1, <3>1 DEF ScratchThere
    <3>4. ASSUME NEW d \in Cores, NEW r \in scratch'[d]
          PROVE  OnDisk(r) /\ <<r, d>> \in lost'
      <4>1. r \in scratch[d] \/ (d = c /\ r = run)
        BY <1>0, <2>1, <3>1 DEF ScratchThere
      <4>2. CASE r \in scratch[d]
        BY <1>0, <3>2, <4>2 DEF ScratchThere
      <4>3. CASE d = c /\ r = run
        <5>1. OnDisk(r)
          BY <2>0, <4>3
        <5>2. <<r, d>> \in lost'
          BY <3>2, <4>3
        <5> QED  BY <5>1, <5>2
      <4> QED  BY <4>1, <4>2, <4>3
    <3> QED  BY <2>1, <3>3, <3>4 DEF ScratchThere, OnDisk, Cores
  <2> QED  BY <2>3, <2>4
<1>2. CASE scratch' = scratch /\ lost' = lost
  BY <1>0, <1>2, DiskKept DEF ScratchThere, Cores, Emptied
<1>3. CASE Emptied
  BY <1>3 DEF ScratchThere, Cores, Emptied
<1> QED
  BY <1>1, <1>2, <1>3 DEF RerunNext, rerunVars, disk, history, Start, Prepare, Stops, Elaborate,
     SearchRuns, SearchReads, SearchEnds, KilledSearching, LateStates, Simulate, KilledSimulating,
     OrphanWrites, WriteInitialBlocks, BeginRound, NextRound, Finish

\* All of it.
LEMMA TypesKept ==
  ASSUME RerunInv, [RerunNext]_rerunVars  PROVE RerunTypes'
BY CountersKept, SourcesKept, ElaboratedKept, WavesKept, FilesKept, ScratchKept, StatesKept
   DEF RerunTypes

-----------------------------------------------------------------------------
\* The rest of the invariant.

\* Once prepared, a run keeps its sources.
LEMMA PreparedKept ==
  ASSUME RerunInv, [RerunNext]_rerunVars  PROVE Prepared'
<1>0. Counters /\ Prepared
  BY DEF RerunInv, RerunTypes
<1>1. CASE doing' \in {"idle", "prepare"}
  BY <1>1 DEF Prepared
<1>2. CASE Prepare
  <2>1. PICK written : /\ sources' = [f \in Sources |-> IF f \in written THEN run ELSE sources[f]]
                       /\ (written = design /\ UNCHANGED memory) \/ Ended
    BY <1>2 DEF Prepare
  <2>2. Ended \/ \A f \in design' : sources'[f] = run'
    BY <1>0, <1>2, <2>1 DEF Prepare, memory, Counters
  <2> QED  BY <2>2 DEF Ended, Prepared
<1>3. CASE doing \notin {"idle", "prepare"} /\ UNCHANGED <<run, design, sources>>
  BY <1>0, <1>3 DEF Prepared
<1>4. CASE doing' = doing /\ UNCHANGED <<run, design, sources>>
  BY <1>0, <1>4 DEF Prepared
<1> QED
  BY <1>1, <1>2, <1>3, <1>4 DEF RerunNext, rerunVars, asked, disk, Ended, Start, Stops, Elaborate,
     SearchRuns, SearchReads, SearchEnds, KilledSearching, LateStates, Simulate, KilledSimulating,
     OrphanWrites, WriteInitialBlocks, BeginRound, RunBlock, NextRound, Finish

\* A waveform asked for is the run's own, or no simulator vouches for it.
LEMMA SimulatingKept ==
  ASSUME RerunInv, [RerunNext]_rerunVars  PROVE Simulating'
<1>0. Counters /\ WavesThere /\ Simulating
  BY DEF RerunInv, RerunTypes
<1> USE DEF asked, counters, memory, disk, history
<1>1. CASE Ended
  BY <1>1 DEF Ended, Simulating, Early
<1>2. CASE doing \in Early /\ doing' \in Early \union {"simulate"} /\ UNCHANGED <<round, simulated>>
           /\ traces' \in Nat
  BY <1>0, <1>2 DEF Simulating, Early
<1>3. CASE Simulate /\ ~ Ended
  <2>1. /\ doing = "simulate" /\ round = 0 /\ simulated \in Nat /\ simulated < traces
        /\ simulated + 1 \in Indices /\ traces \in Nat
        /\ \A i \in 1 .. simulated : i \in Indices /\ (vcd[i] = Own \/ i \in excused)
        /\ UNCHANGED run
    BY <1>0, <1>3, RerunBounds DEF Simulate, Simulating, Counters, Indices
  <2> DEFINE Step(outcome, after) ==
        /\ vcd' = [vcd EXCEPT ![simulated + 1] = after]
        /\ Succeeded(outcome)
        /\ simulated' = simulated + 1
        /\ excused' = IF outcome \in {"silent", "unwaited"}
                      THEN excused \union {simulated + 1} ELSE excused
        /\ UNCHANGED <<doing, design, traces, tried, round, queue, blockCounter>>
  <2>0. PICK outcome \in Outcomes : \E after \in Writes(outcome, vcd[simulated + 1]) :
          Step(outcome, after)
    BY <1>3 DEF Simulate
  <2>2. PICK after \in Writes(outcome, vcd[simulated + 1]) : Step(outcome, after)
    BY <2>0
  <2>3. outcome = "ok" => after = Own
    BY <2>2 DEF Writes, Own
  <2>4. outcome = "ok" \/ simulated + 1 \in excused'
    BY <2>2 DEF Succeeded
  <2>5. excused \subseteq excused' /\ Own' = Own
    BY <2>1, <2>2 DEF Own
  <2>6. ASSUME NEW i \in 1 .. simulated'  PROVE vcd'[i] = Own' \/ i \in excused'
    <3>1. CASE i = simulated + 1
      BY <1>0, <2>1, <2>2, <2>3, <2>4, <2>5, <3>1 DEF WavesThere
    <3>2. CASE i # simulated + 1
      <4>1. i \in 1 .. simulated
        BY <2>1, <2>2, <3>2
      <4>2. vcd'[i] = vcd[i]
        BY <1>0, <2>1, <2>2, <3>2, <4>1 DEF WavesThere
      <4> QED  BY <2>1, <2>5, <4>1, <4>2
    <3> QED  BY <3>1, <3>2
  <2> QED  BY <2>1, <2>2, <2>6 DEF Simulating, Early
<1>4. CASE OrphanWrites
  <2>1. PICK o \in orphans : /\ vcd' = [vcd EXCEPT ![o].whole = FALSE]
                             /\ excused' = excused \union {o}
    BY <1>4 DEF OrphanWrites
  <2>2. UNCHANGED <<run, doing, traces, simulated, round>>
    BY <1>4 DEF OrphanWrites
  <2>3. ASSUME NEW i, vcd[i] = Own \/ i \in excused
        PROVE  vcd'[i] = Own' \/ i \in excused'
    <3>1. i = o \/ vcd'[i] = vcd[i]
      BY <1>0, <2>1 DEF WavesThere
    <3>2. Own' = Own
      BY <2>2 DEF Own
    <3> QED  BY <2>1, <2>3, <3>1, <3>2
  <2> QED  BY <1>0, <2>2, <2>3 DEF Simulating
<1>5. CASE /\ UNCHANGED <<run, traces, simulated, vcd, excused>>
           /\ \/ UNCHANGED <<doing, round>>
              \/ doing = "simulate" /\ simulated = traces /\ doing' = "rounds"
              \/ doing \in {"rounds", "blocks"} /\ doing' \in {"rounds", "blocks"}
  BY <1>0, <1>5 DEF Simulating, Own, Early
<1>6. CASE Start
  <2>1. traces' \in Nat
    BY <1>6, RerunBounds DEF Start, Indices
  <2> QED  BY <1>2, <1>6, <2>1 DEF Start, Early
<1>7. CASE Prepare /\ ~ Ended
  BY <1>0, <1>2, <1>7 DEF Prepare, Early, Counters
<1>8. CASE Elaborate \/ SearchRuns \/ SearchReads \/ SearchEnds
  BY <1>0, <1>2, <1>8 DEF Elaborate, SearchRuns, SearchReads, SearchEnds, Early, Counters
<1>9. CASE LateStates \/ WriteInitialBlocks \/ BeginRound \/ RunBlock \/ NextRound
           \/ UNCHANGED rerunVars
  BY <1>5, <1>9 DEF LateStates, WriteInitialBlocks, BeginRound, RunBlock, NextRound, rerunVars
<1> QED
  BY <1>1, <1>3, <1>4, <1>6, <1>7, <1>8, <1>9 DEF RerunNext, Prepare, Stops, KilledSearching,
     Simulate, KilledSimulating, Finish

\* The first round may run old block files, later ones do not.
LEMMA BlocksKept ==
  ASSUME RerunInv, [RerunNext]_rerunVars  PROVE Blocks'
<1>0. Counters /\ Simulating /\ Blocks
  BY DEF RerunInv, RerunTypes
<1> USE DEF asked, counters, memory, disk
<1>1. CASE doing' \notin {"rounds", "blocks"}
  BY <1>1 DEF Blocks
<1>2. CASE WriteInitialBlocks
  BY <1>0, <1>2 DEF WriteInitialBlocks, Simulating, Blocks
<1>3. CASE BeginRound
  BY <1>0, <1>3 DEF BeginRound, Blocks, Present, Counters, disk
<1>4. CASE RunBlock
  <2>1. queue' \subseteq queue /\ UNCHANGED <<run, doing, round, files>>
    BY <1>4 DEF RunBlock
  <2> QED  BY <1>0, <2>1 DEF Blocks, Present
<1>5. CASE NextRound
  <2>1. PICK n \in Names : files' = Rewritten(n)
    BY <1>5 DEF NextRound
  <2>2. doing' = "rounds" /\ UNCHANGED <<run, round>>
    BY <1>5 DEF NextRound
  <2> QED  BY <2>1, <2>2 DEF Blocks, Rewritten
<1>6. CASE UNCHANGED <<run, doing, round, queue, files>>
  BY <1>0, <1>6 DEF Blocks, Present
<1> QED
  BY <1>1, <1>2, <1>3, <1>4, <1>5, <1>6 DEF RerunNext, rerunVars, Ended, Start, Prepare, Stops,
     Elaborate, SearchRuns, SearchReads, SearchEnds, KilledSearching, LateStates, Simulate,
     KilledSimulating, OrphanWrites, Finish

\* What is explained when a step reads it is so after the step.
LEMMA ExplainedStays ==
  ASSUME UNCHANGED <<run, design, traces, excused, cut, removed>>, lost \subseteq lost',
         NEW s, Explained(s)
  PROVE  Explained(s)'
BY DEF Explained

\* A foreign waveform has an index beyond the traces, or is excused.
LEMMA WaveformsExplained ==
  ASSUME RerunInv, doing \in {"simulate", "blocks"}, simulated = traces,
         NEW s \in OldWaveforms
  PROVE  Explained(s)
<1>0. Counters /\ WavesThere /\ Simulating
  BY DEF RerunInv, RerunTypes
<1>1. PICK i \in Indices : Exists(i) /\ vcd[i].run # run /\ s = Old("waveform", vcd[i].run, i)
  BY DEF OldWaveforms
<1>2. s.what = "waveform" /\ s.from = vcd[i].run /\ s.key = i
  BY <1>1 DEF Old
<1>3. removed < s.from /\ s.from < run
  <2>1. OnDisk(vcd[i].run) /\ vcd[i].run \in Nat
    BY <1>0, <1>1 DEF WavesThere, Exists
  <2> QED  BY <1>0, <1>1, <1>2, <2>1 DEF OnDisk, Counters
<1>4. s.key > traces \/ s.key \in excused
  <2> SUFFICES ASSUME ~ (i > traces)  PROVE i \in excused
    BY <1>2
  <2>1. i \in 1 .. simulated
    BY <1>0, RerunBounds DEF Counters, Indices
  <2> QED  BY <1>0, <1>1, <2>1 DEF Simulating, Own
<1> QED  BY <1>2, <1>3, <1>4 DEF Explained

\* What a block reads that is not its run's.
LEMMA BlockReadsExplained ==
  ASSUME RerunInv, doing = "blocks", NEW name \in queue, blockCounter + 1 \in Cores,
         NEW s \in OldReads(name)
  PROVE  Explained(s)
<1>0. Counters /\ SourcesThere /\ FilesThere /\ ScratchThere /\ Prepared /\ Simulating /\ Blocks
  BY DEF RerunInv, RerunTypes
<1>1. CASE s \in OldWaveforms
  BY <1>0, <1>1, WaveformsExplained DEF Simulating
<1>2. CASE files[name] # run /\ s = Old("block file", files[name], name)
  <2>1. s.what = "block file" /\ s.from = files[name] /\ s.round = round
    BY <1>2 DEF Old
  <2>2. name \in Names /\ files[name] # 0 /\ files[name] \in Nat /\ OnDisk(files[name])
    BY <1>0 DEF Blocks, Present, FilesThere
  <2>3. ~ (round > 1) /\ round >= 1
    BY <1>0, <1>2, <2>2 DEF Blocks
  <2>4. round = 1
    BY <1>0, <2>3 DEF Counters
  <2>5. removed < files[name] /\ files[name] < run
    <3>1. files[name] # run /\ run \in Nat /\ removed \in Nat
      BY <1>0, <1>2 DEF Counters
    <3>2. removed < files[name] /\ files[name] <= run
      BY <2>2 DEF OnDisk
    <3> QED  BY <2>2, <3>1, <3>2
  <2> QED  BY <2>1, <2>4, <2>5 DEF Explained
<1>3. ASSUME NEW r \in scratch[blockCounter + 1] \ {run},
             s = Old("scratch", r, blockCounter + 1)
      PROVE  Explained(s)
  <2>1. s.what = "scratch" /\ s.from = r /\ s.key = blockCounter + 1
    BY <1>3 DEF Old
  <2>2. r \in Nat /\ OnDisk(r) /\ <<r, blockCounter + 1>> \in lost
    BY <1>0 DEF ScratchThere
  <2>3. removed < r /\ r < run
    BY <1>0, <2>2 DEF Counters, OnDisk
  <2> QED  BY <2>1, <2>2, <2>3 DEF Explained
<1>4. ASSUME NEW f \in Sources, sources[f] \notin {0, run}, s = Old("source", sources[f], f)
      PROVE  Explained(s)
  <2>1. s.what = "source" /\ s.from = sources[f] /\ s.key = f
    BY <1>4 DEF Old
  <2>2. f \notin design
    BY <1>0, <1>4 DEF Prepared
  <2>3. removed < sources[f] /\ sources[f] < run
    <3>1. OnDisk(sources[f]) /\ sources[f] \in Nat
      BY <1>0, <1>4 DEF SourcesThere
    <3> QED  BY <1>0, <1>4, <3>1 DEF OnDisk, Counters
  <2> QED  BY <2>1, <2>2, <2>3 DEF Explained
<1> QED
  <2>1. \/ s \in OldWaveforms
        \/ \E f \in Sources : sources[f] \notin {0, run} /\ s = Old("source", sources[f], f)
        \/ files[name] # run /\ s = Old("block file", files[name], name)
        \/ \E r \in scratch[blockCounter + 1] \ {run} : s = Old("scratch", r, blockCounter + 1)
    BY DEF OldReads
  <2> QED  BY <1>1, <1>2, <1>3, <1>4, <2>1

\* The states a search reads that are not its run's are of a search that was killed.
LEMMA SearchReadsExplained ==
  ASSUME RerunInv, doing = "searched", states[tried + 1] \notin {0, run}
  PROVE  Explained(Old("states", states[tried + 1], tried + 1))
<1>1. Counters /\ StatesThere /\ tried + 1 \in Candidates
  BY DEF RerunInv, RerunTypes, Counters
<1>2. Killed(states[tried + 1], tried + 1)
  BY <1>1 DEF StatesThere
<1>3. states[tried + 1] < run
  BY <1>1, <1>2 DEF Killed, Counters
<1> QED  BY <1>2, <1>3 DEF Explained, Killed, Old

\* Every read is explained.
LEMMA StaleKept ==
  ASSUME RerunInv, [RerunNext]_rerunVars  PROVE StaleReadsExplained'
<1>0. Counters /\ ElaboratedThere /\ Simulating /\ \A s \in stale : Explained(s)
  BY ReadsExplained DEF RerunInv, RerunTypes
<1> USE DEF asked, history
<1>1. CASE stale' = {}
  BY <1>1 DEF StaleReadsExplained
<1>2. CASE Elaborate
  <2> DEFINE e == Old("elaboration", elaborated, 1)
  <2>1. stale' = {} \/ (elaborated \notin {0, run} /\ stale' = {e})
    BY <1>2 DEF Elaborate
  <2>2. e.what = "elaboration" /\ e.from = elaborated /\ e.round = 0
    BY <1>0, <1>2 DEF Elaborate, Simulating, Early, Old
  <2> HIDE DEF e
  <2>3. elaborated \notin {0, run} => Explained(e)
    <3>1. elaborated \notin {0, run} => removed < elaborated /\ elaborated < run
      BY <1>0 DEF ElaboratedThere, OnDisk, Counters
    <3> QED  BY <2>2, <3>1 DEF Explained
  <2>4. \A s \in stale' : Explained(s)
    BY <2>1, <2>3
  <2>5. UNCHANGED <<run, design, traces, excused, cut, removed, lost>>
    BY <1>2 DEF Elaborate
  <2>6. \A s \in stale' : Explained(s)'
    BY <2>4, <2>5, ExplainedStays
  <2> QED  BY <2>6 DEF StaleReadsExplained, Explained
<1>3. CASE SearchReads
  <2>1. \A s \in stale' : Explained(s)
    BY <1>3, SearchReadsExplained DEF SearchReads
  <2>2. UNCHANGED <<run, design, traces, excused, cut, removed, lost>>
    BY <1>3 DEF SearchReads
  <2>3. \A s \in stale' : Explained(s)'
    BY <2>1, <2>2, ExplainedStays
  <2> QED  BY <2>3 DEF StaleReadsExplained, Explained
<1>4. CASE WriteInitialBlocks
  <2>1. \A s \in stale' : Explained(s)
    BY <1>4, WaveformsExplained DEF WriteInitialBlocks
  <2>2. UNCHANGED <<run, design, traces, excused, cut, removed, lost>>
    BY <1>4 DEF WriteInitialBlocks
  <2>3. \A s \in stale' : Explained(s)'
    BY <2>1, <2>2, ExplainedStays
  <2> QED  BY <2>3 DEF StaleReadsExplained, Explained
<1>5. CASE RunBlock
  <2>1. PICK name \in queue : stale' = OldReads(name)
    BY <1>5 DEF RunBlock
  <2>2. doing = "blocks" /\ blockCounter + 1 \in Cores
    BY <1>5 DEF RunBlock
  <2>3. \A s \in stale' : Explained(s)
    BY <2>1, <2>2, BlockReadsExplained
  <2>4. UNCHANGED <<run, design, traces, excused, cut, removed>> /\ lost \subseteq lost'
    BY <1>5 DEF RunBlock
  <2>5. \A s \in stale' : Explained(s)'
    BY <2>3, <2>4, ExplainedStays
  <2> QED  BY <2>5 DEF StaleReadsExplained, Explained
<1>6. CASE UNCHANGED rerunVars
  <2>1. UNCHANGED <<run, design, traces, excused, cut, removed, lost, stale>>
    BY <1>6 DEF rerunVars
  <2>2. \A s \in stale' : Explained(s)'
    BY <1>0, <2>1, ExplainedStays
  <2> QED  BY <2>2 DEF StaleReadsExplained, Explained
<1> QED
  BY <1>1, <1>2, <1>3, <1>4, <1>5, <1>6 DEF RerunNext, Start, Prepare, Stops, SearchRuns,
     SearchEnds, KilledSearching, LateStates, Simulate, KilledSimulating, OrphanWrites,
     BeginRound, NextRound, Finish

\* The invariant is inductive.
LEMMA RerunInvNext ==
  RerunInv /\ [RerunNext]_rerunVars => RerunInv'
BY TypesKept, PreparedKept, SimulatingKept, BlocksKept, StaleKept DEF RerunInv

\* What several runs in one directory leave there and read.
THEOREM RerunInvariant == RerunSpec => []RerunInv
BY RerunInvInit, RerunInvNext, PTL DEF RerunSpec

\* Whatever the number of runs, of design files, of traces and of blocks: what a run
\* reads that an earlier one wrote (WorkDir.cpp: create empties nothing) it has not
\* written over, for the reasons StaleReadsExplained gives for each of the six kinds
\* of file Rerun models; and but for the states of a search that was killed, nothing
\* outlives a removal of the directory.
THEOREM ReadsSound == RerunSpec => []StaleReadsExplained
<1>1. RerunInv => StaleReadsExplained
  BY DEF RerunInv
<1> QED  BY <1>1, RerunInvariant, PTL

\* The traces a run mines from are its own, whole ones (Pipeline.cpp: simulate, with
\* the exceptions TracesAreItsOwn names).
THEOREM TracesSound == RerunSpec => []TracesAreItsOwn
<1>1. RerunInv => TracesAreItsOwn
  BY DEF RerunInv, Simulating, TracesAreItsOwn, Own
<1> QED  BY <1>1, RerunInvariant, PTL

-----------------------------------------------------------------------------
(* Mus.                                                                    *)

\* What a definition means depends on the file alone.
LEMMA FileMeaning ==
  ASSUME file' = file
  PROVE  /\ TermLines' = TermLines
         /\ Opaque' = Opaque
         /\ Valuations' = Valuations
         /\ \A S : Models(S)' = Models(S)
         /\ Groups(TermLines)' = Groups(TermLines)
<1>1. TermLines' = TermLines
  BY DEF TermLines, Lines, IsTerm
<1>2. Opaque' = Opaque
  BY DEF Opaque, Lines
<1>3. Valuations' = Valuations
  BY <1>1 DEF Valuations, FreeOf, Free
<1>4. \A S : Models(S)' = Models(S)
  BY <1>3 DEF Models
<1>5. Groups(TermLines)' = Groups(TermLines)
  BY <1>1 DEF Groups, Closed, Shares, Free
<1>6. QED  BY <1>1, <1>2, <1>3, <1>4, <1>5

\* Nor do the questions asked of the solver change.
LEMMA EnoughKept ==
  ASSUME file' = file, NEW S, NEW Q
  PROVE  Enough(S, Q)' = Enough(S, Q)
BY DEF Enough, FreeOf, Free

\* Nor the variables of a set of definitions.
LEMMA FreeKept ==
  ASSUME file' = file, NEW S
  PROVE  FreeOf(S)' = FreeOf(S)
BY DEF FreeOf, Free

-----------------------------------------------------------------------------
(* minimiseAssertions.                                                      *)

\* While no check has thrown, the solver has no scope open but its first, and
\* what is kept implies every definition that can be read.
KeptImpliesAll ==
  job = "minimise" =>
    /\ musAt \in {"start", "try", "done"}
    /\ musAt = "try" /\ ~threw =>
         /\ scope = Valuations
         /\ kept \subseteq TermLines
         /\ Models(kept) \subseteq Models(TermLines)
    /\ WrittenImpliesAll

\* A line is a term or opaque, not both.
LEMMA KindsOfLines == /\ TermLines \intersect Opaque = {}
                      /\ Definitions \intersect TermLines = TermLines
                      /\ Opaque \subseteq Definitions
BY DEF TermLines, Opaque, Definitions, IsTerm

\* The strengthened invariant of the minimiser.
LEMMA KeptImpliesAllHolds == MusSpec => []KeptImpliesAll
<1>1. MusInit => KeptImpliesAll
  BY DEF MusInit, KeptImpliesAll, WrittenImpliesAll
<1>2. KeptImpliesAll /\ [MusNext]_musVars => KeptImpliesAll'
  <2> SUFFICES ASSUME KeptImpliesAll, [MusNext]_musVars, job = "minimise", job' = job, file' = file
               PROVE  KeptImpliesAll'
    BY DEF musVars, MusNext, StartMinimise, TryDrop, WriteKept, StartMsa, NextGroup, Check,
           Extend, Report, KeptImpliesAll
  <2> USE FileMeaning
  <2>1. CASE StartMinimise
    <3>1. CASE Cardinality(Definitions) =< 1
      BY <2>1, <3>1, KindsOfLines DEF StartMinimise, Goto, KeptImpliesAll, WrittenImpliesAll
    <3>2. CASE ~ (Cardinality(Definitions) =< 1)
      BY <2>1, <3>2 DEF StartMinimise, Goto, KeptImpliesAll, WrittenImpliesAll
    <3> QED  BY <3>1, <3>2
  <2>2. CASE TryDrop
    <3> SUFFICES ASSUME ~threw'
                 PROVE  /\ scope' = Valuations
                        /\ kept' \subseteq TermLines
                        /\ Models(kept') \subseteq Models(TermLines)
      BY <2>2 DEF TryDrop, KeptImpliesAll, WrittenImpliesAll, search
    <3>1. /\ scope = Valuations /\ kept \subseteq TermLines
          /\ Models(kept) \subseteq Models(TermLines)
      BY <2>2 DEF TryDrop, KeptImpliesAll
    <3>2. CASE Against(Cheapest) = {} /\ kept' = kept \ {Cheapest} /\ UNCHANGED <<scope, threw>>
      <4>1. Models(Remaining(Cheapest)) \subseteq Models({Cheapest})
        BY <3>1, <3>2 DEF Against, Models
      <4>2. Models(Remaining(Cheapest)) \subseteq Models(kept)
        BY <4>1 DEF Models, Remaining
      <4> QED  BY <3>1, <3>2, <4>2 DEF Remaining
    <3>3. CASE UNCHANGED <<kept, scope, threw>>
      BY <3>1, <3>3
    <3> QED  BY <2>2, <3>2, <3>3 DEF TryDrop
  <2>3. CASE WriteKept
    BY <2>3, KindsOfLines DEF WriteKept, Goto, KeptImpliesAll, WrittenImpliesAll
  <2>4. CASE UNCHANGED musVars
    BY <2>4 DEF musVars, minimiser, search, KeptImpliesAll, WrittenImpliesAll
  <2>5. QED
    BY <2>1, <2>2, <2>3, <2>4 DEF MusNext, StartMsa, NextGroup, Check, Extend, Report, Goto,
       KeptImpliesAll
<1>3. QED  BY <1>1, <1>2, PTL DEF MusSpec

\* The definitions minimiseAssertions writes imply all it was given, unless a
\* check threw.
THEOREM MinimiserSound == MusSpec => []WrittenImpliesAll
<1>1. KeptImpliesAll => WrittenImpliesAll
  BY DEF KeptImpliesAll, WrittenImpliesAll
<1>2. QED  BY <1>1, KeptImpliesAllHolds, PTL

-----------------------------------------------------------------------------
(* independentGroups.                                                       *)

\* Sharing goes both ways.
LEMMA SharesBoth == \A i, j : Shares(i, j) <=> Shares(j, i)
BY DEF Shares

\* What all closed sets around an assertion have in common is a group.
LEMMA GroupAround ==
  ASSUME NEW S, NEW i \in S
  PROVE  \E g \in Groups(S) : i \in g
<1> DEFINE G == {j \in S : \A T \in Closed(S) : i \in T => j \in T}
<1>1. S \in Closed(S)
  BY DEF Closed
<1>2. i \in G
  OBVIOUS
<1>3. \A j \in G, k \in S \ G : ~ Shares(j, k)
  <2> SUFFICES ASSUME NEW j \in G, NEW k \in S \ G  PROVE ~ Shares(j, k)
    OBVIOUS
  <2>1. PICK T \in Closed(S) : i \in T /\ k \notin T
    OBVIOUS
  <2>2. j \in T
    BY <2>1
  <2> QED  BY <2>1, <2>2 DEF Closed
<1>4. G \in Closed(S)
  BY <1>2, <1>3 DEF Closed
<1>5. ASSUME NEW U \in Closed(S), U \subseteq G  PROVE U = G
  <2>1. CASE i \in U
    BY <2>1, <1>5
  <2>2. CASE i \notin U
    <3>1. U \subseteq S /\ U # {}
      BY DEF Closed
    <3>2. \A j \in S \ U, k \in S \ (S \ U) : ~ Shares(j, k)
      BY <3>1, SharesBoth DEF Closed
    <3>3. S \ U \in Closed(S)
      BY <2>2, <3>2 DEF Closed
    <3>4. G \subseteq S \ U
      BY <2>2, <3>3
    <3> QED  BY <1>5, <3>1, <3>4
  <2> QED  BY <2>1, <2>2
<1>6. G \in Groups(S)
  BY <1>4, <1>5 DEF Groups
<1> QED  BY <1>2, <1>6

\* Two groups have no variable in common.
LEMMA GroupsApart ==
  ASSUME NEW S, NEW g \in Groups(S), NEW h \in Groups(S), g # h
  PROVE  FreeOf(g) \intersect FreeOf(h) = {}
<1>1. g \in Closed(S) /\ h \in Closed(S)
  BY DEF Groups
<1>2. g \intersect h = {}
  <2> SUFFICES ASSUME g \intersect h # {}  PROVE FALSE
    OBVIOUS
  <2>1. \A i \in g \intersect h, j \in S \ (g \intersect h) : ~ Shares(i, j)
    BY <1>1 DEF Closed
  <2>2. g \intersect h \in Closed(S)
    BY <1>1, <2>1 DEF Closed
  <2>3. g \intersect h = g /\ g \intersect h = h
    BY <2>2 DEF Groups
  <2> QED  BY <2>3
<1>3. \A i \in g, j \in h : Free(i) \intersect Free(j) = {}
  BY <1>1, <1>2 DEF Closed, Shares
<1> QED  BY <1>3 DEF FreeOf

\* A group is part of what is grouped.
LEMMA GroupsWithin ==
  ASSUME NEW S, NEW g \in Groups(S)
  PROVE  g \subseteq S /\ FreeOf(g) \subseteq FreeOf(S)
BY DEF Groups, Closed, FreeOf

-----------------------------------------------------------------------------
(* getMus.                                                                  *)

\* Fixing more variables cannot hurt.
LEMMA EnoughMore ==
  ASSUME NEW S, NEW P, NEW Q, P \subseteq Q, Enough(S, Q)
  PROVE  Enough(S, P)
<1>1. PICK fixed \in [FreeOf(S) \ Q -> 0 .. 1] :
        \A e \in [FreeOf(S) -> 0 .. 1] :
          (\A v \in DOMAIN fixed : e[v] = fixed[v]) => \A i \in S : TrueIn(file[i], e)
  BY DEF Enough
<1> DEFINE more == [v \in FreeOf(S) \ P |-> IF v \in Q THEN 0 ELSE fixed[v]]
<1>2. more \in [FreeOf(S) \ P -> 0 .. 1]
  OBVIOUS
<1>3. ASSUME NEW e \in [FreeOf(S) -> 0 .. 1], \A v \in DOMAIN more : e[v] = more[v]
      PROVE  \A v \in DOMAIN fixed : e[v] = fixed[v]
  BY <1>3
<1>4. \A e \in [FreeOf(S) -> 0 .. 1] :
        (\A v \in DOMAIN more : e[v] = more[v]) => \A i \in S : TrueIn(file[i], e)
  BY <1>1, <1>3
<1> QED  BY <1>2, <1>4 DEF Enough

\* A term of the file means the same where only its own variables have values.
LEMMA OnlyItsOwn ==
  ASSUME file \in SygusResults, NEW e \in Valuations, NEW D \in SUBSET FreeOf(TermLines),
         NEW i \in TermLines, Free(i) \subseteq D
  PROVE  TrueIn(file[i], e) <=> TrueIn(file[i], [v \in D |-> e[v]])
<1>1. TermLines = {j \in DOMAIN file : IsTerm(file[j])}
  BY DEF TermLines, Lines
<1>2. NamesIn(file) = FreeOf(TermLines)
  BY <1>1 DEF NamesIn, FreeOf, Free
<1> QED  BY <1>1, <1>2, TermAssumption DEF Valuations, Free

\* When the assertions can all hold, fixing every variable of some is enough.
LEMMA EnoughWhenAllFixed ==
  ASSUME file \in SygusResults, Models(TermLines) # {},
         NEW S \in SUBSET TermLines, NEW Q, FreeOf(S) \intersect Q = {}
  PROVE  Enough(S, Q)
<1>1. PICK m \in Valuations : \A i \in TermLines : TrueIn(file[i], m)
  BY DEF Models
<1> DEFINE fixed == [v \in FreeOf(S) |-> m[v]]
<1>2. FreeOf(S) \subseteq FreeOf(TermLines)
  BY DEF FreeOf
<1>3. \A i \in S : TrueIn(file[i], fixed)
  BY <1>1, <1>2, OnlyItsOwn DEF FreeOf
<1>4. fixed \in [FreeOf(S) -> 0 .. 1]
  BY <1>2 DEF Valuations
<1>5. ASSUME NEW e \in [FreeOf(S) -> 0 .. 1], \A v \in DOMAIN fixed : e[v] = fixed[v]
      PROVE  e = fixed
  BY <1>5
<1>6. FreeOf(S) \ Q = FreeOf(S)
  OBVIOUS
<1>7. \A e \in [FreeOf(S) -> 0 .. 1] :
        (\A v \in DOMAIN fixed : e[v] = fixed[v]) => \A i \in S : TrueIn(file[i], e)
  BY <1>3, <1>5
<1> HIDE DEF fixed
<1> QED  BY <1>4, <1>6, <1>7 DEF Enough

\* What is enough for each group is enough for all.
LEMMA EnoughForAll ==
  ASSUME file \in SygusResults, NEW M,
         \A g \in Groups(TermLines) : Enough(g, FreeOf(g) \ M)
  PROVE  Enough(TermLines, Variables \ M)
<1> DEFINE All == FreeOf(TermLines)
           Good(g, f) == /\ f \in [FreeOf(g) \intersect M -> 0 .. 1]
                         /\ \A e \in [FreeOf(g) -> 0 .. 1] :
                              (\A v \in DOMAIN f : e[v] = f[v]) => \A i \in g : TrueIn(file[i], e)
           F == [g \in Groups(TermLines) |-> CHOOSE f : Good(g, f)]
           In(v) == CHOOSE g \in Groups(TermLines) : v \in FreeOf(g)
           fixed == [v \in All \intersect M |-> F[In(v)][v]]
<1>1. ASSUME NEW g \in Groups(TermLines)  PROVE Good(g, F[g])
  <2>1. FreeOf(g) \ (FreeOf(g) \ M) = FreeOf(g) \intersect M
    OBVIOUS
  <2>2. \E f : Good(g, f)
    BY <2>1 DEF Enough
  <2> QED  BY <2>2
<1>2. ASSUME NEW v \in All
      PROVE  In(v) \in Groups(TermLines) /\ v \in FreeOf(In(v))
  <2>1. PICK i \in TermLines : v \in Free(i)
    BY DEF FreeOf
  <2>2. PICK g \in Groups(TermLines) : i \in g
    BY GroupAround
  <2>3. v \in FreeOf(g)
    BY <2>1, <2>2 DEF FreeOf
  <2> QED  BY <2>3
<1>3. ASSUME NEW g \in Groups(TermLines), NEW v \in FreeOf(g)
      PROVE  In(v) = g
  <2>1. v \in All
    BY GroupsWithin
  <2> QED  BY <1>2, <2>1, GroupsApart
<1> HIDE DEF F, In
<1>4. fixed \in [All \intersect M -> 0 .. 1]
  <2> SUFFICES ASSUME NEW v \in All \intersect M  PROVE F[In(v)][v] \in 0 .. 1
    OBVIOUS
  <2>1. Good(In(v), F[In(v)]) /\ v \in FreeOf(In(v))
    BY <1>1, <1>2
  <2> QED  BY <2>1
<1>5. ASSUME NEW e \in [All -> 0 .. 1], \A v \in All \intersect M : e[v] = fixed[v],
             NEW i \in TermLines
      PROVE  TrueIn(file[i], e)
  <2>1. PICK g \in Groups(TermLines) : i \in g
    BY GroupAround
  <2>2. g \subseteq TermLines /\ FreeOf(g) \subseteq All
    BY GroupsWithin
  <2> DEFINE r == [v \in FreeOf(g) |-> e[v]]
  <2>3. r \in [FreeOf(g) -> 0 .. 1]
    BY <2>2
  <2>4. Good(g, F[g])
    BY <1>1
  <2>5. \A v \in DOMAIN F[g] : r[v] = F[g][v]
    <3> SUFFICES ASSUME NEW v \in FreeOf(g) \intersect M  PROVE r[v] = F[g][v]
      BY <2>4
    <3>1. In(v) = g /\ v \in All \intersect M
      BY <1>3, <2>2
    <3> QED  BY <3>1, <1>5
  <2>6. TrueIn(file[i], r)
    BY <2>1, <2>3, <2>4, <2>5
  <2>7. Free(i) \subseteq FreeOf(g)
    BY <2>1 DEF FreeOf
  <2> QED  BY <2>2, <2>6, <2>7, OnlyItsOwn DEF Valuations
<1>6. Enough(TermLines, All \ M)
  <2>1. All \ (All \ M) = All \intersect M
    OBVIOUS
  <2>2. DOMAIN fixed = All \intersect M
    OBVIOUS
  <2> HIDE DEF fixed
  <2>3. \A e \in [All -> 0 .. 1] :
          (\A v \in DOMAIN fixed : e[v] = fixed[v]) => \A i \in TermLines : TrueIn(file[i], e)
    BY <1>5, <2>2
  <2> QED  BY <1>4, <2>1, <2>3 DEF Enough
<1> QED
  <2> DEFINE Q == All \ M
  <2>1. Enough(TermLines, (Variables \ M) \intersect Q)
    BY <1>6, EnoughMore
  <2>2. FreeOf(TermLines) \ ((Variables \ M) \intersect Q) = FreeOf(TermLines) \ (Variables \ M)
    OBVIOUS
  <2> QED  BY <2>1, <2>2 DEF Enough

\* There are witnesses as long as an unsat core can be satisfied at all.
LEMMA CoreHasWitnesses ==
  ASSUME file \in SygusResults, Models(TermLines) # {}, core \subseteq TermLines,
         ~ Enough(core, Quantified)
  PROVE  Witnesses # {}
<1>1. PICK v \in FreeOf(core) : v \in Quantified
  BY EnoughWhenAllFixed
<1>2. PICK i \in core : v \in Free(i)
  BY <1>1 DEF FreeOf
<1>3. PICK g \in Groups(core) : i \in g
  BY GroupAround
<1> DEFINE sets == [h \in Groups(core) |-> FreeOf(h) \ candidate]
<1>4. v \in sets[g]
  BY <1>1, <1>2, <1>3 DEF FreeOf, Quantified
<1>5. NotEmpty(sets) \in Passes(sets) \ {{}}
  BY <1>3, <1>4 DEF Passes, NotEmpty
<1>6. HittingSet(sets) # {}
  BY <1>5 DEF HittingSet
<1> QED  BY <1>6 DEF Witnesses

\* Every group is still to be analysed, is being analysed, or is bound by the
\* variables pinned down so far.  Nothing is said of a run that was late or unsure,
\* or of assertions that contradict each other.
Sure == ~late /\ ~unsure /\ Models(TermLines) # {}
Analysing == musAt \in {"check", "extend"}
GroupsBound ==
  /\ file \in SygusResults
  /\ job = "msa" =>
       /\ musAt \in {"start", "next", "check", "extend", "done"}
       /\ groups \subseteq Groups(TermLines)
       /\ Analysing => group \in Groups(TermLines)
       /\ musAt = "extend" /\ ~unsure => core \subseteq group /\ ~ Enough(core, Quantified)
       /\ (Analysing \/ musAt = "next") /\ Sure =>
            \A g \in Groups(TermLines) :
              g \in groups \/ (Analysing /\ g = group) \/ Enough(g, FreeOf(g) \ msa)
       /\ UnderspecifiedIsFree

\* Pinning more variables keeps a group bound.
LEMMA BoundMore ==
  ASSUME NEW g, NEW M, NEW N, M \subseteq N, Enough(g, FreeOf(g) \ M)
  PROVE  Enough(g, FreeOf(g) \ N)
BY EnoughMore

\* It holds before the analysis starts.
LEMMA GroupsBoundInit == MusInit => GroupsBound
BY DEF MusInit, GroupsBound, UnderspecifiedIsFree, Analysing

\* Every step keeps it: a group leaves the search bound, or the run is unsure.
LEMMA GroupsBoundNext ==
  ASSUME GroupsBound, [MusNext]_musVars  PROVE GroupsBound'
<1> SUFFICES ASSUME job = "msa", job' = job, file' = file  PROVE GroupsBound'
  BY FileMeaning DEF musVars, MusNext, StartMinimise, TryDrop, WriteKept, StartMsa, NextGroup, Check,
         Extend, Report, GroupsBound
<1> USE FileMeaning, EnoughKept, FreeKept
<1>file. file \in SygusResults
  BY DEF GroupsBound
<1>here. /\ musAt \in {"start", "next", "check", "extend", "done"}
         /\ groups \subseteq Groups(TermLines)
         /\ Analysing => group \in Groups(TermLines)
         /\ musAt = "extend" /\ ~unsure => core \subseteq group /\ ~ Enough(core, Quantified)
  BY DEF GroupsBound
<1>1. CASE StartMsa
  <2>1. CASE TermLines = {}
    <3>1. Enough(TermLines, Variables \ {})
      BY <1>file, <2>1, EnoughForAll DEF Groups, Closed
    <3>2. musAt' = "done" /\ groups' = groups /\ under' = Variables
      BY <1>1, <2>1 DEF StartMsa, Goto
    <3>3. UnderspecifiedIsFree'
      BY <3>1, <3>2 DEF UnderspecifiedIsFree
    <3> QED  BY <1>file, <1>here, <3>2, <3>3 DEF GroupsBound, Analysing
  <2>2. CASE TermLines # {}
    BY <1>1, <2>2, <1>file DEF StartMsa, Goto, GroupsBound, UnderspecifiedIsFree, Analysing
  <2> QED  BY <2>1, <2>2
<1>2. CASE NextGroup
  <2>1. PICK g \in groups :
          /\ groups' = groups \ {g}
          /\ IF Cardinality(g) = 1 /\ Cardinality(FreeOf(g)) = 1
             THEN /\ musAt = "next" /\ UNCHANGED <<musAt, group, candidate>>
                  /\ msa' = msa \union FreeOf(g)
             ELSE /\ Goto("next", "check") /\ group' = g
                  /\ candidate' = HittingSet([i \in g |-> Free(i)])
                  /\ UNCHANGED msa
    BY <1>2 DEF NextGroup
  <2>2. musAt = "next" /\ late' = late /\ unsure' = unsure
    BY <1>2, <2>1 DEF NextGroup, Goto
  <2>3. g \in Groups(TermLines) /\ g \subseteq TermLines
    BY <2>1, <1>here, GroupsWithin
  <2>4. Sure' => Sure
    BY <2>2 DEF Sure
  <2>5. Sure => \A h \in Groups(TermLines) : h \in groups \/ Enough(h, FreeOf(h) \ msa)
    BY <2>2 DEF GroupsBound, Analysing
  <2>6. CASE Cardinality(g) = 1 /\ Cardinality(FreeOf(g)) = 1
    <3>1. musAt' = "next" /\ msa' = msa \union FreeOf(g)
      BY <2>1, <2>2, <2>6
    <3>2. Sure => Enough(g, FreeOf(g) \ msa')
      BY <1>file, <2>3, <3>1, EnoughWhenAllFixed DEF Sure
    <3>3. Sure => \A h \in Groups(TermLines) : h \in groups' \/ Enough(h, FreeOf(h) \ msa')
      BY <2>1, <2>5, <3>1, <3>2, BoundMore
    <3> QED
      BY <1>file, <1>here, <2>1, <2>4, <3>1, <3>3 DEF GroupsBound, Analysing, UnderspecifiedIsFree
  <2>7. CASE ~ (Cardinality(g) = 1 /\ Cardinality(FreeOf(g)) = 1)
    <3>1. musAt' = "check" /\ group' = g /\ msa' = msa
      BY <2>1, <2>7 DEF Goto
    <3> QED
      BY <1>file, <1>here, <2>1, <2>3, <2>4, <2>5, <3>1 DEF GroupsBound, Analysing, UnderspecifiedIsFree
  <2> QED  BY <2>6, <2>7
<1>3. CASE Check
  <2>1. /\ musAt = "check" /\ late' = late /\ groups' = groups /\ group' = group
        /\ candidate' = candidate
    BY <1>3 DEF Check, Goto
  <2>2. group \in Groups(TermLines) /\ group \subseteq TermLines
    BY <2>1, <1>here, GroupsWithin DEF Analysing
  <2>3. CASE /\ Quantified = {} \/ Enough(group, Quantified)
             /\ musAt' = "next" /\ msa' = msa \union candidate
             /\ UNCHANGED <<core, unsure>>
    <3>1. Sure' => Sure
      BY <2>1, <2>3 DEF Sure
    <3>2. Sure => Enough(group, FreeOf(group) \ msa')
      <4>1. CASE Quantified = {}
        BY <1>file, <2>2, <2>3, <4>1, EnoughWhenAllFixed DEF Sure, Quantified
      <4>2. CASE Enough(group, Quantified)
        BY <2>3, <4>2, EnoughMore DEF Quantified
      <4> QED  BY <2>3, <4>1, <4>2
    <3>3. Sure => \A h \in Groups(TermLines) : h \in groups \/ Enough(h, FreeOf(h) \ msa')
      BY <2>1, <2>3, <3>2, BoundMore DEF GroupsBound, Analysing
    <3> QED
      BY <1>file, <1>here, <2>1, <2>3, <3>1, <3>3 DEF GroupsBound, Analysing, UnderspecifiedIsFree
  <2>4. CASE /\ musAt' = "extend" /\ msa' = msa
             /\ \/ /\ unsure' = unsure
                   /\ core' \subseteq group /\ ~ Enough(core', Quantified)
                \/ unsure' = TRUE
    <3>1. Sure' => Sure /\ unsure' = unsure
      BY <2>1, <2>4 DEF Sure
    <3>2. Quantified' = Quantified
      BY <2>1 DEF Quantified
    <3>3. ~unsure' => core' \subseteq group' /\ ~ Enough(core, Quantified)'
      BY <2>1, <2>4, <3>2 DEF Enough, FreeOf, Free
    <3> QED
      BY <1>file, <1>here, <2>1, <2>2, <2>4, <3>1, <3>3
         DEF GroupsBound, Analysing, UnderspecifiedIsFree
  <2> QED  BY <1>3, <2>3, <2>4 DEF Check, Goto
<1>4. CASE Extend
  <2>1. /\ musAt = "extend" /\ unsure' = unsure /\ groups' = groups /\ group' = group
        /\ core' = core /\ late' \in {late, TRUE}
    BY <1>4 DEF Extend, Goto, ReadClock
  <2>2. group \in Groups(TermLines) /\ group \subseteq TermLines
    BY <2>1, <1>here, GroupsWithin DEF Analysing
  <2>3. Sure' => Sure /\ late' = late
    BY <2>1 DEF Sure
  <2>4. CASE musAt' = "check" /\ msa' = msa
    BY <1>file, <1>here, <2>1, <2>2, <2>3, <2>4 DEF GroupsBound, Analysing, UnderspecifiedIsFree
  <2>5. CASE (late' \/ Witnesses = {}) /\ musAt' = "next"
    <3>1. ~ Sure'
      BY <1>file, <1>here, <2>1, <2>2, <2>3, <2>5, CoreHasWitnesses DEF Sure
    <3> QED
      BY <1>file, <1>here, <2>1, <2>5, <3>1 DEF GroupsBound, Analysing, UnderspecifiedIsFree
  <2> QED  BY <1>4, <2>4, <2>5 DEF Extend, Goto
<1>5. CASE Report
  <2>1. /\ musAt = "next" /\ musAt' = "done" /\ groups = {} /\ groups' = groups
        /\ late' = late /\ unsure' = unsure /\ under' = Variables \ msa
    BY <1>5 DEF Report, Goto
  <2>2. Sure => Enough(TermLines, Variables \ msa)
    BY <1>file, <2>1, EnoughForAll DEF GroupsBound, Analysing
  <2>3. UnderspecifiedIsFree'
    BY <2>1, <2>2 DEF UnderspecifiedIsFree, Sure
  <2> QED  BY <1>file, <1>here, <2>1, <2>3 DEF GroupsBound, Analysing
<1>6. CASE UNCHANGED musVars
  <2>1. Quantified' = Quantified
    BY <1>6 DEF musVars, search, Quantified
  <2> QED
    BY <1>6, <2>1 DEF musVars, search, GroupsBound, Analysing, UnderspecifiedIsFree, Sure
<1> QED
  BY <1>1, <1>2, <1>3, <1>4, <1>5, <1>6 DEF MusNext, StartMinimise, TryDrop, WriteKept, minimiser, GroupsBound, Goto

\* The variables getMus leaves can take any values at once, when it was neither
\* late nor unsure and the assertions can all hold.
THEOREM MsaSound == MusSpec => []UnderspecifiedIsFree
<1>1. MusSpec => []GroupsBound
  BY GroupsBoundInit, GroupsBoundNext, PTL DEF MusSpec
<1>2. GroupsBound => UnderspecifiedIsFree
  BY DEF GroupsBound, UnderspecifiedIsFree
<1> QED  BY <1>1, <1>2, PTL

-----------------------------------------------------------------------------
(* Options.                                                                *)

\* The keys of the table.
LEMMA KeysAre ==
  Keys = {"bound", "block_bound", "unbounded", "check_unbounded", "unbound_check",
          "bv_predicates", "blockified", "msa", "random", "assume", "verbosity"}
BY DEF Keys, Table

\* Of the rows the proofs use this.
LEMMA RowsAre ==
  /\ \A k \in Keys : Table[k].type = "list" <=> k = "assume"
  /\ \A k \in {"unbounded", "check_unbounded", "unbound_check", "blockified", "msa", "random"} :
        k \in Keys /\ Table[k].type = "bool"
  /\ Table["assume"].default = <<>>
  /\ Table["verbosity"].flag = ""
  /\ "verbosity" \in Keys
  /\ \A k \in Keys : Table[k].type \in {"bool", "int", "choice", "list"}
<1>1. Table["assume"].default = <<>>
  BY DEF Table, Row
<1>2. Table["verbosity"].flag = ""
  BY DEF Table, Row
<1>3. Table["bound"].type = "int"
  BY DEF Table, Row
<1>4. Table["block_bound"].type = "int"
  BY DEF Table, Row
<1>5. Table["unbounded"].type = "bool"
  BY DEF Table, Row
<1>6. Table["check_unbounded"].type = "bool"
  BY DEF Table, Row
<1>7. Table["unbound_check"].type = "bool"
  BY DEF Table, Row
<1>8. Table["bv_predicates"].type = "choice"
  BY DEF Table, Row
<1>9. Table["blockified"].type = "bool"
  BY DEF Table, Row
<1>10. Table["msa"].type = "bool"
  BY DEF Table, Row
<1>11. Table["random"].type = "bool"
  BY DEF Table, Row
<1>12. Table["assume"].type = "list"
  BY DEF Table, Row
<1>13. Table["verbosity"].type = "int"
  BY DEF Table, Row
<1> QED
  BY KeysAre, <1>1, <1>2, <1>3, <1>4, <1>5, <1>6, <1>7, <1>8, <1>9, <1>10, <1>11, <1>12, <1>13

\* A value for each key, of which the list's is a list.
IsTable(v) == v = [k \in Keys |-> v[k]] /\ v["assume"] \in Seq(STRING)

\* An entry of a config file leaves a table of values, whatever it says.
LEMMA EnteredIsTable ==
  ASSUME NEW schema, NEW entry \in Entries, NEW v, IsTable(v)
  PROVE  IsTable(Entered(schema, entry, v))
<1> DEFINE k == KeyOf(schema, entry.path)
<1>1. ASSUME NEW x, k \in Keys, k = "assume" => x \in Seq(STRING)
      PROVE  IsTable([v EXCEPT ![k] = x])
  <2> DEFINE w == [v EXCEPT ![k] = x]
  <2>1. v = [j \in Keys |-> v[j]] /\ v["assume"] \in Seq(STRING) /\ "assume" \in Keys
    BY KeysAre DEF IsTable
  <2>2. w = [j \in Keys |-> w[j]]
    BY <2>1
  <2>3. w["assume"] = IF k = "assume" THEN x ELSE v["assume"]
    BY <2>1
  <2>4. w["assume"] \in Seq(STRING)
    BY <2>1, <2>3, <1>1
  <2> QED  BY <2>2, <2>4 DEF IsTable
<1>2. ASSUME Coerces("list", entry.json)
      PROVE  Coerced("list", entry.json) \in Seq(STRING)
  <2>1. entry.json \in JsonValues /\ entry.json.kind \in {"list", "text"}
    <3>1. Kinds["list"] = {"list", "text"}
      BY DEF Kinds
    <3> QED  BY <1>2, <3>1 DEF Coerces, Entries
  <2>2. CASE entry.json.kind = "text"
    <3>1. entry.json.of \in STRING
      BY <2>1, <2>2 DEF JsonValues
    <3> QED  BY <2>2, <3>1 DEF Coerced, Parsed
  <2>3. CASE entry.json.kind = "list"
    <3>1. entry.json.of \in Seq(STRING)
      BY <2>1, <2>3 DEF JsonValues
    <3> QED  BY <2>3, <3>1 DEF Coerced
  <2> QED  BY <2>1, <2>2, <2>3
<1> HIDE DEF k
<1>3. CASE k \notin Keys
  BY <1>3 DEF Entered, k
<1>4. CASE k \in Keys /\ Coerces(Table[k].type, entry.json)
  <2>1. Entered(schema, entry, v) = [v EXCEPT ![k] = Coerced(Table[k].type, entry.json)]
    BY <1>4 DEF Entered, k
  <2>2. k = "assume" => Coerced(Table[k].type, entry.json) \in Seq(STRING)
    BY <1>2, <1>4, RowsAre
  <2> QED  BY <1>1, <1>4, <2>1, <2>2
<1>5. CASE k \in Keys /\ ~ Coerces(Table[k].type, entry.json)
  <2>1. \/ Entered(schema, entry, v) = v
        \/ /\ Entered(schema, entry, v) = [v EXCEPT ![k] = "printed"]
           /\ Table[k].type = "choice"
    BY <1>5 DEF Entered, k
  <2>2. Table[k].type = "choice" => k # "assume"
    BY RowsAre, <1>5
  <2> QED  BY <1>1, <1>5, <2>1, <2>2
<1> QED  BY <1>3, <1>4, <1>5

\* One value of the function Merged is defined by.
After(f, path, v, n) ==
    IF n = 0 THEN v
    ELSE Entered(ConfigFiles[path].schema, ConfigFiles[path].entries[n], f[n - 1])

\* The function, up to an entry.
Computes(f, path, v, n) == f = [i \in 0 .. n |-> After(f, path, v, i)]

\* What Merged defines is there, by induction on the number of entries.
LEMMA AfterExists ==
  ASSUME NEW path, NEW v, NEW n \in Nat
  PROVE  \E f : Computes(f, path, v, n)
<1> DEFINE T == {k \in Nat : \E f : f = [i \in 0 .. k |-> After(f, path, v, i)]}
<1>1. 0 \in T
  <2> DEFINE f == [i \in 0 .. 0 |-> v]
  <2>1. f = [i \in 0 .. 0 |-> After(f, path, v, i)]
    BY DEF After
  <2> QED  BY <2>1
<1>2. ASSUME NEW k \in Nat, k \in T  PROVE k + 1 \in T
  <2>1. PICK f : f = [i \in 0 .. k |-> After(f, path, v, i)]
    BY <1>2
  <2> DEFINE g == [i \in 0 .. k + 1 |-> IF i = k + 1 THEN After(f, path, v, i) ELSE f[i]]
  <2>2. ASSUME NEW i \in 0 .. k + 1  PROVE g[i] = After(g, path, v, i)
    <3>1. CASE i = 0
      BY <2>1, <3>1 DEF After
    <3>2. CASE i # 0
      <4>1. g[i - 1] = f[i - 1] /\ i - 1 \in 0 .. k
        BY <3>2
      <4>2. g[i] = After(f, path, v, i)
        BY <2>1, <3>2
      <4> QED  BY <3>2, <4>1, <4>2 DEF After
    <3> QED  BY <3>1, <3>2
  <2>3. g = [i \in 0 .. k + 1 |-> g[i]]
    OBVIOUS
  <2> HIDE DEF g
  <2>4. g = [i \in 0 .. k + 1 |-> After(g, path, v, i)]
    BY <2>2, <2>3
  <2> QED  BY <2>4
<1> HIDE DEF T
<1>3. n \in T
  BY <1>1, <1>2, EveryNat
<1>4. \E f : f = [i \in 0 .. n |-> After(f, path, v, i)]
  BY <1>3 DEF T
<1> QED  BY <1>4 DEF Computes

\* So does a whole file.
LEMMA MergedIsTable ==
  ASSUME NEW path, Readable(path), NEW v, IsTable(v)
  PROVE  IsTable(Merged(path, v))
<1> DEFINE entries == ConfigFiles[path].entries
<1>0. entries \in Seq(Entries) /\ Len(entries) \in Nat
  <2>1. path \in DOMAIN ConfigFiles
    BY DEF Readable
  <2>2. entries \in Seq(Entries)
    BY <2>1, FilesOfEntries
  <2> QED  BY <2>2
<1>a. Len(entries) \in Nat
  BY <1>0
<1>1. PICK g : g = [i \in 0 .. Len(entries) |-> After(g, path, v, i)]
  <2>1. \E g : Computes(g, path, v, Len(entries))
    BY <1>a, AfterExists
  <2> QED  BY <2>1 DEF Computes
<1> DEFINE f == CHOOSE h : h = [i \in 0 .. Len(entries) |-> After(h, path, v, i)]
<1>2. f = [i \in 0 .. Len(entries) |-> After(f, path, v, i)]
  BY <1>1
<1>3. Merged(path, v) = f[Len(entries)]
  BY DEF Merged, After
<1> HIDE DEF f
<1> DEFINE T == {n \in Nat : n <= Len(entries) => IsTable(f[n])}
<1>4. 0 \in T
  <2>1. f[0] = v
    BY <1>0, <1>2 DEF After
  <2> QED  BY <2>1
<1>5. ASSUME NEW n \in Nat, n \in T  PROVE n + 1 \in T
  <2> SUFFICES ASSUME n + 1 <= Len(entries)  PROVE IsTable(f[n + 1])
    OBVIOUS
  <2>1. n \in 0 .. Len(entries) /\ n + 1 \in 0 .. Len(entries) /\ n + 1 \in 1 .. Len(entries)
    BY <1>0
  <2>2. entries[n + 1] \in Entries
    BY <1>0, <2>1
  <2>3. f[n + 1] = After(f, path, v, n + 1)
    BY <1>2, <2>1
  <2>4. f[n + 1] = Entered(ConfigFiles[path].schema, entries[n + 1], f[n])
    BY <2>3 DEF After
  <2>5. IsTable(f[n])
    BY <1>5, <2>1
  <2> QED  BY <2>2, <2>4, <2>5, EnteredIsTable
<1> HIDE DEF T
<1>6. Len(entries) \in T
  BY <1>0, <1>4, <1>5, EveryNat
<1> QED  BY <1>0, <1>3, <1>6 DEF T
\* What of a key was given up to an argument, and what of it came after another.
UpTo(k, n) == {i \in GivenAt(k) : i <= n}
Beyond(k, i, n) == {j \in UpTo(k, n) : j > i}

\* The key has the value that what was given up to an argument decides.
Follows(k, v, n) ==
  \A i \in UpTo(k, n) :
     IF Table[k].type = "list"
     THEN LET m == Cardinality(Beyond(k, i, n))
          IN  m < Len(v[k]) /\ v[k][Len(v[k]) - m] = args[i].text
     ELSE Beyond(k, i, n) = {} => v[k] = Parsed(Table[k].type, args[i].text)

\* Files before flags, and the flags applied so far decide.
OptionsInv ==
  /\ args \in CommandLines /\ IsTable(values)
  /\ applied \in 0 .. Len(args)
  /\ stage \in {"scan", "files", "parsed", "running", "block", "user error"}
  /\ stage = "scan" => applied = 0
  /\ applied # 0 => FilesDone
  /\ stage = "files" => \A k \in Keys : Follows(k, values, applied)
  /\ FlagsWin

\* What an argument is.
LEMMA ArgumentsAre ==
  ASSUME args \in CommandLines
  PROVE  /\ args \in Seq(Args) /\ Len(args) \in Nat /\ DOMAIN args = 1 .. Len(args)
         /\ \A i \in DOMAIN args : args[i].kind = "flag" =>
              /\ args[i].key \in Keys /\ Table[args[i].key].flag # ""
              /\ args[i].text \in STRING
<1>1. args \in Seq(Args)
  BY LinesOfArguments
<1>2. Len(args) \in Nat /\ DOMAIN args = 1 .. Len(args) /\ \A i \in DOMAIN args : args[i] \in Args
  BY <1>1
<1>3. ASSUME NEW a \in Args, a.kind = "flag"
      PROVE  a.key \in Keys /\ Table[a.key].flag # "" /\ a.text \in STRING
  BY <1>3 DEF Args
<1> QED  BY <1>1, <1>2, <1>3

\* What was given are positions of the command line.
LEMMA BeyondIsFinite ==
  ASSUME args \in CommandLines, NEW k, NEW i, NEW n
  PROVE  /\ IsFiniteSet(Beyond(k, i, n)) /\ Cardinality(Beyond(k, i, n)) \in Nat
         /\ UpTo(k, n) \subseteq 1 .. Len(args)
<1>1. Len(args) \in Nat /\ DOMAIN args = 1 .. Len(args)
  BY ArgumentsAre
<1>2. UpTo(k, n) \subseteq 1 .. Len(args)
  BY <1>1 DEF UpTo, GivenAt
<1>3. IsFiniteSet(1 .. Len(args))
  BY <1>1, FS_Interval
<1>4. Beyond(k, i, n) \subseteq 1 .. Len(args)
  BY <1>2 DEF Beyond
<1> QED  BY <1>2, <1>3, <1>4, FS_Subset, FS_CardinalityType

\* The defaults are such a table.
LEMMA DefaultsAreTable == IsTable(Defaults)
<1>1. Defaults = [k \in Keys |-> Defaults[k]]
  BY DEF Defaults
<1>2. "assume" \in Keys
  BY KeysAre
<1>3. Defaults["assume"] = <<>>
  BY <1>2, RowsAre DEF Defaults
<1>4. <<>> \in Seq(STRING)
  OBVIOUS
<1>5. Defaults["assume"] \in Seq(STRING)
  BY <1>3, <1>4
<1> QED  BY <1>1, <1>5 DEF IsTable

\* At first nothing is merged or applied.
LEMMA OptionsInvInit == OptionsInit => OptionsInv
<1> SUFFICES ASSUME OptionsInit PROVE OptionsInv
  OBVIOUS
<1>1. args \in CommandLines /\ values = Defaults /\ applied = 0 /\ stage = "scan"
  BY DEF OptionsInit
<1>2. Len(args) \in Nat
  BY <1>1, ArgumentsAre
<1>3. IsTable(values)
  BY <1>1, DefaultsAreTable
<1>4. FlagsWin
  BY <1>1 DEF FlagsWin, Accepted
<1> QED  BY <1>1, <1>2, <1>3, <1>4 DEF OptionsInv

\* One flag more: it decides its key, as the last one or the last item.
LEMMA ApplyFollows ==
  ASSUME args \in CommandLines, IsTable(values), applied \in 0 .. Len(args),
         NEW i \in DOMAIN args, IsFirst(i, Pending("flag", applied)),
         \A k \in Keys : Follows(k, values, applied),
         NEW w, w = [values EXCEPT ![args[i].key] = Assigned(args[i].key, args[i].text)]
  PROVE  IsTable(w) /\ \A k \in Keys : Follows(k, w, i)
<1> DEFINE key == args[i].key  text == args[i].text
<1>1. /\ Len(args) \in Nat /\ i \in 1 .. Len(args) /\ applied \in Nat /\ applied < i
      /\ args[i].kind = "flag" /\ key \in Keys /\ text \in STRING
      /\ \A j \in 1 .. Len(args) : applied < j /\ j < i => args[j].kind # "flag"
  <2>1. Len(args) \in Nat /\ DOMAIN args = 1 .. Len(args)
    BY ArgumentsAre
  <2>2. i > applied /\ args[i].kind = "flag"
    BY DEF IsFirst, Pending
  <2>3. key \in Keys /\ text \in STRING
    BY <2>2, ArgumentsAre
  <2>4. ASSUME NEW j \in 1 .. Len(args), applied < j, j < i, args[j].kind = "flag"
        PROVE  FALSE
    <3>1. j \in Pending("flag", applied)
      BY <2>1, <2>4 DEF Pending
    <3>2. i <= j
      BY <3>1 DEF IsFirst
    <3> QED  BY <2>1, <2>4, <3>2
  <2> QED  BY <2>1, <2>2, <2>3, <2>4
<1>0. /\ \A k, n : UpTo(k, n) \subseteq 1 .. Len(args)
      /\ \A k, n, j : j \in UpTo(k, n) <=>
            j \in 1 .. Len(args) /\ args[j].kind = "flag" /\ args[j].key = k /\ j <= n
  BY ArgumentsAre DEF UpTo, GivenAt
<1>2. values = [k \in Keys |-> values[k]] /\ values["assume"] \in Seq(STRING)
  BY DEF IsTable
<1>3. w = [k \in Keys |-> IF k = key THEN Assigned(key, text) ELSE values[k]]
  BY <1>1, <1>2
<1>4. \A k \in Keys : UpTo(k, i) = IF k = key THEN UpTo(k, applied) \union {i} ELSE UpTo(k, applied)
  <2> SUFFICES ASSUME NEW k \in Keys
               PROVE  UpTo(k, i) = IF k = key THEN UpTo(k, applied) \union {i} ELSE UpTo(k, applied)
    OBVIOUS
  <2>1. ASSUME NEW j, j # i  PROVE j \in UpTo(k, i) <=> j \in UpTo(k, applied)
    BY <1>0, <1>1, <2>1
  <2>2. i \in UpTo(k, i) <=> k = key
    BY <1>0, <1>1
  <2>3. i \notin UpTo(k, applied)
    BY <1>0, <1>1
  <2>4. CASE k = key
    <3>1. UpTo(k, i) = UpTo(k, applied) \union {i}
      BY <2>1, <2>2, <2>4
    <3> QED  BY <2>4, <3>1
  <2>5. CASE k # key
    <3>1. UpTo(k, i) = UpTo(k, applied)
      BY <2>1, <2>2, <2>3, <2>5
    <3> QED  BY <2>5, <3>1
  <2> QED  BY <2>4, <2>5
<1> HIDE DEF key, text
<1>5. ASSUME NEW k \in Keys, k # key  PROVE Follows(k, w, i)
  <2>1. w[k] = values[k] /\ UpTo(k, i) = UpTo(k, applied)
    BY <1>3, <1>4, <1>5
  <2> QED  BY <2>1 DEF Follows, Beyond
<1>6. CASE key = "assume"
  <2>1. Table[key].type = "list"
    BY <1>6, RowsAre, <1>1
  <2>2. w[key] = Append(values[key], text)
    BY <1>1, <1>3, <2>1 DEF Assigned
  <2>3. /\ Len(w[key]) = Len(values[key]) + 1 /\ Len(values[key]) \in Nat
        /\ w[key][Len(w[key])] = text
        /\ \A n \in 1 .. Len(values[key]) : w[key][n] = values[key][n]
        /\ w[key] \in Seq(STRING)
    <3>1. values[key] \in Seq(STRING) /\ text \in STRING
      BY <1>1, <1>2, <1>6
    <3>2. /\ Append(values[key], text) \in Seq(STRING)
          /\ Len(Append(values[key], text)) = Len(values[key]) + 1
          /\ \A n \in 1 .. Len(values[key]) : Append(values[key], text)[n] = values[key][n]
          /\ Append(values[key], text)[Len(values[key]) + 1] = text
      BY <3>1, AppendProperties
    <3>3. Len(values[key]) \in Nat
      BY <3>1
    <3> QED  BY <2>2, <3>2, <3>3
  <2>4. ASSUME NEW j \in UpTo(key, i)
        PROVE  /\ Cardinality(Beyond(key, j, i)) < Len(w[key])
               /\ w[key][Len(w[key]) - Cardinality(Beyond(key, j, i))] = args[j].text
    <3>1. CASE j = i
      <4>1. Beyond(key, j, i) = {}
        BY <3>1, <1>0, <1>1 DEF Beyond
      <4>2. Cardinality(Beyond(key, j, i)) = 0
        BY <4>1, FS_EmptySet
      <4> QED  BY <3>1, <4>2, <2>3 DEF text
    <3>2. CASE j # i
      <4> DEFINE B == Beyond(key, j, applied)
      <4>1. j \in UpTo(key, applied) /\ j \in Nat /\ j < i
        BY <2>4, <3>2, <1>0, <1>1, <1>4
      <4>2. Beyond(key, j, i) = B \union {i} /\ i \notin B
        BY <4>1, <1>0, <1>1, <1>4 DEF Beyond
      <4>3. IsFiniteSet(B) /\ Cardinality(B) \in Nat
        BY BeyondIsFinite
      <4>4. Cardinality(Beyond(key, j, i)) = Cardinality(B) + 1
        BY <4>2, <4>3, FS_AddElement
      <4>5. /\ Cardinality(B) < Len(values[key])
            /\ values[key][Len(values[key]) - Cardinality(B)] = args[j].text
        BY <1>1, <2>1, <4>1 DEF Follows
      <4> HIDE DEF B
      <4>6. /\ Cardinality(B) + 1 < Len(w[key])
            /\ Len(w[key]) - (Cardinality(B) + 1) = Len(values[key]) - Cardinality(B)
            /\ Len(values[key]) - Cardinality(B) \in 1 .. Len(values[key])
        BY <2>3, <4>3, <4>5
      <4> QED  BY <2>3, <4>4, <4>5, <4>6
    <3> QED  BY <3>1, <3>2
  <2>5. Follows(key, w, i)
    BY <2>1, <2>4 DEF Follows
  <2>6. IsTable(w)
    <3>1. w = [k \in Keys |-> w[k]]
      BY <1>3
    <3> QED  BY <1>6, <2>3, <3>1 DEF IsTable
  <2> QED  BY <1>5, <2>5, <2>6
<1>7. CASE key # "assume"
  <2>1. Table[key].type # "list"
    BY <1>1, <1>7, RowsAre
  <2>2. w[key] = Parsed(Table[key].type, text)
    BY <1>1, <1>3, <2>1 DEF Assigned
  <2>3. \A j \in UpTo(key, i) : Beyond(key, j, i) = {} => j = i
    <3> SUFFICES ASSUME NEW j \in UpTo(key, i), j # i  PROVE i \in Beyond(key, j, i)
      OBVIOUS
    <3>1. i \in UpTo(key, i) /\ j < i
      BY <1>0, <1>1, <1>4
    <3> QED  BY <3>1 DEF Beyond
  <2>4. Follows(key, w, i)
    BY <2>1, <2>2, <2>3 DEF Follows, text
  <2>5. IsTable(w)
    <3>1. w = [k \in Keys |-> w[k]]
      BY <1>3
    <3>2. w["assume"] = values["assume"]
      BY <1>3, <1>7, KeysAre
    <3> QED  BY <1>2, <3>1, <3>2 DEF IsTable
  <2> QED  BY <1>5, <2>4, <2>5
<1> QED  BY <1>6, <1>7

\* The rules at the end leave what the flags decided, or overrule it.
LEMMA ConcludedFollows ==
  ASSUME args \in CommandLines, IsTable(values), applied \in 0 .. Len(args),
         Pending("flag", applied) = {}, \A k \in Keys : Follows(k, values, applied),
         NEW k \in Keys, NEW i \in GivenAt(k)
  PROVE  IF Table[k].type = "list"
         THEN /\ Cardinality(Later(i, k)) < Len(Implied[k])
              /\ Implied[k][Len(Implied[k]) - Cardinality(Later(i, k))] = args[i].text
         ELSE Later(i, k) = {} =>
                Implied[k] = Parsed(Table[k].type, args[i].text) \/ Overruled(k)
<1>1. UpTo(k, applied) = GivenAt(k)
  <2>1. ASSUME NEW j \in GivenAt(k)  PROVE j <= applied
    <3>1. j \in DOMAIN args /\ args[j].kind = "flag"
      BY DEF GivenAt
    <3>2. j \in Nat /\ applied \in Nat
      <4>1. DOMAIN args = 1 .. Len(args) /\ Len(args) \in Nat
        BY ArgumentsAre
      <4>2. j \in 1 .. Len(args)
        BY <3>1, <4>1
      <4> QED  BY <4>1, <4>2
    <3>3. ~ (j > applied)
      BY <3>1 DEF Pending
    <3> QED  BY <3>2, <3>3
  <2> QED  BY <2>1 DEF UpTo
<1>2. Beyond(k, i, applied) = Later(i, k)
  BY <1>1 DEF Beyond, Later
<1>3. k # "verbosity" /\ args[i].text \in STRING
  <2>1. i \in DOMAIN args /\ args[i].kind = "flag" /\ args[i].key = k
    BY DEF GivenAt
  <2>2. Table[k].flag # "" /\ args[i].text \in STRING
    BY <2>1, ArgumentsAre
  <2> QED  BY <2>2, RowsAre
<1>4. values = [j \in Keys |-> values[j]]
  BY DEF IsTable
<1>5. CASE Table[k].type = "list"
  <2>1. k = "assume"
    BY <1>5, RowsAre
  <2>2. Implied[k] = values[k]
    BY <1>4, <2>1 DEF Implied
  <2> QED  BY <1>1, <1>2, <1>5, <2>2 DEF Follows
<1>6. CASE Table[k].type # "list"
  <2> SUFFICES ASSUME Later(i, k) = {}, ~ Overruled(k)
               PROVE  Implied[k] = Parsed(Table[k].type, args[i].text)
    BY <1>6
  <2>1. values[k] = Parsed(Table[k].type, args[i].text)
    BY <1>1, <1>2, <1>6 DEF Follows
  <2>2. CASE k \in {"check_unbounded", "unbound_check"}
    <3>1. Implied[k] = (values[k] \/ values["unbounded"])
      BY <1>4, <2>2, RowsAre DEF Implied
    <3>2. ~ values["unbounded"]
      BY <2>2 DEF Overruled
    <3>3. values[k] \in BOOLEAN
      BY <2>1, <2>2, RowsAre DEF Parsed
    <3> QED  BY <2>1, <3>1, <3>2, <3>3
  <2>3. CASE k = "blockified"
    <3>1. Implied[k] = (values[k] \/ Strategy(values))
      BY <1>4, <2>3, RowsAre DEF Implied
    <3>2. ~ Strategy(values)
      BY <2>3 DEF Overruled
    <3>3. values[k] \in BOOLEAN
      BY <2>1, <2>3, RowsAre DEF Parsed
    <3> QED  BY <2>1, <3>1, <3>2, <3>3
  <2>4. CASE k \notin {"check_unbounded", "unbound_check", "blockified"}
    <3>1. Implied[k] = values[k]
      BY <1>3, <1>4, <2>4 DEF Implied
    <3> QED  BY <2>1, <3>1
  <2> QED  BY <2>2, <2>3, <2>4
<1> QED  BY <1>5, <1>6

\* They leave a table.
LEMMA ImpliedIsTable ==
  ASSUME IsTable(values)  PROVE IsTable(Implied)
<1>1. values = [j \in Keys |-> values[j]] /\ values["assume"] \in Seq(STRING)
  BY DEF IsTable
<1>2. Implied = [j \in Keys |-> Implied[j]]
  BY <1>1 DEF Implied
<1>3. Implied["assume"] = values["assume"]
  BY <1>1, KeysAre DEF Implied
<1> QED  BY <1>1, <1>2, <1>3 DEF IsTable

\* What the rules turn on does not depend on what they turn on.
LEMMA OverruledStays ==
  ASSUME IsTable(values), values' = Implied, args' = args, NEW k
  PROVE  Overruled(k)' <=> Overruled(k)
<1>1. values = [j \in Keys |-> values[j]]
  BY DEF IsTable
<1>2. \A j \in {"unbounded", "msa", "random"} : Implied[j] = values[j]
  BY <1>1, KeysAre DEF Implied
<1>3. values'["unbounded"] = values["unbounded"] /\ values'["msa"] = values["msa"]
      /\ values'["random"] = values["random"]
  BY <1>2
<1>4. \A key : Given(key)' <=> Given(key)
  BY DEF Given, GivenAt
<1> QED  BY <1>3, <1>4 DEF Overruled, Strategy

\* A value survives the way through effective-config.json.
LEMMA ChildSees ==
  ASSUME NEW k \in Keys
  PROVE  /\ Coerces(Table[k].type, Effective[k])
         /\ Coerced(Table[k].type, Effective[k]) = values[k]
<1> DEFINE j == JsonOf(Table[k].type, values[k])
<1>1. Effective[k] = j
  BY DEF Effective
<1>2. /\ j.kind = IF Table[k].type = "choice" THEN "text" ELSE Table[k].type
      /\ j.of = values[k]
  BY DEF JsonOf
<1>3. Table[k].type \in {"bool", "int", "choice", "list"}
  BY RowsAre
<1>4. /\ Kinds["bool"] = {"bool", "int"} /\ Kinds["int"] = {"int", "text"}
      /\ Kinds["choice"] = {"text"} /\ Kinds["list"] = {"list", "text"}
  BY DEF Kinds
<1> HIDE DEF j
<1>5. Coerces(Table[k].type, j)
  BY <1>2, <1>3, <1>4 DEF Coerces
<1>6. Coerced(Table[k].type, j) = values[k]
  BY <1>2, <1>3 DEF Coerced
<1> QED  BY <1>1, <1>5, <1>6

\* The invariant is inductive.
LEMMA OptionsInvNext == OptionsInv /\ [OptionsNext]_optionsVars => OptionsInv'
<1> SUFFICES ASSUME OptionsInv, [OptionsNext]_optionsVars  PROVE OptionsInv'
  OBVIOUS
<1>0. /\ args \in CommandLines /\ IsTable(values) /\ applied \in 0 .. Len(args)
      /\ Len(args) \in Nat
  BY ArgumentsAre DEF OptionsInv
<1>1. CASE UNCHANGED args /\ UNCHANGED applied /\ UNCHANGED merged /\ UNCHANGED values
           /\ stage' = "user error"
  <2>1. FilesDone' = FilesDone
    BY <1>1 DEF FilesDone, Pending
  <2>2. FlagsWin'
    BY <1>1 DEF FlagsWin, Accepted
  <2>3. IsTable(values)'
    BY <1>0, <1>1
  <2> QED  BY <1>0, <1>1, <2>1, <2>2, <2>3 DEF OptionsInv
<1>2. CASE Scan
  <2>1. CASE Fail
    BY <1>1, <2>1 DEF Fail
  <2>2. CASE stage' = "files" /\ UNCHANGED <<args, merged, applied, values, child>>
    <3>1. applied = 0
      BY <1>2 DEF OptionsInv, Scan
    <3>2. FlagsWin'
      BY <2>2 DEF FlagsWin, Accepted
    <3>3. (\A k \in Keys : Follows(k, values, applied))'
      <4>1. \A k : UpTo(k, 0) = {}
        <5>1. \A k : UpTo(k, 0) \subseteq 1 .. Len(args)
          BY <1>0, BeyondIsFinite
        <5> QED  BY <1>0, <5>1 DEF UpTo
      <4>2. \A k \in Keys : Follows(k, values, 0)
        BY <4>1 DEF Follows
      <4>3. \A k : Follows(k, values, 0)' <=> Follows(k, values, 0)
        BY <2>2 DEF Follows, UpTo, Beyond, GivenAt
      <4> QED  BY <2>2, <3>1, <4>2, <4>3
    <3>4. IsTable(values)'
      BY <1>0, <2>2
    <3> QED  BY <1>0, <2>2, <3>1, <3>2, <3>3, <3>4 DEF OptionsInv
  <2> QED  BY <1>2, <2>1, <2>2 DEF Scan
<1>3. CASE MergeFile
  <2>1. PICK i \in DOMAIN args :
          /\ IsFirst(i, Pending("config", merged))
          /\ IF ~ Readable(args[i].file) THEN Fail
             ELSE /\ values' = Merged(args[i].file, values)
                  /\ merged' = i
                  /\ UNCHANGED <<args, stage, applied, child>>
    BY <1>3 DEF MergeFile
  <2>2. CASE Fail
    BY <1>1, <2>2 DEF Fail
  <2>3. CASE /\ Readable(args[i].file) /\ values' = Merged(args[i].file, values)
             /\ UNCHANGED <<args, stage, applied, child>>
    <3>1. applied = 0
      BY <2>1 DEF OptionsInv, FilesDone, IsFirst
    <3>2. IsTable(values)'
      <4>1. PICK v : v = Merged(args[i].file, values)
        OBVIOUS
      <4>2. IsTable(v)
        BY <1>0, <2>3, <4>1, MergedIsTable
      <4> QED  BY <2>3, <4>1, <4>2
    <3>3. stage' = "files"
      BY <1>3, <2>3 DEF MergeFile
    <3>4. FlagsWin'
      BY <3>3 DEF FlagsWin, Accepted
    <3>5. (\A k \in Keys : Follows(k, values, applied))'
      <4>1. \A k : UpTo(k, 0) = {}
        <5>1. \A k : UpTo(k, 0) \subseteq 1 .. Len(args)
          BY <1>0, BeyondIsFinite
        <5> QED  BY <1>0, <5>1 DEF UpTo
      <4>2. \A k : UpTo(k, 0)' = {}
        BY <2>3, <4>1 DEF UpTo, GivenAt
      <4> QED  BY <2>3, <3>1, <4>2 DEF Follows
    <3> QED  BY <1>0, <2>3, <3>1, <3>2, <3>3, <3>4, <3>5 DEF OptionsInv
  <2> QED  BY <2>1, <2>2, <2>3
<1>4. CASE ApplyFlag
  <2>1. PICK i \in DOMAIN args :
          /\ IsFirst(i, Pending("flag", applied))
          /\ IF ~ Fits(Table[args[i].key].type, args[i].text) THEN Fail
             ELSE /\ values' = [values EXCEPT ![args[i].key] = Assigned(args[i].key, args[i].text)]
                  /\ applied' = i
                  /\ UNCHANGED <<args, stage, merged, child>>
    BY <1>4 DEF ApplyFlag
  <2>2. CASE Fail
    BY <1>1, <2>2 DEF Fail
  <2>3. CASE /\ values' = [values EXCEPT ![args[i].key] = Assigned(args[i].key, args[i].text)]
             /\ applied' = i /\ UNCHANGED <<args, stage, merged, child>>
    <3>0. stage = "files" /\ FilesDone
      BY <1>4 DEF ApplyFlag
    <3>1. PICK w : w = [values EXCEPT ![args[i].key] = Assigned(args[i].key, args[i].text)]
      OBVIOUS
    <3>2. \A k \in Keys : Follows(k, values, applied)
      BY <3>0 DEF OptionsInv
    <3>3. IsTable(w) /\ \A k \in Keys : Follows(k, w, i)
      BY <1>0, <2>1, <3>1, <3>2, ApplyFollows
    <3>4. (\A k \in Keys : Follows(k, values, applied))'
      BY <2>3, <3>1, <3>3 DEF Follows, UpTo, Beyond, GivenAt
    <3>5. IsTable(values)'
      BY <2>3, <3>1, <3>3
    <3>6. FlagsWin'
      BY <2>3, <3>0 DEF FlagsWin, Accepted
    <3>7. FilesDone'
      BY <2>3, <3>0 DEF FilesDone, Pending
    <3>8. applied' \in 0 .. Len(args')
      <4>1. DOMAIN args = 1 .. Len(args)
        BY <1>0, ArgumentsAre
      <4>2. i \in 0 .. Len(args)
        BY <1>0, <4>1
      <4> QED  BY <2>3, <4>2
    <3> QED  BY <1>0, <2>3, <3>0, <3>4, <3>5, <3>6, <3>7, <3>8 DEF OptionsInv
  <2> QED  BY <2>1, <2>2, <2>3
<1>5. CASE Conclude
  <2>1. /\ stage = "files" /\ FilesDone /\ Pending("flag", applied) = {}
        /\ values' = Implied /\ stage' = "parsed"
        /\ UNCHANGED <<args, merged, applied, child>>
    BY <1>5 DEF Conclude
  <2>2. \A k \in Keys : Follows(k, values, applied)
    BY <2>1 DEF OptionsInv
  <2>3. PICK w : w = Implied
    OBVIOUS
  <2>4. IsTable(values)'
    <3>1. IsTable(w)
      BY <1>0, <2>3, ImpliedIsTable
    <3> QED  BY <2>1, <2>3, <3>1
  <2>5. FlagsWin'
    <3>1. \A k : GivenAt(k)' = GivenAt(k)
      BY <2>1 DEF GivenAt
    <3>2. \A k, i : Later(i, k)' = Later(i, k)
      BY <3>1 DEF Later
    <3>3. \A k \in Keys : Settled(k)' = Implied[k]
      BY <2>1 DEF Settled
    <3>4. ASSUME NEW k \in Keys, NEW i \in GivenAt(k)'
          PROVE (IF Table[k].type = "list"
                THEN LET fromEnd == Cardinality(Later(i, k))
                     IN  /\ fromEnd < Len(Settled(k))
                         /\ Settled(k)[Len(Settled(k)) - fromEnd] = args[i].text
                ELSE Later(i, k) = {} =>
                       Settled(k) = Parsed(Table[k].type, args[i].text) \/ Overruled(k))'
      <4>1. i \in GivenAt(k)
        BY <3>1
      <4>2. Overruled(k)' <=> Overruled(k)
        BY <1>0, <2>1, OverruledStays
      <4>3. IF Table[k].type = "list"
            THEN /\ Cardinality(Later(i, k)) < Len(Implied[k])
                 /\ Implied[k][Len(Implied[k]) - Cardinality(Later(i, k))] = args[i].text
            ELSE Later(i, k) = {} =>
                   Implied[k] = Parsed(Table[k].type, args[i].text) \/ Overruled(k)
        BY <1>0, <2>1, <2>2, <4>1, ConcludedFollows
      <4> QED  BY <2>1, <3>2, <3>3, <4>2, <4>3
    <3> QED  BY <2>1, <3>4 DEF FlagsWin
  <2>6. FilesDone'
    BY <2>1 DEF FilesDone, Pending
  <2> QED  BY <1>0, <2>1, <2>4, <2>5, <2>6 DEF OptionsInv
<1>6. CASE Validate
  <2>1. CASE Fail
    BY <1>1, <2>1 DEF Fail
  <2>2. CASE stage = "parsed" /\ stage' = "running" /\ UNCHANGED <<args, merged, applied, values, child>>
    <3>1. FlagsWin
      BY DEF OptionsInv
    <3>2. /\ \A k : GivenAt(k)' = GivenAt(k)
          /\ \A k, i : Later(i, k)' = Later(i, k)
          /\ \A k : Overruled(k)' <=> Overruled(k)
      BY <2>2 DEF GivenAt, Later, Overruled, Strategy, Given
    <3>3. \A k : Settled(k)' = Settled(k)
      BY <2>2 DEF Settled
    <3>4. FlagsWin'
      BY <2>2, <3>1, <3>2, <3>3 DEF FlagsWin, Accepted
    <3>5. FilesDone' = FilesDone
      BY <2>2 DEF FilesDone, Pending
    <3>6. IsTable(values)'
      BY <1>0, <2>2
    <3> QED  BY <1>0, <2>2, <3>4, <3>5, <3>6 DEF OptionsInv
  <2> QED  BY <1>6, <2>1, <2>2 DEF Validate
<1>7. CASE BlockReads
  <2>1. \A k \in Keys : Coerces(Table[k].type, Effective[k])
    BY ChildSees
  <2>2. /\ stage = "running" /\ stage' = "block"
        /\ child' = [k \in Keys |-> Coerced(Table[k].type, Effective[k])]
        /\ UNCHANGED <<args, merged, applied, values>>
    BY <1>7, <2>1 DEF BlockReads
  <2>3. \A k \in Keys : child'[k] = values[k]
    BY <2>2, ChildSees
  <2>4. FlagsWin
    BY DEF OptionsInv
  <2>5. /\ \A k : GivenAt(k)' = GivenAt(k)
        /\ \A k, i : Later(i, k)' = Later(i, k)
        /\ \A k : Overruled(k)' <=> Overruled(k)
    BY <2>2 DEF GivenAt, Later, Overruled, Strategy, Given
  <2>6. \A k \in Keys : Settled(k)' = Settled(k)
    BY <2>2, <2>3 DEF Settled
  <2>7. FlagsWin'
    BY <2>2, <2>3, <2>4, <2>5, <2>6 DEF FlagsWin, Accepted
  <2>8. FilesDone' = FilesDone
    BY <2>2 DEF FilesDone, Pending
  <2>9. IsTable(values)'
    BY <1>0, <2>2
  <2> QED  BY <1>0, <2>2, <2>7, <2>8, <2>9 DEF OptionsInv
<1>8. CASE UNCHANGED optionsVars
  <2>1. UNCHANGED <<args, stage, merged, applied, values, child>>
    BY <1>8 DEF optionsVars
  <2>2. /\ \A k : GivenAt(k)' = GivenAt(k)
        /\ \A k, i : Later(i, k)' = Later(i, k)
        /\ \A k : Overruled(k)' <=> Overruled(k)
        /\ \A k : Settled(k)' = Settled(k)
    BY <2>1 DEF GivenAt, Later, Overruled, Strategy, Given, Settled
  <2>3. FlagsWin'
    BY <2>1, <2>2 DEF OptionsInv, FlagsWin, Accepted
  <2>4. \A k, n : Follows(k, values, n)' <=> Follows(k, values, n)
    BY <2>1 DEF Follows, UpTo, Beyond, GivenAt
  <2>5. FilesDone' = FilesDone
    BY <2>1 DEF FilesDone, Pending
  <2>6. IsTable(values)'
    BY <1>0, <2>1
  <2>7. (stage = "files" => \A k \in Keys : Follows(k, values, applied))'
    BY <2>1 DEF OptionsInv, Follows, UpTo, Beyond, GivenAt
  <2> QED  BY <2>1, <2>3, <2>5, <2>6, <2>7 DEF OptionsInv
<1> QED  BY <1>2, <1>3, <1>4, <1>5, <1>6, <1>7, <1>8 DEF OptionsNext

\* What the flags applied so far decide, and that files come before flags.
THEOREM OptionsInvariant == OptionsSpec => []OptionsInv
<1> QED  BY OptionsInvInit, OptionsInvNext, PTL DEF OptionsSpec

\* For any config files and any command line (Options.cpp: parseCommandLine), the last
\* flag of a key, or all the items of a list, decide its value in the run and in
\* every block, but for the two rules.
THEOREM FlagsDecide == OptionsSpec => []FlagsWin
<1>1. OptionsInv => FlagsWin
  BY DEF OptionsInv
<1> QED  BY <1>1, OptionsInvariant, PTL

-----------------------------------------------------------------------------
(* Candidate: terms, by levels.                                            *)

\* What is derived in n levels is what the definition says, at each level.
LEMMA DerivedLevels ==
  ASSUME NEW base, NEW more, NEW unary, NEW binary, NEW depth \in Nat
  PROVE  LET D == Derived(base, more, unary, binary, depth)
         IN  /\ D = [n \in 0 .. depth |-> D[n]]
             /\ \A n \in 0 .. depth :
                  D[n] = base \union
                         IF n = 0 THEN {}
                         ELSE more \union (unary \X D[n - 1])
                                   \union (binary \X D[n - 1] \X D[n - 1])
<1> DEFINE Next(S) == base \union (more \union (unary \X S) \union (binary \X S \X S))
           Stage(g, n) == base \union
                          IF n = 0 THEN {}
                          ELSE more \union (unary \X g[n - 1])
                                    \union (binary \X g[n - 1] \X g[n - 1])
           T == {d \in Nat : \E g : g = [n \in 0 .. d |-> Stage(g, n)]}
<1>1. 0 \in T
  <2> DEFINE h == [n \in 0 .. 0 |-> base]
  <2>1. h = [n \in 0 .. 0 |-> Stage(h, n)]
    OBVIOUS
  <2> HIDE DEF h
  <2> QED
    BY <2>1
<1>2. ASSUME NEW d \in Nat, d \in T PROVE d + 1 \in T
  <2>1. PICK g : g = [n \in 0 .. d |-> Stage(g, n)]
    BY <1>2
  <2> DEFINE h == [n \in 0 .. d + 1 |-> IF n = d + 1 THEN Next(g[d]) ELSE g[n]]
  <2>2. \A n \in 0 .. d : h[n] = g[n]
    OBVIOUS
  <2>3. ASSUME NEW n \in 0 .. d + 1 PROVE h[n] = Stage(h, n)
    <3>1. CASE n = d + 1
      <4>1. n - 1 = d /\ h[d] = g[d] /\ n # 0
        BY <3>1, <2>2
      <4> QED
        BY <3>1, <4>1
    <3>2. CASE n # d + 1
      <4>1. n \in 0 .. d /\ (n # 0 => n - 1 \in 0 .. d)
        BY <3>2
      <4>2. h[n] = g[n] /\ g[n] = Stage(g, n) /\ (n # 0 => h[n - 1] = g[n - 1])
        BY <2>1, <2>2, <4>1
      <4> HIDE DEF h
      <4> QED
        BY <4>2
    <3> QED
      BY <3>1, <3>2
  <2>4. h = [n \in 0 .. d + 1 |-> Stage(h, n)]
    <3>1. h = [n \in 0 .. d + 1 |-> h[n]]
      OBVIOUS
    <3> HIDE DEF h
    <3> QED
      BY <2>3, <3>1
  <2>5. \E k : k = [n \in 0 .. d + 1 |-> Stage(k, n)]
    <3> HIDE DEF h, Stage
    <3> QED
      BY <2>4
  <2>6. d + 1 \in Nat
    OBVIOUS
  <2> HIDE DEF h, Stage
  <2> QED
    BY <2>5, <2>6, Zenon
<1>3. depth \in T
  <2> HIDE DEF T
  <2> QED
    BY <1>1, <1>2, EveryNat
<1>4. PICK f : f = [n \in 0 .. depth |-> Stage(f, n)]
  BY <1>3
<1>5. LET D == Derived(base, more, unary, binary, depth) IN D = [n \in 0 .. depth |-> Stage(D, n)]
  BY <1>4 DEF Derived
<1> DEFINE D == Derived(base, more, unary, binary, depth)
<1> HIDE DEF D
<1>6. D = [n \in 0 .. depth |-> Stage(D, n)]
  BY <1>5 DEF D
<1>7. \A n \in 0 .. depth : D[n] = Stage(D, n)
  BY <1>6
<1>8. D = [n \in 0 .. depth |-> D[n]]
  BY <1>6
<1> QED
  BY <1>7, <1>8 DEF D

\* What a term over names is made of.
Shape(t, unary, binary, S) ==
    \/ IsLeaf(t) /\ t = <<"name", t[2]>> /\ t[2] \in Identifiers
    \/ ~IsLeaf(t) /\ Len(t) = 2 /\ t = <<t[1], t[2]>> /\ t[1] \in unary /\ t[2] \in S
    \/ /\ ~IsLeaf(t) /\ Len(t) = 3 /\ t = <<t[1], t[2], t[3]>>
       /\ t[1] \in binary /\ t[2] \in S /\ t[3] \in S

Levels(unary, binary, depth) == Derived(Leaves, {}, unary, binary, depth)

\* The levels of terms over the names: each is in the next, and is made of the one
\* below.
LEMMA LevelsShape ==
  ASSUME NEW unary, NEW binary, NEW depth \in Nat, "name" \notin unary \union binary
  PROVE  LET D == Levels(unary, binary, depth)
         IN  /\ \A n \in 0 .. depth : Leaves \subseteq D[n]
             /\ \A n \in 1 .. depth : D[n - 1] \subseteq D[n]
             /\ \A t \in D[0] : Shape(t, unary, binary, {})
             /\ \A n \in 1 .. depth : \A t \in D[n] : Shape(t, unary, binary, D[n - 1])
             /\ \A n \in 1 .. depth : \A op \in unary, t \in D[n - 1] : <<op, t>> \in D[n]
             /\ \A n \in 1 .. depth : \A op \in binary, t, u \in D[n - 1] :
                  <<op, t, u>> \in D[n]
<1> DEFINE D == Levels(unary, binary, depth)
<1> HIDE DEF D
<1>1. \A n \in 0 .. depth :
        D[n] = Leaves \union
               IF n = 0 THEN {}
               ELSE {} \union (unary \X D[n - 1]) \union (binary \X D[n - 1] \X D[n - 1])
  BY DerivedLevels DEF D, Levels
<1>2. \A n \in 1 .. depth :
        D[n] = Leaves \union (unary \X D[n - 1]) \union (binary \X D[n - 1] \X D[n - 1])
  BY <1>1
<1>3. D[0] = Leaves
  BY <1>1
<1>4. \A n \in 0 .. depth : Leaves \subseteq D[n]
  BY <1>1
<1>5. \A n \in 1 .. depth : D[n - 1] \subseteq D[n]
  <2> DEFINE T == {n \in Nat : n + 1 =< depth => D[n] \subseteq D[n + 1]}
  <2>1. 0 \in T
    BY <1>3, <1>4
  <2>2. ASSUME NEW n \in Nat, n \in T PROVE n + 1 \in T
    <3>1. SUFFICES ASSUME n + 2 =< depth PROVE D[n + 1] \subseteq D[n + 2]
      OBVIOUS
    <3>2. D[n] \subseteq D[n + 1]
      BY <3>1, <2>2
    <3>3. /\ D[n + 1] = Leaves \union (unary \X D[n]) \union (binary \X D[n] \X D[n])
          /\ D[n + 2] = Leaves \union (unary \X D[n + 1])
                        \union (binary \X D[n + 1] \X D[n + 1])
      <4>1. n + 1 \in 1 .. depth /\ n + 2 \in 1 .. depth /\ n + 2 - 1 = n + 1 /\ n + 1 - 1 = n
        BY <3>1
      <4> QED
        BY <1>2, <4>1
    <3> QED
      BY <3>2, <3>3
  <2>3. Nat \subseteq T
    <3> HIDE DEF T
    <3> QED
      BY <2>1, <2>2, EveryNat
  <2>4. \A n \in 1 .. depth : n - 1 \in T /\ n - 1 + 1 = n
    BY <2>3
  <2> QED
    BY <2>4
<1>6. \A t \in Leaves : \A S : Shape(t, unary, binary, S)
  BY DEF Leaves, Shape, IsLeaf
<1>7. ASSUME NEW n \in 1 .. depth, NEW t \in D[n] PROVE Shape(t, unary, binary, D[n - 1])
  <2>1. CASE t \in Leaves
    BY <2>1, <1>6
  <2>2. CASE t \in unary \X D[n - 1]
    BY <2>2 DEF Shape, IsLeaf
  <2>3. CASE t \in binary \X D[n - 1] \X D[n - 1]
    BY <2>3 DEF Shape, IsLeaf
  <2> QED
    BY <2>1, <2>2, <2>3, <1>2
<1>8. \A t \in D[0] : Shape(t, unary, binary, {})
  BY <1>3, <1>6
<1>9. /\ \A n \in 1 .. depth : \A op \in unary, t \in D[n - 1] : <<op, t>> \in D[n]
      /\ \A n \in 1 .. depth : \A op \in binary, t, u \in D[n - 1] : <<op, t, u>> \in D[n]
  BY <1>2
<1> QED
  BY <1>4, <1>5, <1>7, <1>8, <1>9 DEF D

\* Every level is in the last.
LEMMA LevelsWithin ==
  ASSUME NEW unary, NEW binary, NEW depth \in Nat, "name" \notin unary \union binary,
         NEW n \in 0 .. depth
  PROVE  Levels(unary, binary, depth)[n] \subseteq Levels(unary, binary, depth)[depth]
<1> DEFINE D == Levels(unary, binary, depth)
           U == {k \in Nat : k =< depth => D[depth - k] \subseteq D[depth]}
<1> HIDE DEF D
<1>1. \A k \in 1 .. depth : D[k - 1] \subseteq D[k]
  BY LevelsShape DEF D
<1>2. 0 \in U
  OBVIOUS
<1>3. ASSUME NEW k \in Nat, k \in U PROVE k + 1 \in U
  <2>1. SUFFICES ASSUME k + 1 =< depth PROVE D[depth - (k + 1)] \subseteq D[depth]
    OBVIOUS
  <2>2. depth - k \in 1 .. depth /\ depth - (k + 1) = (depth - k) - 1
    BY <2>1
  <2>3. D[depth - (k + 1)] \subseteq D[depth - k]
    BY <2>2, <1>1
  <2> QED
    BY <2>3, <2>1, <1>3
<1>4. Nat \subseteq U
  <2> HIDE DEF U
  <2> QED
    BY <1>2, <1>3, EveryNat
<1>5. depth - n \in U /\ depth - (depth - n) = n /\ depth - n =< depth
  BY <1>4
<1> QED
  BY <1>5 DEF D

\* What holds of the names, and of a term when it holds of its arguments, holds
\* of all terms.
LEMMA TermInduction ==
  ASSUME NEW unary, NEW binary, NEW depth \in Nat, "name" \notin unary \union binary,
         NEW S,
         \A t \in Levels(unary, binary, depth)[depth] :
            Shape(t, unary, binary, S \cap Levels(unary, binary, depth)[depth]) => t \in S
  PROVE  Levels(unary, binary, depth)[depth] \subseteq S
<1> DEFINE D == Levels(unary, binary, depth)
           T == {n \in Nat : n =< depth => D[n] \subseteq S \cap D[depth]}
<1> HIDE DEF D
<1>0. /\ \A n \in 1 .. depth : D[n - 1] \subseteq D[n]
      /\ \A t \in D[0] : Shape(t, unary, binary, {})
      /\ \A n \in 1 .. depth : \A t \in D[n] : Shape(t, unary, binary, D[n - 1])
  BY LevelsShape DEF D
<1>1. \A n \in 0 .. depth : D[n] \subseteq D[depth]
  BY LevelsWithin DEF D
<1>2. \A t, R1, R2 : R1 \subseteq R2 /\ Shape(t, unary, binary, R1) => Shape(t, unary, binary, R2)
  BY DEF Shape
<1>3. \A t \in D[depth] : Shape(t, unary, binary, S \cap D[depth]) => t \in S
  BY DEF D
<1>4. 0 \in T
  <2>1. \A t \in D[0] : t \in D[depth] /\ Shape(t, unary, binary, S \cap D[depth])
    BY <1>0, <1>1, <1>2
  <2> QED
    BY <2>1, <1>3
<1>5. ASSUME NEW n \in Nat, n \in T PROVE n + 1 \in T
  <2>1. SUFFICES ASSUME n + 1 =< depth PROVE D[n + 1] \subseteq S \cap D[depth]
    OBVIOUS
  <2>2. n + 1 \in 1 .. depth /\ n + 1 - 1 = n /\ n + 1 \in 0 .. depth
    BY <2>1
  <2>3. D[n] \subseteq S \cap D[depth]
    BY <2>1, <1>5
  <2>4. \A t \in D[n + 1] : Shape(t, unary, binary, D[n])
    BY <2>2, <1>0
  <2>5. \A t \in D[n + 1] : t \in D[depth] /\ Shape(t, unary, binary, S \cap D[depth])
    BY <2>2, <2>3, <2>4, <1>1, <1>2
  <2> QED
    BY <2>5, <1>3
<1>6. Nat \subseteq T
  <2> HIDE DEF T
  <2> QED
    BY <1>4, <1>5, EveryNat
<1>7. depth \in T
  BY <1>6
<1> QED
  BY <1>7 DEF D

VerilogUnary == {"not", "!", "$unsigned"}
AllBinary == SmtBinary \union VerilogBinary
Smt == Levels({"not"}, SmtBinary, MaxDepth)
All == Levels(VerilogUnary, AllBinary, 2 * MaxDepth)

\* What the terms of the model are levels of.
LEMMA Operators ==
  /\ SmtTerms = Smt[MaxDepth] /\ AllTerms = All[2 * MaxDepth]
  /\ MaxDepth \in Nat /\ 2 * MaxDepth \in Nat
  /\ "name" \notin {"not"} \union SmtBinary
  /\ "name" \notin VerilogUnary \union AllBinary
<1>1. SmtTerms = Smt[MaxDepth] /\ AllTerms = All[2 * MaxDepth]
  BY DEF SmtTerms, AllTerms, Smt, All, Levels, VerilogUnary, AllBinary
<1>2. MaxDepth \in Nat /\ 2 * MaxDepth \in Nat
  BY CandidateAssumption
<1>3. "name" \notin {"not"} \union SmtBinary /\ "name" \notin VerilogUnary \union AllBinary
  BY DEF SmtBinary, VerilogUnary, AllBinary, VerilogBinary
<1> QED
  BY <1>1, <1>2, <1>3

\* The levels, counted from none.
LEMMA TermStages ==
  ASSUME NEW unary, NEW binary, NEW depth \in Nat, "name" \notin unary \union binary
  PROVE  \E W :
           /\ W[0] = {} /\ W[depth + 1] = Levels(unary, binary, depth)[depth]
           /\ \A n \in 0 .. depth : W[n] \subseteq W[n + 1]
           /\ \A n \in 0 .. depth : \A t \in W[n + 1] : Shape(t, unary, binary, W[n])
<1> DEFINE D == Levels(unary, binary, depth)
           W == [n \in 0 .. depth + 1 |-> IF n = 0 THEN {} ELSE D[n - 1]]
<1> HIDE DEF D
<1>0. /\ \A n \in 1 .. depth : D[n - 1] \subseteq D[n]
      /\ \A t \in D[0] : Shape(t, unary, binary, {})
      /\ \A n \in 1 .. depth : \A t \in D[n] : Shape(t, unary, binary, D[n - 1])
  BY LevelsShape DEF D
<1>1. W[0] = {} /\ \A n \in 0 .. depth : W[n + 1] = D[n]
  OBVIOUS
<1>2. \A n \in 1 .. depth : W[n] = D[n - 1]
  OBVIOUS
<1> HIDE DEF W
<1>3. ASSUME NEW n \in 0 .. depth
      PROVE  W[n] \subseteq W[n + 1] /\ \A t \in W[n + 1] : Shape(t, unary, binary, W[n])
  <2>1. CASE n = 0
    BY <2>1, <1>0, <1>1
  <2>2. CASE n # 0
    BY <2>2, <1>0, <1>1, <1>2
  <2> QED
    BY <2>1, <2>2
<1>4. W[depth + 1] = Levels(unary, binary, depth)[depth]
  BY <1>1 DEF D
<1> WITNESS W
<1> QED
  BY <1>1, <1>3, <1>4

-----------------------------------------------------------------------------
(* The functions over terms are what their definitions say.                *)

\* The names of a term are what the definition of NameList says.
LEMMA NameListIs ==
  \A t \in AllTerms :
    NameList[t] = IF IsLeaf(t) THEN <<t[2]>>
                  ELSE IF Len(t) = 2 THEN NameList[t[2]] ELSE NameList[t[2]] \o NameList[t[3]]
<1> DEFINE B(g, t) == IF IsLeaf(t) THEN <<t[2]>>
                      ELSE IF Len(t) = 2 THEN g[t[2]] ELSE g[t[2]] \o g[t[3]]
<1>0. PICK W :
        /\ W[0] = {} /\ W[(2 * MaxDepth) + 1] = AllTerms
        /\ \A n \in 0 .. (2 * MaxDepth) : W[n] \subseteq W[n + 1]
        /\ \A n \in 0 .. (2 * MaxDepth) : \A t \in W[n + 1] : Shape(t, VerilogUnary, AllBinary, W[n])
  BY TermStages, Operators DEF All
<1> DEFINE T == {n \in Nat : n =< (2 * MaxDepth) + 1 => \E g : g = [t \in W[n] |-> B(g, t)]}
<1>1. 0 \in T
  <2> DEFINE h == [t \in W[0] |-> <<>>]
  <2>1. h = [t \in W[0] |-> B(h, t)]
    BY <1>0
  <2> HIDE DEF h, B
  <2> QED
    BY <2>1
<1>2. ASSUME NEW n \in Nat, n \in T PROVE n + 1 \in T
  <2> HIDE DEF B
  <2>1. SUFFICES ASSUME n + 1 =< (2 * MaxDepth) + 1 PROVE \E k : k = [t \in W[n + 1] |-> B(k, t)]
    <3>1. n + 1 \in Nat
      OBVIOUS
    <3> QED
      BY <3>1, Zenon
  <2>2. n \in 0 .. (2 * MaxDepth) /\ n =< (2 * MaxDepth) + 1
    BY <2>1, Operators
  <2>3. PICK g : g = [t \in W[n] |-> B(g, t)]
    BY <2>2, <1>2
  <2> DEFINE h == [t \in W[n + 1] |-> B(g, t)]
  <2>4. \A t \in W[n] : h[t] = g[t]
    <3>1. \A t \in W[n] : h[t] = B(g, t)
      BY <2>2, <1>0
    <3>2. \A t \in W[n] : g[t] = B(g, t)
      BY <2>3
    <3> QED
      BY <3>1, <3>2
  <2>5. ASSUME NEW t \in W[n + 1] PROVE B(h, t) = B(g, t)
    <3> HIDE DEF h
    <3> QED
      BY <2>2, <2>4, <1>0 DEF Shape, B
  <2>6. h = [t \in W[n + 1] |-> B(h, t)]
    BY <2>5
  <2> HIDE DEF h
  <2> QED
    BY <2>6
<1>3. \E g : g = [t \in W[(2 * MaxDepth) + 1] |-> B(g, t)]
  <2>1. (2 * MaxDepth) + 1 \in T
    <3> HIDE DEF T
    <3> QED
      BY <1>1, <1>2, EveryNat, Operators
  <2>2. (2 * MaxDepth) + 1 =< (2 * MaxDepth) + 1
    BY Operators
  <2> HIDE DEF B
  <2> QED
    BY <2>1, <2>2
<1>4. PICK g : g = [t \in AllTerms |-> B(g, t)]
  <2> HIDE DEF B
  <2> QED
    BY <1>0, <1>3
<1>5. NameList = [t \in AllTerms |-> B(NameList, t)]
  BY <1>4 DEF NameList
<1> QED
  BY <1>5

\* Renamed terms are what the definition says.
LEMMA RenamedIs ==
  ASSUME NEW to PROVE
  \A t \in SmtTerms :
    Renamed(to)[t] = IF IsLeaf(t) THEN <<"name", to[t[2]]>>
                     ELSE IF Len(t) = 2 THEN <<t[1], Renamed(to)[t[2]]>>
                     ELSE <<t[1], Renamed(to)[t[2]], Renamed(to)[t[3]]>>
<1> DEFINE B(g, t) == IF IsLeaf(t) THEN <<"name", to[t[2]]>>
                      ELSE IF Len(t) = 2 THEN <<t[1], g[t[2]]>>
                      ELSE <<t[1], g[t[2]], g[t[3]]>>
<1>0. PICK W :
        /\ W[0] = {} /\ W[MaxDepth + 1] = SmtTerms
        /\ \A n \in 0 .. MaxDepth : W[n] \subseteq W[n + 1]
        /\ \A n \in 0 .. MaxDepth : \A t \in W[n + 1] : Shape(t, {"not"}, SmtBinary, W[n])
  BY TermStages, Operators DEF Smt
<1> DEFINE T == {n \in Nat : n =< MaxDepth + 1 => \E g : g = [t \in W[n] |-> B(g, t)]}
<1>1. 0 \in T
  <2> DEFINE h == [t \in W[0] |-> <<>>]
  <2>1. h = [t \in W[0] |-> B(h, t)]
    BY <1>0
  <2> HIDE DEF h, B
  <2> QED
    BY <2>1
<1>2. ASSUME NEW n \in Nat, n \in T PROVE n + 1 \in T
  <2> HIDE DEF B
  <2>1. SUFFICES ASSUME n + 1 =< MaxDepth + 1 PROVE \E k : k = [t \in W[n + 1] |-> B(k, t)]
    <3>1. n + 1 \in Nat
      OBVIOUS
    <3> QED
      BY <3>1, Zenon
  <2>2. n \in 0 .. MaxDepth /\ n =< MaxDepth + 1
    BY <2>1, Operators
  <2>3. PICK g : g = [t \in W[n] |-> B(g, t)]
    BY <2>2, <1>2
  <2> DEFINE h == [t \in W[n + 1] |-> B(g, t)]
  <2>4. \A t \in W[n] : h[t] = g[t]
    <3>1. \A t \in W[n] : h[t] = B(g, t)
      BY <2>2, <1>0
    <3>2. \A t \in W[n] : g[t] = B(g, t)
      BY <2>3
    <3> QED
      BY <3>1, <3>2
  <2>5. ASSUME NEW t \in W[n + 1] PROVE B(h, t) = B(g, t)
    <3> HIDE DEF h
    <3> QED
      BY <2>2, <2>4, <1>0 DEF Shape, B
  <2>6. h = [t \in W[n + 1] |-> B(h, t)]
    BY <2>5
  <2> HIDE DEF h
  <2> QED
    BY <2>6
<1>3. \E g : g = [t \in W[MaxDepth + 1] |-> B(g, t)]
  <2>1. MaxDepth + 1 \in T
    <3> HIDE DEF T
    <3> QED
      BY <1>1, <1>2, EveryNat, Operators
  <2>2. MaxDepth + 1 =< MaxDepth + 1
    BY Operators
  <2> HIDE DEF B
  <2> QED
    BY <2>1, <2>2
<1>4. PICK g : g = [t \in SmtTerms |-> B(g, t)]
  <2> HIDE DEF B
  <2> QED
    BY <1>0, <1>3
<1>5. Renamed(to) = [t \in SmtTerms |-> B(Renamed(to), t)]
  BY <1>4 DEF Renamed
<1> QED
  BY <1>5

\* The values of terms are what the definition says.
LEMMA ValueIs ==
  ASSUME NEW env PROVE
  \A t \in SmtTerms :
    Value(env)[t] = IF IsLeaf(t) THEN env[t[2]]
                    ELSE IF Len(t) = 2 THEN Bit(Value(env)[t[2]] = 0)
                    ELSE Bit(True(t[1], Value(env)[t[2]], Value(env)[t[3]]))
<1> DEFINE B(g, t) == IF IsLeaf(t) THEN env[t[2]]
                      ELSE IF Len(t) = 2 THEN Bit(g[t[2]] = 0)
                      ELSE Bit(True(t[1], g[t[2]], g[t[3]]))
<1>0. PICK W :
        /\ W[0] = {} /\ W[MaxDepth + 1] = SmtTerms
        /\ \A n \in 0 .. MaxDepth : W[n] \subseteq W[n + 1]
        /\ \A n \in 0 .. MaxDepth : \A t \in W[n + 1] : Shape(t, {"not"}, SmtBinary, W[n])
  BY TermStages, Operators DEF Smt
<1> DEFINE T == {n \in Nat : n =< MaxDepth + 1 => \E g : g = [t \in W[n] |-> B(g, t)]}
<1>1. 0 \in T
  <2> DEFINE h == [t \in W[0] |-> <<>>]
  <2>1. h = [t \in W[0] |-> B(h, t)]
    BY <1>0
  <2> HIDE DEF h, B
  <2> QED
    BY <2>1
<1>2. ASSUME NEW n \in Nat, n \in T PROVE n + 1 \in T
  <2> HIDE DEF B
  <2>1. SUFFICES ASSUME n + 1 =< MaxDepth + 1 PROVE \E k : k = [t \in W[n + 1] |-> B(k, t)]
    <3>1. n + 1 \in Nat
      OBVIOUS
    <3> QED
      BY <3>1, Zenon
  <2>2. n \in 0 .. MaxDepth /\ n =< MaxDepth + 1
    BY <2>1, Operators
  <2>3. PICK g : g = [t \in W[n] |-> B(g, t)]
    BY <2>2, <1>2
  <2> DEFINE h == [t \in W[n + 1] |-> B(g, t)]
  <2>4. \A t \in W[n] : h[t] = g[t]
    <3>1. \A t \in W[n] : h[t] = B(g, t)
      BY <2>2, <1>0
    <3>2. \A t \in W[n] : g[t] = B(g, t)
      BY <2>3
    <3> QED
      BY <3>1, <3>2
  <2>5. ASSUME NEW t \in W[n + 1] PROVE B(h, t) = B(g, t)
    <3> HIDE DEF h
    <3> QED
      BY <2>2, <2>4, <1>0 DEF Shape, B
  <2>6. h = [t \in W[n + 1] |-> B(h, t)]
    BY <2>5
  <2> HIDE DEF h
  <2> QED
    BY <2>6
<1>3. \E g : g = [t \in W[MaxDepth + 1] |-> B(g, t)]
  <2>1. MaxDepth + 1 \in T
    <3> HIDE DEF T
    <3> QED
      BY <1>1, <1>2, EveryNat, Operators
  <2>2. MaxDepth + 1 =< MaxDepth + 1
    BY Operators
  <2> HIDE DEF B
  <2> QED
    BY <2>1, <2>2
<1>4. PICK g : g = [t \in SmtTerms |-> B(g, t)]
  <2> HIDE DEF B
  <2> QED
    BY <1>0, <1>3
<1>5. Value(env) = [t \in SmtTerms |-> B(Value(env), t)]
  BY <1>4 DEF Value
<1> QED
  BY <1>5

\* Printed terms are what the definition says.
LEMMA PrintedIs ==
  \A t \in SmtTerms :
    Printed[t] = IF IsLeaf(t) THEN t
                 ELSE IF Len(t) = 2 THEN <<"!", Printed[t[2]]>>
                 ELSE <<Verilog[t[1]], Operand(t[1], Printed[t[2]]), Operand(t[1], Printed[t[3]])>>
<1> DEFINE B(g, t) == IF IsLeaf(t) THEN t
                      ELSE IF Len(t) = 2 THEN <<"!", g[t[2]]>>
                      ELSE <<Verilog[t[1]], Operand(t[1], g[t[2]]), Operand(t[1], g[t[3]])>>
<1>0. PICK W :
        /\ W[0] = {} /\ W[MaxDepth + 1] = SmtTerms
        /\ \A n \in 0 .. MaxDepth : W[n] \subseteq W[n + 1]
        /\ \A n \in 0 .. MaxDepth : \A t \in W[n + 1] : Shape(t, {"not"}, SmtBinary, W[n])
  BY TermStages, Operators DEF Smt
<1> DEFINE T == {n \in Nat : n =< MaxDepth + 1 => \E g : g = [t \in W[n] |-> B(g, t)]}
<1>1. 0 \in T
  <2> DEFINE h == [t \in W[0] |-> <<>>]
  <2>1. h = [t \in W[0] |-> B(h, t)]
    BY <1>0
  <2> HIDE DEF h, B
  <2> QED
    BY <2>1
<1>2. ASSUME NEW n \in Nat, n \in T PROVE n + 1 \in T
  <2> HIDE DEF B
  <2>1. SUFFICES ASSUME n + 1 =< MaxDepth + 1 PROVE \E k : k = [t \in W[n + 1] |-> B(k, t)]
    <3>1. n + 1 \in Nat
      OBVIOUS
    <3> QED
      BY <3>1, Zenon
  <2>2. n \in 0 .. MaxDepth /\ n =< MaxDepth + 1
    BY <2>1, Operators
  <2>3. PICK g : g = [t \in W[n] |-> B(g, t)]
    BY <2>2, <1>2
  <2> DEFINE h == [t \in W[n + 1] |-> B(g, t)]
  <2>4. \A t \in W[n] : h[t] = g[t]
    <3>1. \A t \in W[n] : h[t] = B(g, t)
      BY <2>2, <1>0
    <3>2. \A t \in W[n] : g[t] = B(g, t)
      BY <2>3
    <3> QED
      BY <3>1, <3>2
  <2>5. ASSUME NEW t \in W[n + 1] PROVE B(h, t) = B(g, t)
    <3> HIDE DEF h
    <3> QED
      BY <2>2, <2>4, <1>0 DEF Shape, B
  <2>6. h = [t \in W[n + 1] |-> B(h, t)]
    BY <2>5
  <2> HIDE DEF h
  <2> QED
    BY <2>6
<1>3. \E g : g = [t \in W[MaxDepth + 1] |-> B(g, t)]
  <2>1. MaxDepth + 1 \in T
    <3> HIDE DEF T
    <3> QED
      BY <1>1, <1>2, EveryNat, Operators
  <2>2. MaxDepth + 1 =< MaxDepth + 1
    BY Operators
  <2> HIDE DEF B
  <2> QED
    BY <2>1, <2>2
<1>4. PICK g : g = [t \in SmtTerms |-> B(g, t)]
  <2> HIDE DEF B
  <2> QED
    BY <1>0, <1>3
<1>5. Printed = [t \in SmtTerms |-> B(Printed, t)]
  BY <1>4 DEF Printed
<1> QED
  BY <1>5

\* The values of SystemVerilog terms are what the definition says.
LEMMA EvaluatedIs ==
  ASSUME NEW env PROVE
  \A t \in AllTerms :
    Evaluated(env)[t] = IF IsLeaf(t) THEN env[t[2]]
                        ELSE IF Len(t) = 2
                        THEN IF t[1] = "!" THEN Bit(Evaluated(env)[t[2]] = 0) ELSE Evaluated(env)[t[2]]
                        ELSE Bit(\/ VerilogTrue(t[1], Evaluated(env)[t[2]], Evaluated(env)[t[3]])
                                 \/ IF Signed(t[2]) /\ Signed(t[3])
                                    THEN Less(t[1], TwosComplement(Evaluated(env)[t[2]], Half(t[2])),
                                                    TwosComplement(Evaluated(env)[t[3]], Half(t[3])))
                                    ELSE Less(t[1], Evaluated(env)[t[2]], Evaluated(env)[t[3]]))
<1> DEFINE B(g, t) == IF IsLeaf(t) THEN env[t[2]]
                      ELSE IF Len(t) = 2
                      THEN IF t[1] = "!" THEN Bit(g[t[2]] = 0) ELSE g[t[2]]
                      ELSE Bit(\/ VerilogTrue(t[1], g[t[2]], g[t[3]])
                               \/ IF Signed(t[2]) /\ Signed(t[3])
                                  THEN Less(t[1], TwosComplement(g[t[2]], Half(t[2])),
                                                  TwosComplement(g[t[3]], Half(t[3])))
                                  ELSE Less(t[1], g[t[2]], g[t[3]]))
<1>0. PICK W :
        /\ W[0] = {} /\ W[(2 * MaxDepth) + 1] = AllTerms
        /\ \A n \in 0 .. (2 * MaxDepth) : W[n] \subseteq W[n + 1]
        /\ \A n \in 0 .. (2 * MaxDepth) : \A t \in W[n + 1] : Shape(t, VerilogUnary, AllBinary, W[n])
  BY TermStages, Operators DEF All
<1> DEFINE T == {n \in Nat : n =< (2 * MaxDepth) + 1 => \E g : g = [t \in W[n] |-> B(g, t)]}
<1>1. 0 \in T
  <2> DEFINE h == [t \in W[0] |-> <<>>]
  <2>1. h = [t \in W[0] |-> B(h, t)]
    BY <1>0
  <2> HIDE DEF h, B
  <2> QED
    BY <2>1
<1>2. ASSUME NEW n \in Nat, n \in T PROVE n + 1 \in T
  <2> HIDE DEF B
  <2>1. SUFFICES ASSUME n + 1 =< (2 * MaxDepth) + 1 PROVE \E k : k = [t \in W[n + 1] |-> B(k, t)]
    <3>1. n + 1 \in Nat
      OBVIOUS
    <3> QED
      BY <3>1, Zenon
  <2>2. n \in 0 .. (2 * MaxDepth) /\ n =< (2 * MaxDepth) + 1
    BY <2>1, Operators
  <2>3. PICK g : g = [t \in W[n] |-> B(g, t)]
    BY <2>2, <1>2
  <2> DEFINE h == [t \in W[n + 1] |-> B(g, t)]
  <2>4. \A t \in W[n] : h[t] = g[t]
    <3>1. \A t \in W[n] : h[t] = B(g, t)
      BY <2>2, <1>0
    <3>2. \A t \in W[n] : g[t] = B(g, t)
      BY <2>3
    <3> QED
      BY <3>1, <3>2
  <2>5. ASSUME NEW t \in W[n + 1] PROVE B(h, t) = B(g, t)
    <3> HIDE DEF h
    <3> QED
      BY <2>2, <2>4, <1>0 DEF Shape, B
  <2>6. h = [t \in W[n + 1] |-> B(h, t)]
    BY <2>5
  <2> HIDE DEF h
  <2> QED
    BY <2>6
<1>3. \E g : g = [t \in W[(2 * MaxDepth) + 1] |-> B(g, t)]
  <2>1. (2 * MaxDepth) + 1 \in T
    <3> HIDE DEF T
    <3> QED
      BY <1>1, <1>2, EveryNat, Operators
  <2>2. (2 * MaxDepth) + 1 =< (2 * MaxDepth) + 1
    BY Operators
  <2> HIDE DEF B
  <2> QED
    BY <2>1, <2>2
<1>4. PICK g : g = [t \in AllTerms |-> B(g, t)]
  <2> HIDE DEF B
  <2> QED
    BY <1>0, <1>3
<1>5. Evaluated(env) = [t \in AllTerms |-> B(Evaluated(env), t)]
  BY <1>4 DEF Evaluated
<1> QED
  BY <1>5

-----------------------------------------------------------------------------
(* What they make of a term.                                               *)

\* What terms are made of are terms.
LEMMA SmtShape == \A t \in SmtTerms : Shape(t, {"not"}, SmtBinary, SmtTerms)
<1>1. PICK W :
        /\ W[MaxDepth + 1] = SmtTerms
        /\ \A n \in 0 .. MaxDepth : W[n] \subseteq W[n + 1]
        /\ \A n \in 0 .. MaxDepth : \A t \in W[n + 1] : Shape(t, {"not"}, SmtBinary, W[n])
  BY TermStages, Operators DEF Smt
<1>2. MaxDepth \in 0 .. MaxDepth
  BY Operators
<1> QED
  BY <1>1, <1>2 DEF Shape

\* With those of SystemVerilog too.
LEMMA AllShape == \A t \in AllTerms : Shape(t, VerilogUnary, AllBinary, AllTerms)
<1>1. PICK W :
        /\ W[2 * MaxDepth + 1] = AllTerms
        /\ \A n \in 0 .. 2 * MaxDepth : W[n] \subseteq W[n + 1]
        /\ \A n \in 0 .. 2 * MaxDepth : \A t \in W[n + 1] :
             Shape(t, VerilogUnary, AllBinary, W[n])
  BY TermStages, Operators DEF All
<1>2. 2 * MaxDepth \in 0 .. 2 * MaxDepth
  BY Operators
<1> QED
  BY <1>1, <1>2 DEF Shape

\* What holds of a SyGuS term when it holds of its arguments holds of all.
LEMMA SmtInduction ==
  ASSUME NEW S, \A t \in SmtTerms : Shape(t, {"not"}, SmtBinary, S \cap SmtTerms) => t \in S
  PROVE  SmtTerms \subseteq S
BY TermInduction, Operators DEF Smt

\* Terms have names.
LEMMA NameListType ==
  \A t \in AllTerms : NameList[t] \in Seq(Identifiers) /\ NameList[t] # <<>>
<1> DEFINE S == {t \in AllTerms : NameList[t] \in Seq(Identifiers) /\ NameList[t] # <<>>}
<1>1. ASSUME NEW t \in AllTerms, Shape(t, VerilogUnary, AllBinary, S \cap AllTerms)
      PROVE  t \in S
  <2>1. CASE IsLeaf(t)
    <3>1. NameList[t] = <<t[2]>> /\ t[2] \in Identifiers
      BY <2>1, <1>1, NameListIs DEF Shape
    <3>2. <<t[2]>> \in Seq(Identifiers) /\ <<t[2]>> # <<>>
      BY <3>1
    <3> QED
      BY <3>1, <3>2
  <2>2. CASE ~IsLeaf(t) /\ Len(t) = 2
    BY <2>2, <1>1, NameListIs DEF Shape
  <2>3. CASE ~IsLeaf(t) /\ Len(t) # 2
    <3>1. /\ NameList[t] = NameList[t[2]] \o NameList[t[3]]
          /\ NameList[t[2]] \in Seq(Identifiers) /\ NameList[t[2]] # <<>>
          /\ NameList[t[3]] \in Seq(Identifiers) /\ NameList[t[3]] # <<>>
      BY <2>3, <1>1, NameListIs DEF Shape
    <3>2. /\ NameList[t[2]] \o NameList[t[3]] \in Seq(Identifiers)
          /\ NameList[t[2]] \o NameList[t[3]] # <<>>
      BY <3>1, ConcatProperties, ConcatEmptySeq, LenProperties, EmptySeq
    <3> QED
      BY <3>1, <3>2
  <2> QED
    BY <2>1, <2>2, <2>3
<1>2. AllTerms \subseteq S
  <2> HIDE DEF S
  <2> QED
    BY <1>1, TermInduction, Operators DEF All
<1> QED
  BY <1>2

\* The names of a term are those of its arguments.
LEMMA NamesOfIs ==
  \A t \in AllTerms :
    /\ NamesOf(t) \subseteq Identifiers /\ NamesOf(t) # {}
    /\ NamesOf(t) = IF IsLeaf(t) THEN {t[2]}
                    ELSE IF Len(t) = 2 THEN NamesOf(t[2]) ELSE NamesOf(t[2]) \union NamesOf(t[3])
<1> SUFFICES ASSUME NEW t \in AllTerms
             PROVE  /\ NamesOf(t) \subseteq Identifiers /\ NamesOf(t) # {}
                    /\ NamesOf(t) = IF IsLeaf(t) THEN {t[2]}
                                    ELSE IF Len(t) = 2 THEN NamesOf(t[2])
                                    ELSE NamesOf(t[2]) \union NamesOf(t[3])
  OBVIOUS
<1>1. NamesOf(t) \subseteq Identifiers /\ NamesOf(t) # {}
  <2>1. NameList[t] \in Seq(Identifiers) /\ NameList[t] # <<>>
    BY NameListType
  <2>2. 1 \in DOMAIN NameList[t]
    BY <2>1
  <2>3. \A i \in DOMAIN NameList[t] : NameList[t][i] \in Identifiers
    BY <2>1
  <2> QED
    BY <2>2, <2>3 DEF NamesOf
<1>2. CASE IsLeaf(t)
  <2>1. NameList[t] = <<t[2]>>
    BY <1>2, NameListIs
  <2> QED
    BY <1>1, <1>2, <2>1 DEF NamesOf
<1>3. CASE ~IsLeaf(t) /\ Len(t) = 2
  BY <1>1, <1>3, NameListIs DEF NamesOf
<1>4. CASE ~IsLeaf(t) /\ Len(t) # 2
  <2> DEFINE a == NameList[t[2]]
             b == NameList[t[3]]
  <2>1. NameList[t] = a \o b
    BY <1>4, NameListIs
  <2>2. a \in Seq(Identifiers) /\ b \in Seq(Identifiers)
    BY <1>4, AllShape, NameListType DEF Shape
  <2> HIDE DEF a, b
  <2>3. DOMAIN (a \o b) = 1 .. Len(a) + Len(b) /\ DOMAIN a = 1 .. Len(a) /\ DOMAIN b = 1 .. Len(b)
    BY <2>2
  <2>4. \A i \in 1 .. Len(a) + Len(b) : (a \o b)[i] = IF i =< Len(a) THEN a[i] ELSE b[i - Len(a)]
    BY <2>2
  <2>5. \A i \in 1 .. Len(b) : i + Len(a) \in 1 .. Len(a) + Len(b) /\ (a \o b)[i + Len(a)] = b[i]
    BY <2>2, <2>4
  <2>6. {(a \o b)[i] : i \in DOMAIN (a \o b)} = {a[i] : i \in DOMAIN a} \union {b[i] : i \in DOMAIN b}
    <3>1. ASSUME NEW i \in DOMAIN (a \o b)
          PROVE  (a \o b)[i] \in {a[j] : j \in DOMAIN a} \union {b[j] : j \in DOMAIN b}
      <4>1. CASE i =< Len(a)
        BY <4>1, <2>2, <2>3, <2>4
      <4>2. CASE ~(i =< Len(a))
        <5>1. i - Len(a) \in DOMAIN b /\ (a \o b)[i] = b[i - Len(a)]
          BY <4>2, <2>2, <2>3, <2>4
        <5> QED
          BY <5>1
      <4> QED
        BY <4>1, <4>2
    <3>2. ASSUME NEW i \in DOMAIN a PROVE a[i] \in {(a \o b)[j] : j \in DOMAIN (a \o b)}
      <4>1. i \in DOMAIN (a \o b) /\ (a \o b)[i] = a[i]
        BY <2>2, <2>3, <2>4
      <4> QED
        BY <4>1
    <3>3. ASSUME NEW i \in DOMAIN b PROVE b[i] \in {(a \o b)[j] : j \in DOMAIN (a \o b)}
      <4>1. i + Len(a) \in DOMAIN (a \o b) /\ (a \o b)[i + Len(a)] = b[i]
        BY <2>2, <2>3, <2>5
      <4> QED
        BY <4>1
    <3> QED
      BY <3>1, <3>2, <3>3
  <2> QED
    BY <1>1, <1>4, <2>1, <2>6 DEF NamesOf, a, b
<1> QED
  BY <1>2, <1>3, <1>4

\* What SygusOperator::toString prints is an operator of SystemVerilog.
LEMMA Translations ==
  /\ Verilog["and"] = "&&" /\ Verilog["or"] = "||" /\ Verilog["=>"] = "|->"
  /\ Verilog["="] = "==" /\ Verilog["bvult"] = "<" /\ Verilog["bvule"] = "<="
BY Zenon DEF Verilog, SmtBinary

\* What the parser and the printer make of a term is a term.
LEMMA PrintedWithin ==
  /\ SmtTerms \subseteq AllTerms
  /\ \A t \in SmtTerms : Printed[t] \in AllTerms
<1> DEFINE T == {n \in Nat : n =< MaxDepth =>
                   \A t \in Smt[n] : t \in All[2 * n] /\ Printed[t] \in All[2 * n]}
<1>1. /\ \A n \in 0 .. 2 * MaxDepth : Leaves \subseteq All[n]
      /\ \A n \in 1 .. 2 * MaxDepth : All[n - 1] \subseteq All[n]
      /\ \A n \in 1 .. 2 * MaxDepth : \A op \in VerilogUnary, t \in All[n - 1] :
           <<op, t>> \in All[n]
      /\ \A n \in 1 .. 2 * MaxDepth : \A op \in AllBinary, t, u \in All[n - 1] :
           <<op, t, u>> \in All[n]
  BY LevelsShape, Operators DEF All
<1>2. /\ \A n \in 1 .. MaxDepth : Smt[n - 1] \subseteq Smt[n]
      /\ \A t \in Smt[0] : Shape(t, {"not"}, SmtBinary, {})
      /\ \A n \in 1 .. MaxDepth : \A t \in Smt[n] : Shape(t, {"not"}, SmtBinary, Smt[n - 1])
  BY LevelsShape, Operators DEF Smt
<1>3. \A n \in 0 .. MaxDepth : Smt[n] \subseteq SmtTerms
  BY LevelsWithin, Operators DEF Smt
<1>4. ASSUME NEW n \in 0 .. MaxDepth, NEW t \in Smt[n], IsLeaf(t)
      PROVE  t \in All[2 * n] /\ Printed[t] \in All[2 * n]
  <2>1. t \in SmtTerms
    BY <1>3
  <2>2. Printed[t] = t
    BY <2>1, <1>4, PrintedIs
  <2>3. t \in Leaves
    BY <2>1, <1>4, SmtShape DEF Shape, Leaves
  <2>4. 2 * n \in 0 .. 2 * MaxDepth
    BY Operators
  <2> QED
    BY <2>2, <2>3, <2>4, <1>1
<1>5. 0 \in T
  <2>1. \A t \in Smt[0] : IsLeaf(t)
    BY <1>2 DEF Shape
  <2>2. 0 \in 0 .. MaxDepth
    BY Operators
  <2> QED
    BY <2>1, <2>2, <1>4
<1>6. ASSUME NEW n \in Nat, n \in T PROVE n + 1 \in T
  <2>1. SUFFICES ASSUME n + 1 =< MaxDepth, NEW t \in Smt[n + 1]
                 PROVE  t \in All[2 * (n + 1)] /\ Printed[t] \in All[2 * (n + 1)]
    OBVIOUS
  <2>2. /\ n + 1 \in 1 .. MaxDepth /\ n + 1 - 1 = n /\ n + 1 \in 0 .. MaxDepth /\ n =< MaxDepth
        /\ n \in 0 .. MaxDepth
    BY <2>1, Operators
  <2>3. /\ 2 * n + 1 \in 1 .. 2 * MaxDepth /\ 2 * n + 1 - 1 = 2 * n
        /\ 2 * (n + 1) \in 1 .. 2 * MaxDepth /\ 2 * (n + 1) - 1 = 2 * n + 1
    BY <2>1, Operators
  <2>4. All[2 * n] \subseteq All[2 * n + 1] /\ All[2 * n + 1] \subseteq All[2 * (n + 1)]
    BY <2>3, <1>1
  <2>5. \A op \in VerilogUnary, u \in All[2 * n] : <<op, u>> \in All[2 * n + 1]
    <3> DEFINE m == 2 * n + 1
    <3>1. m \in 1 .. 2 * MaxDepth /\ m - 1 = 2 * n
      BY <2>3
    <3> HIDE DEF m
    <3>2. \A op \in VerilogUnary, u \in All[m - 1] : <<op, u>> \in All[m]
      BY <3>1, <1>1
    <3> QED
      BY <3>1, <3>2 DEF m
  <2>6. \A u \in Smt[n] : u \in All[2 * n] /\ Printed[u] \in All[2 * n]
    BY <2>2, <1>6
  <2>7. t \in SmtTerms
    BY <2>2, <1>3
  <2>8. CASE IsLeaf(t)
    BY <2>2, <2>8, <1>4
  <2>9. CASE ~IsLeaf(t) /\ Len(t) = 2
    <3>1. t = <<t[1], t[2]>> /\ t[1] = "not" /\ t[2] \in Smt[n]
      BY <2>2, <2>9, <1>2 DEF Shape
    <3>2. Printed[t] = <<"!", Printed[t[2]]>>
      BY <2>7, <2>9, PrintedIs
    <3>3. "!" \in VerilogUnary /\ "not" \in VerilogUnary
      BY DEF VerilogUnary
    <3>4. \A op \in VerilogUnary, u \in All[2 * n] : <<op, u>> \in All[2 * n + 1]
      BY <2>5
    <3> QED
      BY <3>1, <3>2, <3>3, <3>4, <2>4, <2>6
  <2>10. CASE ~IsLeaf(t) /\ Len(t) # 2
    <3>1. t = <<t[1], t[2], t[3]>> /\ t[1] \in SmtBinary /\ t[2] \in Smt[n] /\ t[3] \in Smt[n]
      BY <2>2, <2>10, <1>2 DEF Shape
    <3>2. Printed[t] = <<Verilog[t[1]], Operand(t[1], Printed[t[2]]), Operand(t[1], Printed[t[3]])>>
      BY <2>7, <2>10, PrintedIs
    <3>3. t[1] \in AllBinary /\ Verilog[t[1]] \in AllBinary
      BY <3>1, Translations DEF AllBinary, SmtBinary, VerilogBinary
    <3>4. \A op, u : u \in All[2 * n] => Operand(op, u) \in All[2 * n + 1]
      <4>1. "$unsigned" \in VerilogUnary
        BY DEF VerilogUnary
      <4>2. \A op \in VerilogUnary, u \in All[2 * n] : <<op, u>> \in All[2 * n + 1]
        BY <2>5
      <4> QED
        BY <4>1, <4>2, <2>4 DEF Operand
    <3>5. \A op \in AllBinary, u, v \in All[2 * n + 1] : <<op, u, v>> \in All[2 * (n + 1)]
      BY <2>3, <1>1
    <3> QED
      BY <3>1, <3>2, <3>3, <3>4, <3>5, <2>4, <2>6
  <2> QED
    BY <2>8, <2>9, <2>10
<1>7. MaxDepth \in T
  <2> HIDE DEF T
  <2> QED
    BY <1>5, <1>6, EveryNat, Operators
<1> QED
  BY <1>7, Operators


\* The printer keeps the names of a term and what it means.
LEMMA PrintedNames == \A t \in SmtTerms : NamesOf(Printed[t]) = NamesOf(t)
<1> DEFINE S == {t \in SmtTerms : NamesOf(Printed[t]) = NamesOf(t)}
<1>1. ASSUME NEW t \in SmtTerms, Shape(t, {"not"}, SmtBinary, S \cap SmtTerms)
      PROVE  NamesOf(Printed[t]) = NamesOf(t)
  <2>0. t \in AllTerms /\ Printed[t] \in AllTerms
    BY PrintedWithin
  <2>1. CASE IsLeaf(t)
    BY <2>1, PrintedIs
  <2>2. CASE ~IsLeaf(t) /\ Len(t) = 2
    <3> DEFINE p == Printed[t]
    <3>1. p = <<"!", Printed[t[2]]>>
      BY <2>2, PrintedIs
    <3>2. ~IsLeaf(p) /\ Len(p) = 2 /\ p[2] = Printed[t[2]]
      BY <3>1 DEF IsLeaf
    <3>3. NamesOf(p) = NamesOf(Printed[t[2]]) /\ NamesOf(t) = NamesOf(t[2])
      BY <2>0, <2>2, <3>2, NamesOfIs
    <3>4. NamesOf(Printed[t[2]]) = NamesOf(t[2])
      BY <2>2, <1>1 DEF Shape
    <3> QED
      BY <3>3, <3>4
  <2>3. CASE ~IsLeaf(t) /\ Len(t) # 2
    <3> DEFINE p == Printed[t]
               a == Operand(t[1], Printed[t[2]])
               b == Operand(t[1], Printed[t[3]])
    <3>1. p = <<Verilog[t[1]], a, b>> /\ t[1] \in SmtBinary
      BY <2>3, <1>1, PrintedIs DEF Shape
    <3> HIDE DEF p, a, b
    <3>2. ~IsLeaf(p) /\ Len(p) = 3 /\ p[2] = a /\ p[3] = b
      BY <3>1, Translations DEF IsLeaf, SmtBinary
    <3>3. a \in AllTerms /\ b \in AllTerms
      BY <2>0, <3>2, AllShape DEF Shape, p
    <3>4. ASSUME NEW u, Operand(t[1], u) \in AllTerms
          PROVE  NamesOf(Operand(t[1], u)) = NamesOf(u)
      <4>1. CASE Cast(t[1])
        <5> DEFINE c == <<"$unsigned", u>>
        <5>1. Operand(t[1], u) = c /\ ~IsLeaf(c) /\ Len(c) = 2 /\ c[2] = u
          BY <4>1 DEF Operand, IsLeaf
        <5> HIDE DEF c
        <5> QED
          BY <3>4, <5>1, NamesOfIs
      <4>2. CASE ~Cast(t[1])
        BY <4>2 DEF Operand
      <4> QED
        BY <4>1, <4>2
    <3>5. NamesOf(a) = NamesOf(Printed[t[2]]) /\ NamesOf(b) = NamesOf(Printed[t[3]])
      BY <3>3, <3>4 DEF a, b
    <3>6. NamesOf(Printed[t[2]]) = NamesOf(t[2]) /\ NamesOf(Printed[t[3]]) = NamesOf(t[3])
      BY <2>3, <1>1 DEF Shape
    <3>7. NamesOf(p) = NamesOf(a) \union NamesOf(b)
      BY <2>0, <3>2, NamesOfIs DEF p
    <3>8. NamesOf(t) = NamesOf(t[2]) \union NamesOf(t[3])
      BY <2>0, <2>3, NamesOfIs
    <3> QED
      BY <3>5, <3>6, <3>7, <3>8 DEF p
  <2> QED
    BY <2>1, <2>2, <2>3
<1>2. SmtTerms \subseteq S
  <2>1. \A t \in SmtTerms : Shape(t, {"not"}, SmtBinary, S \cap SmtTerms) => t \in S
    BY <1>1
  <2> HIDE DEF S
  <2> QED
    BY <2>1, SmtInduction
<1> QED
  BY <1>2

\* A printed term has the value of the term: $unsigned keeps comparisons unsigned
\* whatever the signals are declared.
LEMMA PrintedMeans ==
  ASSUME NEW env
  PROVE  \A t \in SmtTerms : Evaluated(env)[Printed[t]] = Value(env)[t]
<1> DEFINE Ev == Evaluated(env)
           Va == Value(env)
           S == {t \in SmtTerms : Ev[Printed[t]] = Va[t]}
<1> HIDE DEF Ev, Va
<1>0. /\ \A t \in AllTerms :
           Ev[t] = IF IsLeaf(t) THEN env[t[2]]
                   ELSE IF Len(t) = 2
                   THEN IF t[1] = "!" THEN Bit(Ev[t[2]] = 0) ELSE Ev[t[2]]
                   ELSE Bit(\/ VerilogTrue(t[1], Ev[t[2]], Ev[t[3]])
                            \/ IF Signed(t[2]) /\ Signed(t[3])
                               THEN Less(t[1], TwosComplement(Ev[t[2]], Half(t[2])),
                                               TwosComplement(Ev[t[3]], Half(t[3])))
                               ELSE Less(t[1], Ev[t[2]], Ev[t[3]]))
      /\ \A t \in SmtTerms :
           Va[t] = IF IsLeaf(t) THEN env[t[2]]
                   ELSE IF Len(t) = 2 THEN Bit(Va[t[2]] = 0)
                   ELSE Bit(True(t[1], Va[t[2]], Va[t[3]]))
  BY EvaluatedIs, ValueIs DEF Ev, Va
<1>1. ASSUME NEW t \in SmtTerms, Shape(t, {"not"}, SmtBinary, S \cap SmtTerms)
      PROVE  Ev[Printed[t]] = Va[t]
  <2>0. t \in AllTerms /\ Printed[t] \in AllTerms
    BY PrintedWithin
  <2>1. CASE IsLeaf(t)
    <3>1. Printed[t] = t
      BY <2>1, PrintedIs
    <3> QED
      BY <2>0, <2>1, <3>1, <1>0
  <2>2. CASE ~IsLeaf(t) /\ Len(t) = 2
    <3> DEFINE p == Printed[t]
    <3>1. p = <<"!", Printed[t[2]]>>
      BY <2>2, PrintedIs
    <3>2. ~IsLeaf(p) /\ Len(p) = 2 /\ p[1] = "!" /\ p[2] = Printed[t[2]]
      BY <3>1 DEF IsLeaf
    <3>3. Ev[p] = Bit(Ev[Printed[t[2]]] = 0) /\ Va[t] = Bit(Va[t[2]] = 0)
      <4> HIDE DEF p
      <4> QED
        BY <2>0, <2>2, <3>2, <1>0 DEF p
    <3>4. Ev[Printed[t[2]]] = Va[t[2]]
      BY <2>2, <1>1 DEF Shape
    <3> QED
      BY <3>3, <3>4
  <2>3. CASE ~IsLeaf(t) /\ Len(t) # 2
    <3> DEFINE p == Printed[t]
               a == Operand(t[1], Printed[t[2]])
               b == Operand(t[1], Printed[t[3]])
               x == Va[t[2]]
               y == Va[t[3]]
    <3>1. p = <<Verilog[t[1]], a, b>> /\ t[1] \in SmtBinary
      BY <2>3, <1>1, PrintedIs DEF Shape
    <3> HIDE DEF p, a, b
    <3>2. ~IsLeaf(p) /\ Len(p) = 3 /\ p[1] = Verilog[t[1]] /\ p[2] = a /\ p[3] = b
      BY <3>1, Translations DEF IsLeaf, SmtBinary
    <3>3. a \in AllTerms /\ b \in AllTerms
      BY <2>0, <3>2, AllShape DEF Shape, p
    <3>4. ASSUME NEW u, Operand(t[1], u) \in AllTerms
          PROVE  Ev[Operand(t[1], u)] = Ev[u]
      <4>1. CASE Cast(t[1])
        <5> DEFINE c == <<"$unsigned", u>>
        <5>1. Operand(t[1], u) = c /\ ~IsLeaf(c) /\ Len(c) = 2 /\ c[1] # "!" /\ c[2] = u
          BY <4>1 DEF Operand, IsLeaf
        <5> HIDE DEF c
        <5> QED
          BY <3>4, <5>1, <1>0
      <4>2. CASE ~Cast(t[1])
        BY <4>2 DEF Operand
      <4> QED
        BY <4>1, <4>2
    <3>5. Ev[a] = Ev[Printed[t[2]]] /\ Ev[b] = Ev[Printed[t[3]]]
      BY <3>3, <3>4 DEF a, b
    <3>6. Ev[Printed[t[2]]] = x /\ Ev[Printed[t[3]]] = y
      BY <2>3, <1>1 DEF Shape
    <3>7. Ev[p] = Bit(\/ VerilogTrue(Verilog[t[1]], x, y)
                      \/ IF Signed(a) /\ Signed(b)
                         THEN Less(Verilog[t[1]], TwosComplement(x, Half(a)),
                                                  TwosComplement(y, Half(b)))
                         ELSE Less(Verilog[t[1]], x, y))
      <4>1. Ev[a] = x /\ Ev[b] = y
        BY <3>5, <3>6
      <4> HIDE DEF x, y
      <4>2. p \in AllTerms /\ ~IsLeaf(p) /\ Len(p) # 2
        BY <2>0, <3>2 DEF p
      <4>3. Ev[p] = Bit(\/ VerilogTrue(p[1], Ev[p[2]], Ev[p[3]])
                        \/ IF Signed(p[2]) /\ Signed(p[3])
                           THEN Less(p[1], TwosComplement(Ev[p[2]], Half(p[2])),
                                           TwosComplement(Ev[p[3]], Half(p[3])))
                           ELSE Less(p[1], Ev[p[2]], Ev[p[3]]))
        BY <4>2, <1>0
      <4> QED
        BY <3>2, <4>1, <4>3
    <3>8. Va[t] = Bit(True(t[1], x, y))
      BY <2>3, <1>0
    <3>9. Cast(t[1]) => ~Signed(a)
      BY DEF Signed, IsLeaf, Operand, a
    <3> HIDE DEF x, y
    <3>10. (\/ VerilogTrue(Verilog[t[1]], x, y)
            \/ IF Signed(a) /\ Signed(b)
               THEN Less(Verilog[t[1]], TwosComplement(x, Half(a)), TwosComplement(y, Half(b)))
               ELSE Less(Verilog[t[1]], x, y))
           <=> True(t[1], x, y)
      <4>1. CASE t[1] \in {"and", "or", "=>", "="}
        <5>1. \A v, w : ~Less(Verilog[t[1]], v, w)
          BY <4>1, Translations DEF Less
        <5>2. VerilogTrue(Verilog[t[1]], x, y) <=> True(t[1], x, y)
          BY <4>1, Translations DEF VerilogTrue, True
        <5> QED
          BY <5>1, <5>2
      <4>2. CASE t[1] \in {"bvult", "bvule"}
        <5>1. ~Signed(a)
          BY <4>2, <3>9 DEF Cast
        <5>2. ~VerilogTrue(Verilog[t[1]], x, y)
          BY <4>2, Translations DEF VerilogTrue
        <5>3. Less(Verilog[t[1]], x, y) <=> True(t[1], x, y)
          BY <4>2, Translations DEF Less, True
        <5> QED
          BY <5>1, <5>2, <5>3
      <4> QED
        BY <3>1, <4>1, <4>2 DEF SmtBinary
    <3> QED
      BY <3>7, <3>8, <3>10 DEF p, Bit
  <2> QED
    BY <2>1, <2>2, <2>3
<1>2. SmtTerms \subseteq S
  <2>1. \A t \in SmtTerms : Shape(t, {"not"}, SmtBinary, S \cap SmtTerms) => t \in S
    BY <1>1
  <2> HIDE DEF S
  <2> QED
    BY <2>1, SmtInduction
<1> QED
  BY <1>2 DEF Ev, Va


\* Terms with other names are terms with those names, and mean what they meant
\* where the other names have the values of the names.
LEMMA RenamedWithin ==
  ASSUME NEW to \in [Identifiers -> Identifiers]
  PROVE  \A t \in SmtTerms : Renamed(to)[t] \in SmtTerms
<1> DEFINE R == Renamed(to)
           T == {n \in Nat : n =< MaxDepth => \A t \in Smt[n] : R[t] \in Smt[n]}
<1> HIDE DEF R
<1>1. /\ \A n \in 0 .. MaxDepth : Leaves \subseteq Smt[n]
      /\ \A t \in Smt[0] : Shape(t, {"not"}, SmtBinary, {})
      /\ \A n \in 1 .. MaxDepth : \A t \in Smt[n] : Shape(t, {"not"}, SmtBinary, Smt[n - 1])
      /\ \A n \in 1 .. MaxDepth : \A op \in {"not"}, t \in Smt[n - 1] : <<op, t>> \in Smt[n]
      /\ \A n \in 1 .. MaxDepth : \A op \in SmtBinary, t, u \in Smt[n - 1] :
           <<op, t, u>> \in Smt[n]
  BY LevelsShape, Operators DEF Smt
<1>2. \A t \in SmtTerms :
        R[t] = IF IsLeaf(t) THEN <<"name", to[t[2]]>>
               ELSE IF Len(t) = 2 THEN <<t[1], R[t[2]]>> ELSE <<t[1], R[t[2]], R[t[3]]>>
  BY RenamedIs DEF R
<1>3. \A n \in 0 .. MaxDepth : Smt[n] \subseteq SmtTerms
  BY LevelsWithin, Operators DEF Smt
<1>4. ASSUME NEW n \in 0 .. MaxDepth, NEW t \in Smt[n], IsLeaf(t) PROVE R[t] \in Smt[n]
  <2>1. t \in SmtTerms
    BY <1>3
  <2>2. R[t] = <<"name", to[t[2]]>> /\ t[2] \in Identifiers
    BY <2>1, <1>2, <1>4, SmtShape DEF Shape
  <2> QED
    BY <2>2, <1>1 DEF Leaves
<1>5. 0 \in T
  <2>1. 0 \in 0 .. MaxDepth /\ \A t \in Smt[0] : IsLeaf(t)
    BY <1>1, Operators DEF Shape
  <2> QED
    BY <2>1, <1>4
<1>6. ASSUME NEW n \in Nat, n \in T PROVE n + 1 \in T
  <2>1. SUFFICES ASSUME n + 1 =< MaxDepth, NEW t \in Smt[n + 1] PROVE R[t] \in Smt[n + 1]
    OBVIOUS
  <2>2. n + 1 \in 1 .. MaxDepth /\ n + 1 - 1 = n /\ n + 1 \in 0 .. MaxDepth /\ n =< MaxDepth
    BY <2>1, Operators
  <2>3. \A u \in Smt[n] : R[u] \in Smt[n]
    BY <2>2, <1>6
  <2>4. t \in SmtTerms /\ Shape(t, {"not"}, SmtBinary, Smt[n])
    BY <2>2, <1>1, <1>3
  <2>5. CASE IsLeaf(t)
    BY <2>2, <2>5, <1>4
  <2>6. CASE ~IsLeaf(t) /\ Len(t) = 2
    <3>1. t[1] \in {"not"} /\ t[2] \in Smt[n]
      BY <2>4, <2>6 DEF Shape
    <3>2. R[t] = <<t[1], R[t[2]]>>
      BY <2>4, <2>6, <1>2
    <3> QED
      BY <2>2, <2>3, <3>1, <3>2, <1>1
  <2>7. CASE ~IsLeaf(t) /\ Len(t) # 2
    <3>1. /\ R[t] = <<t[1], R[t[2]], R[t[3]]>> /\ t[1] \in SmtBinary
          /\ R[t[2]] \in Smt[n] /\ R[t[3]] \in Smt[n]
      BY <2>3, <2>4, <2>7, <1>2 DEF Shape
    <3> QED
      BY <2>2, <3>1, <1>1
  <2> QED
    BY <2>5, <2>6, <2>7
<1>7. MaxDepth \in T
  <2> HIDE DEF T
  <2> QED
    BY <1>5, <1>6, EveryNat, Operators
<1> QED
  BY <1>7, Operators DEF R

\* Renamed terms: their first operator, their names and their values.
LEMMA RenamedMeans ==
  ASSUME NEW to \in [Identifiers -> Identifiers], NEW env, NEW other
  PROVE  \A t \in SmtTerms :
           /\ Renamed(to)[t][1] = t[1]
           /\ ~IsLeaf(t) /\ Len(t) # 2 =>
                Renamed(to)[t] = <<t[1], Renamed(to)[t[2]], Renamed(to)[t[3]]>>
           /\ NamesOf(Renamed(to)[t]) = {to[n] : n \in NamesOf(t)}
           /\ (\A n \in NamesOf(t) : env[to[n]] = other[n]) =>
                Value(env)[Renamed(to)[t]] = Value(other)[t]
<1> DEFINE R == Renamed(to)
           Va == Value(env)
           Vo == Value(other)
           S == {t \in SmtTerms :
                  /\ NamesOf(R[t]) = {to[n] : n \in NamesOf(t)}
                  /\ (\A n \in NamesOf(t) : env[to[n]] = other[n]) => Va[R[t]] = Vo[t]}
<1> HIDE DEF R, Va, Vo
<1>1. /\ \A t \in SmtTerms :
           R[t] = IF IsLeaf(t) THEN <<"name", to[t[2]]>>
                  ELSE IF Len(t) = 2 THEN <<t[1], R[t[2]]>> ELSE <<t[1], R[t[2]], R[t[3]]>>
      /\ \A t \in SmtTerms : R[t] \in SmtTerms /\ R[t] \in AllTerms /\ t \in AllTerms
      /\ \A t \in SmtTerms :
           Va[t] = IF IsLeaf(t) THEN env[t[2]]
                   ELSE IF Len(t) = 2 THEN Bit(Va[t[2]] = 0)
                   ELSE Bit(True(t[1], Va[t[2]], Va[t[3]]))
      /\ \A t \in SmtTerms :
           Vo[t] = IF IsLeaf(t) THEN other[t[2]]
                   ELSE IF Len(t) = 2 THEN Bit(Vo[t[2]] = 0)
                   ELSE Bit(True(t[1], Vo[t[2]], Vo[t[3]]))
  BY RenamedIs, RenamedWithin, PrintedWithin, ValueIs DEF R, Va, Vo
<1>2. ASSUME NEW t \in SmtTerms, Shape(t, {"not"}, SmtBinary, S \cap SmtTerms)
      PROVE  t \in S
  <2> DEFINE r == R[t]
  <2> HIDE DEF r
  <2>0. r \in SmtTerms /\ r \in AllTerms /\ t \in AllTerms
    BY <1>1 DEF r
  <2>1. CASE IsLeaf(t)
    <3>1. r = <<"name", to[t[2]]>>
      BY <2>1, <1>1 DEF r
    <3>2. IsLeaf(r) /\ r[2] = to[t[2]]
      BY <3>1 DEF IsLeaf
    <3>3. NamesOf(r) = {to[t[2]]} /\ NamesOf(t) = {t[2]}
      BY <2>0, <2>1, <3>2, NamesOfIs
    <3>4. Va[r] = env[to[t[2]]] /\ Vo[t] = other[t[2]]
      BY <2>0, <2>1, <3>2, <1>1
    <3> QED
      BY <3>3, <3>4 DEF r
  <2>2. CASE ~IsLeaf(t) /\ Len(t) = 2
    <3>0. t[1] = "not" /\ t[2] \in S
      <4> HIDE DEF S
      <4> QED
        BY <2>2, <1>2 DEF Shape
    <3>1. r = <<t[1], R[t[2]]>> /\ t[1] = "not" /\ t[2] \in S
      BY <2>2, <3>0, <1>1 DEF r
    <3>2. ~IsLeaf(r) /\ Len(r) = 2 /\ r[2] = R[t[2]]
      BY <3>1 DEF IsLeaf
    <3>3. NamesOf(r) = NamesOf(R[t[2]]) /\ NamesOf(t) = NamesOf(t[2])
      BY <2>0, <2>2, <3>2, NamesOfIs
    <3>4. Va[r] = Bit(Va[R[t[2]]] = 0) /\ Vo[t] = Bit(Vo[t[2]] = 0)
      BY <2>0, <2>2, <3>2, <1>1
    <3> QED
      BY <3>1, <3>3, <3>4 DEF r
  <2>3. CASE ~IsLeaf(t) /\ Len(t) # 2
    <3>1. r = <<t[1], R[t[2]], R[t[3]]>> /\ t[1] \in SmtBinary /\ t[2] \in S /\ t[3] \in S
      BY <2>3, <1>1, <1>2 DEF Shape, r
    <3>2. ~IsLeaf(r) /\ Len(r) = 3 /\ r[1] = t[1] /\ r[2] = R[t[2]] /\ r[3] = R[t[3]]
      BY <3>1 DEF IsLeaf, SmtBinary
    <3>3. /\ NamesOf(r) = NamesOf(R[t[2]]) \union NamesOf(R[t[3]])
          /\ NamesOf(t) = NamesOf(t[2]) \union NamesOf(t[3])
      BY <2>0, <2>3, <3>2, NamesOfIs
    <3>4. /\ Va[r] = Bit(True(t[1], Va[R[t[2]]], Va[R[t[3]]]))
          /\ Vo[t] = Bit(True(t[1], Vo[t[2]], Vo[t[3]]))
      BY <2>0, <2>3, <3>2, <1>1
    <3>5. NamesOf(r) = {to[n] : n \in NamesOf(t)}
      BY <3>1, <3>3
    <3>6. (\A n \in NamesOf(t) : env[to[n]] = other[n]) => Va[r] = Vo[t]
      BY <3>1, <3>3, <3>4
    <3> QED
      BY <3>5, <3>6 DEF r
  <2> QED
    BY <2>1, <2>2, <2>3
<1>3. SmtTerms \subseteq S
  <2> HIDE DEF S
  <2> QED
    BY <1>2, SmtInduction
<1>4. \A t \in SmtTerms :
        R[t][1] = t[1] /\ (~IsLeaf(t) /\ Len(t) # 2 => R[t] = <<t[1], R[t[2]], R[t[3]]>>)
  <2> SUFFICES ASSUME NEW t \in SmtTerms
               PROVE  /\ R[t][1] = t[1]
                      /\ ~IsLeaf(t) /\ Len(t) # 2 => R[t] = <<t[1], R[t[2]], R[t[3]]>>
    OBVIOUS
  <2>1. CASE IsLeaf(t)
    <3>1. R[t] = <<"name", to[t[2]]>>
      BY <2>1, <1>1
    <3> QED
      BY <2>1, <3>1 DEF IsLeaf
  <2>2. CASE ~IsLeaf(t) /\ Len(t) = 2
    <3>1. R[t] = <<t[1], R[t[2]]>>
      BY <2>2, <1>1
    <3> QED
      BY <2>2, <3>1
  <2>3. CASE ~IsLeaf(t) /\ Len(t) # 2
    <3>1. R[t] = <<t[1], R[t[2]], R[t[3]]>>
      BY <2>3, <1>1
    <3> QED
      BY <2>3, <3>1
  <2> QED
    BY <2>1, <2>2, <2>3
<1> QED
  BY <1>3, <1>4 DEF R, Va, Vo

\* The value of a renamed term, alone.
LEMMA RenamedValue ==
  ASSUME NEW to \in [Identifiers -> Identifiers], NEW env, NEW other, NEW t \in SmtTerms,
         \A n \in NamesOf(t) : env[to[n]] = other[n]
  PROVE  Value(env)[Renamed(to)[t]] = Value(other)[t]
BY RenamedMeans


-----------------------------------------------------------------------------
(* The grammar.                                                            *)

\* One level of a derivation.
LEMMA DerivedIs ==
  ASSUME NEW base, NEW more, NEW unary, NEW binary, NEW depth \in Nat, NEW n \in 0 .. depth
  PROVE  LET D == Derived(base, more, unary, binary, depth)
         IN  D[n] = base \union
                    IF n = 0 THEN {}
                    ELSE more \union (unary \X D[n - 1])
                              \union (binary \X D[n - 1] \X D[n - 1])
BY DerivedLevels

\* It speaks of one cycle.
NamesAre(t, cycle) == \A n \in NamesOf(t) : \E s \in BlockSignals : n = NameAt(s, cycle)

\* cleanLatency takes off the digits a later state's name has.
LEMMA NameAtType ==
  ASSUME NEW s \in BlockSignals, NEW cycle \in Nat
  PROVE  /\ NameAt(s, cycle) \in Identifiers
         /\ cycle = 0 => NameAt(s, cycle) = s.name
         /\ cycle # 0 => /\ IsLater(NameAt(s, cycle)) /\ Suffix(NameAt(s, cycle)) = cycle
                         /\ Cleaned(NameAt(s, cycle)) = s.name
<1> DEFINE d == s.name.digits
           n == NameAt(s, cycle)
<1>1. s.name \in Identifiers
  BY CandidateAssumption
<1>2. CASE cycle = 0
  BY <1>1, <1>2 DEF NameAt
<1>3. CASE cycle # 0
  <2>1. n = [stem |-> s.name.stem, digits |-> Append(d, cycle)]
    BY <1>3 DEF NameAt
  <2>2. d \in Seq(Nat) /\ s.name.stem \in STRING /\ s.name = [stem |-> s.name.stem, digits |-> d]
    BY <1>1 DEF Identifiers
  <2> HIDE DEF d, n
  <2>3. /\ Append(d, cycle) \in Seq(Nat) /\ Len(Append(d, cycle)) = Len(d) + 1
        /\ Append(d, cycle)[Len(d) + 1] = cycle /\ Append(d, cycle) # <<>>
    BY <2>2, AppendProperties
  <2>4. SubSeq(Append(d, cycle), 1, Len(d)) = d
    <3> DEFINE a == Append(d, cycle)
    <3>1. /\ SubSeq(a, 1, Len(d)) \in Seq(Nat) /\ Len(SubSeq(a, 1, Len(d))) = Len(d)
          /\ \A i \in 1 .. Len(d) : SubSeq(a, 1, Len(d))[i] = d[i]
      BY <2>2, <2>3
    <3> HIDE DEF a
    <3> QED
      BY <2>2, <3>1, SeqEqual DEF a
  <2>5. n.digits = Append(d, cycle) /\ n.stem = s.name.stem
    BY <2>1
  <2>6. n \in Identifiers /\ IsLater(n) /\ Suffix(n) = cycle
    BY <2>1, <2>2, <2>3, <2>5 DEF Identifiers, IsLater, Suffix
  <2>7. Len(n.digits) - 1 = Len(d)
    BY <2>2, <2>3, <2>5
  <2>8. Cleaned(n) = s.name
    BY <2>2, <2>4, <2>5, <2>6, <2>7 DEF Cleaned
  <2> QED
    BY <1>3, <2>6, <2>8 DEF n
<1> QED
  BY <1>2, <1>3

\* What a rule for atoms of a cycle derives speaks of that cycle, and has no
\* implication.
LEMMA AtomsAre ==
  ASSUME NEW cycle \in Nat, NEW k \in 0 .. MaxDepth, NEW a \in Atoms(cycle)[k]
  PROVE  a \in Smt[k] /\ a[1] # "=>" /\ NamesAre(a, cycle)
<1> DEFINE A == Atoms(cycle)
           Good(t, n) == t \in Smt[n] /\ t[1] # "=>" /\ NamesAre(t, cycle)
           T == {n \in Nat : n =< MaxDepth => \A t \in A[n] : Good(t, n)}
<1> HIDE DEF A
<1>1. \A n \in 0 .. MaxDepth :
        A[n] = KeyTerms(cycle) \union
               IF n = 0 THEN {}
               ELSE Comparisons(cycle) \union ({"not"} \X A[n - 1])
                    \union (Connectives(cycle) \X A[n - 1] \X A[n - 1])
  BY DerivedIs, Operators DEF A, Atoms
<1>2. /\ \A n \in 0 .. MaxDepth : Leaves \subseteq Smt[n]
      /\ \A n \in 1 .. MaxDepth : Smt[n - 1] \subseteq Smt[n]
      /\ \A n \in 1 .. MaxDepth : \A op \in {"not"}, t \in Smt[n - 1] : <<op, t>> \in Smt[n]
      /\ \A n \in 1 .. MaxDepth : \A op \in SmtBinary, t, u \in Smt[n - 1] :
           <<op, t, u>> \in Smt[n]
  BY LevelsShape, Operators DEF Smt
<1>3. \A n \in 0 .. MaxDepth : Smt[n] \subseteq AllTerms
  BY LevelsWithin, Operators, PrintedWithin DEF Smt
<1>4. ASSUME NEW s \in BlockSignals, NEW n \in 0 .. MaxDepth
      PROVE  TermAt(s, cycle) \in Leaves /\ Good(TermAt(s, cycle), n)
  <2> DEFINE t == TermAt(s, cycle)
  <2>1. t \in Leaves /\ IsLeaf(t) /\ t[1] # "=>" /\ t[2] = NameAt(s, cycle)
    BY NameAtType DEF TermAt, Leaves, IsLeaf
  <2> HIDE DEF t
  <2>2. NamesOf(t) = {NameAt(s, cycle)}
    BY <2>1, <1>2, <1>3, NamesOfIs
  <2> QED
    BY <2>1, <2>2, <1>2 DEF NamesAre, t
<1>5. ASSUME NEW n \in 1 .. MaxDepth, NEW op \in SmtBinary \ {"=>"}, NEW t, NEW u,
             Good(t, n - 1), Good(u, n - 1)
      PROVE  Good(<<op, t, u>>, n)
  <2> DEFINE c == <<op, t, u>>
  <2>1. c \in Smt[n] /\ n \in 0 .. MaxDepth
    BY <1>2, <1>5, Operators
  <2>2. c[1] # "=>" /\ ~IsLeaf(c) /\ Len(c) = 3 /\ c[2] = t /\ c[3] = u
    BY DEF IsLeaf, SmtBinary
  <2> HIDE DEF c
  <2>3. NamesOf(c) = NamesOf(t) \union NamesOf(u)
    BY <2>1, <2>2, <1>3, NamesOfIs
  <2> QED
    BY <2>1, <2>2, <2>3, <1>5 DEF NamesAre, c
<1>6. ASSUME NEW n \in 1 .. MaxDepth, NEW t, Good(t, n - 1) PROVE Good(<<"not", t>>, n)
  <2> DEFINE c == <<"not", t>>
  <2>1. c \in Smt[n] /\ n \in 0 .. MaxDepth
    BY <1>2, <1>6, Operators
  <2>2. c[1] # "=>" /\ ~IsLeaf(c) /\ Len(c) = 2 /\ c[2] = t
    BY DEF IsLeaf
  <2> HIDE DEF c
  <2>3. NamesOf(c) = NamesOf(t)
    BY <2>1, <2>2, <1>3, NamesOfIs
  <2> QED
    BY <2>1, <2>2, <2>3, <1>6 DEF NamesAre, c
<1>7. ASSUME NEW n \in 0 .. MaxDepth, NEW t \in KeyTerms(cycle) PROVE Good(t, n)
  BY <1>4 DEF KeyTerms
<1>8. ASSUME NEW n \in 1 .. MaxDepth, NEW t \in Comparisons(cycle) PROVE Good(t, n)
  <2>1. PICK op \in {"=", "bvult", "bvule"}, s \in BlockSignals, u \in BlockSignals :
          t = <<op, TermAt(s, cycle), TermAt(u, cycle)>>
    BY DEF Comparisons, SameWidth
  <2>2. op \in SmtBinary \ {"=>"}
    BY DEF SmtBinary
  <2>3. n - 1 \in 0 .. MaxDepth
    BY Operators
  <2>4. Good(TermAt(s, cycle), n - 1) /\ Good(TermAt(u, cycle), n - 1)
    BY <2>3, <1>4
  <2> HIDE DEF Good
  <2> QED
    BY <2>1, <2>2, <2>4, <1>5
<1> HIDE DEF Good
<1>9. 0 \in T
  <2>1. 0 \in 0 .. MaxDepth
    BY Operators
  <2>2. A[0] = KeyTerms(cycle)
    BY <2>1, <1>1
  <2> QED
    BY <2>1, <2>2, <1>7
<1>10. ASSUME NEW n \in Nat, n \in T PROVE n + 1 \in T
  <2>1. SUFFICES ASSUME n + 1 =< MaxDepth, NEW t \in A[n + 1] PROVE Good(t, n + 1)
    OBVIOUS
  <2> DEFINE m == n + 1
  <2>2. m \in 1 .. MaxDepth /\ m \in 0 .. MaxDepth /\ m # 0 /\ m - 1 = n /\ n =< MaxDepth
    BY <2>1, Operators
  <2>3. \A u \in A[m - 1] : Good(u, m - 1)
    BY <2>2, <1>10
  <2>4. t \in A[m]
    BY <2>1
  <2> HIDE DEF m
  <2>5. A[m] = KeyTerms(cycle) \union Comparisons(cycle) \union ({"not"} \X A[m - 1])
               \union (Connectives(cycle) \X A[m - 1] \X A[m - 1])
    BY <2>2, <1>1
  <2>6. CASE t \in KeyTerms(cycle)
    BY <2>2, <2>6, <1>7 DEF m
  <2>7. CASE t \in Comparisons(cycle)
    BY <2>2, <2>7, <1>8 DEF m
  <2>8. CASE t \in {"not"} \X A[m - 1]
    <3>1. PICK u \in A[m - 1] : t = <<"not", u>>
      BY <2>8
    <3> QED
      BY <2>2, <2>3, <3>1, <1>6 DEF m
  <2>9. CASE t \in Connectives(cycle) \X A[m - 1] \X A[m - 1]
    <3>1. PICK op \in Connectives(cycle), u \in A[m - 1], v \in A[m - 1] : t = <<op, u, v>>
      BY <2>9
    <3>2. op \in SmtBinary \ {"=>"}
      BY DEF Connectives, SmtBinary
    <3> QED
      BY <2>2, <2>3, <3>1, <3>2, <1>5 DEF m
  <2> QED
    BY <2>4, <2>5, <2>6, <2>7, <2>8, <2>9
<1>11. k \in T
  <2> HIDE DEF T
  <2> QED
    BY <1>9, <1>10, EveryNat, Operators
<1> QED
  BY <1>11, Operators DEF A, Good


-----------------------------------------------------------------------------
(* The invariant: what was parsed and printed is of the answer.            *)

Delay(t) ==
    LET later == {i \in DOMAIN NameList[t] : IsLater(NameList[t][i])}
    IN  IF later = {} THEN 0 ELSE Suffix(NameList[t][Max(later)])

\* An answer speaks of now, or it is an implication from now to then.
AllNow(t) == t \in SmtTerms /\ NamesAre(t, 0)
IsAnswer(t) ==
    \/ AllNow(t)
    \/ /\ latency # 0 /\ t \in SmtTerms
       /\ t = <<"=>", t[2], t[3]>>
       /\ AllNow(t[2])
       /\ t[3] \in SmtTerms /\ NamesAre(t[3], latency)

CandidateInv ==
    /\ latency \in Latencies
    /\ at \in {"solve", "parse", "render", "check"}
    /\ at # "solve" => IsAnswer(body)
    /\ at \in {"render", "check"} =>
         function = [body |-> Renamed(Cleaning)[body],
                     latency |-> IF latency > 0 THEN Delay(body) ELSE 0]
    /\ at = "check" =>
         property =
           IF function.latency # 0 /\ function.body[1] # "=>" THEN [throws |-> TRUE]
           ELSE [throws |-> FALSE, delay |-> function.latency, expr |-> Printed[function.body]]

\* Every answer the grammar allows is of one of the two kinds.
LEMMA AnswersAre ==
  ASSUME latency \in Latencies, NEW a \in Answers
  PROVE  IsAnswer(a)
<1>0. latency \in Nat /\ MaxDepth \in 0 .. MaxDepth /\ MaxDepth - 1 \in 0 .. MaxDepth
      /\ MaxDepth \in 1 .. MaxDepth
  BY CandidateAssumption
<1>1. \A n \in 0 .. MaxDepth : Smt[n] \subseteq SmtTerms
  BY LevelsWithin, Operators DEF Smt
<1>2. \A cycle \in Nat : \A n \in 0 .. MaxDepth : \A t \in Atoms(cycle)[n] :
        t \in Smt[n] /\ t \in SmtTerms /\ NamesAre(t, cycle)
  BY <1>1, AtomsAre
<1>3. ASSUME NEW cycle \in Nat, a \in Implications(cycle)
      PROVE  /\ a = <<"=>", a[2], a[3]>> /\ a \in SmtTerms
             /\ AllNow(a[2]) /\ a[3] \in SmtTerms /\ NamesAre(a[3], cycle)
  <2>1. PICK t \in Atoms(0)[MaxDepth - 1], u \in Atoms(cycle)[MaxDepth - 1] : a = <<"=>", t, u>>
    BY <1>3 DEF Implications
  <2>2. /\ t \in Smt[MaxDepth - 1] /\ u \in Smt[MaxDepth - 1]
        /\ t \in SmtTerms /\ NamesAre(t, 0) /\ u \in SmtTerms /\ NamesAre(u, cycle)
    BY <2>1, <1>0, <1>2
  <2>3. "=>" \in SmtBinary
    BY DEF SmtBinary
  <2>4. a \in Smt[MaxDepth]
    <3>1. \A op \in SmtBinary, v, w \in Smt[MaxDepth - 1] : <<op, v, w>> \in Smt[MaxDepth]
      BY <1>0, LevelsShape, Operators DEF Smt
    <3> QED
      BY <2>1, <2>2, <2>3, <3>1
  <2> QED
    BY <2>1, <2>2, <2>4, Operators DEF AllNow
<1>4. CASE a \in Implications(0)
  <2>1. /\ a = <<"=>", a[2], a[3]>> /\ a \in SmtTerms
        /\ AllNow(a[2]) /\ a[3] \in SmtTerms /\ NamesAre(a[3], 0)
    BY <1>3, <1>4
  <2>2. ~IsLeaf(a) /\ Len(a) = 3 /\ a \in AllTerms
    BY <2>1, PrintedWithin DEF IsLeaf
  <2>3. NamesOf(a) = NamesOf(a[2]) \union NamesOf(a[3])
    BY <2>2, NamesOfIs
  <2> QED
    BY <2>1, <2>3 DEF IsAnswer, AllNow, NamesAre
<1>5. CASE latency = 0 /\ a \in Atoms(0)[MaxDepth]
  BY <1>0, <1>2, <1>5 DEF IsAnswer, AllNow
<1>6. CASE latency # 0 /\ a \in Implications(latency)
  BY <1>0, <1>3, <1>6 DEF IsAnswer
<1> QED
  BY <1>4, <1>5, <1>6 DEF Answers

\* What is parsed and printed is of the last answer, which the grammar allows:
\* nothing of an earlier pass is in it.
THEOREM CandidateInvariant == CandidateSpec => []CandidateInv
<1>1. CandidateInit => CandidateInv
  BY DEF CandidateInit, CandidateInv
<1>2. CandidateInv /\ [CandidateNext]_candidateVars => CandidateInv'
  <2> SUFFICES ASSUME CandidateInv, [CandidateNext]_candidateVars PROVE CandidateInv'
    OBVIOUS
  <2>1. CASE Solve
    <3>1. IsAnswer(body')
      BY <2>1, AnswersAre DEF CandidateInv, Solve
    <3>2. IsAnswer(body)'
      BY <2>1, <3>1 DEF Solve, IsAnswer, AllNow, NamesAre, NameAt
    <3> QED
      BY <2>1, <3>2 DEF CandidateInv, Solve
  <2>2. CASE Parse
    <3>1. latency' = latency /\ body' = body /\ at = "parse" /\ at' = "render"
      BY <2>2 DEF Parse
    <3>2. Cleaning' = Cleaning
      BY <3>1 DEF Cleaning
    <3>3. IsAnswer(body)'
      BY <3>1 DEF CandidateInv, IsAnswer, AllNow, NamesAre, NameAt
    <3>4. LatencyRead(body) = Delay(body)
      BY DEF LatencyRead, Delay, Reset
    <3>5. function' = [body |-> Renamed(Cleaning)[body],
                       latency |-> IF latency > 0 THEN Delay(body) ELSE 0]
      BY <2>2, <3>4 DEF Parse
    <3> QED
      BY <3>1, <3>2, <3>3, <3>5 DEF CandidateInv
  <2>3. CASE Render
    <3>1. /\ latency' = latency /\ body' = body /\ function' = function
          /\ at = "render" /\ at' = "check"
      BY <2>3 DEF Render
    <3>2. Cleaning' = Cleaning
      BY <3>1 DEF Cleaning
    <3>3. IsAnswer(body)'
      BY <3>1 DEF CandidateInv, IsAnswer, AllNow, NamesAre, NameAt
    <3>4. property' =
            IF function.latency # 0 /\ function.body[1] # "=>" THEN [throws |-> TRUE]
            ELSE [throws |-> FALSE, delay |-> function.latency, expr |-> Printed[function.body]]
      BY <2>3 DEF Render
    <3> QED
      BY <3>1, <3>2, <3>3, <3>4 DEF CandidateInv
  <2>4. CASE Again
    BY <2>4 DEF CandidateInv, Again
  <2>5. CASE UNCHANGED candidateVars
    <3>1. /\ latency' = latency /\ body' = body /\ function' = function
          /\ at' = at /\ property' = property
      BY <2>5 DEF candidateVars
    <3>2. Cleaning' = Cleaning
      BY <3>1 DEF Cleaning
    <3>3. IsAnswer(body)' <=> IsAnswer(body)
      BY <3>1 DEF IsAnswer, AllNow, NamesAre, NameAt
    <3> QED
      BY <3>1, <3>2, <3>3 DEF CandidateInv
  <2> QED
    BY <2>1, <2>2, <2>3, <2>4, <2>5 DEF CandidateNext
<1> QED
  BY <1>1, <1>2, PTL DEF CandidateSpec


-----------------------------------------------------------------------------
(* What the property means.                                                *)

\* A later state's name is told by its digits.
LEMMA ThenPlace ==
  ASSUME latency \in Nat, latency # 0, NEW s \in BlockSignals,
         ~IsCurrent(NameAt(s, latency))
  PROVE  /\ Cleaning[NameAt(s, latency)] = s.name
         /\ PlaceOf(NameAt(s, latency)) = <<s.name, latency>>
<1> DEFINE n == NameAt(s, latency)
<1>1. \A t \in BlockSignals : NameAt(t, latency) = n => Cleaned(n) = t.name
  BY NameAtType
<1>2. LaterOf(n) \in BlockSignals /\ NameAt(LaterOf(n), latency) = n
  BY DEF LaterOf
<1>3. LaterOf(n).name = s.name
  BY <1>1, <1>2
<1>4. Cleaning[n] = Cleaned(n)
  BY NameAtType DEF Cleaning
<1> QED
  BY <1>1, <1>3, <1>4 DEF PlaceOf

\* A cleaned name is a name.
LEMMA CleaningType ==
  ASSUME latency \in Nat
  PROVE  Cleaning \in [Identifiers -> Identifiers]
<1>1. ASSUME NEW n \in Identifiers PROVE Cleaned(n) \in Identifiers
  <2>1. CASE IsLater(n)
    <3>1. n.digits \in Seq(Nat) /\ Len(n.digits) \in Nat /\ n.stem \in STRING /\ n.digits # <<>>
      BY <2>1 DEF Identifiers, IsLater
    <3>2. SubSeq(n.digits, 1, Len(n.digits) - 1) \in Seq(Nat)
      BY <3>1
    <3> QED
      BY <2>1, <3>1, <3>2 DEF Cleaned, Identifiers
  <2>2. CASE ~IsLater(n)
    BY <2>2 DEF Cleaned
  <2> QED
    BY <2>1, <2>2
<1> QED
  BY <1>1 DEF Cleaning

\* The latency read is that of the later states spoken of.
LEMMA DelayIs ==
  ASSUME NEW t \in AllTerms, NEW c,
         \A n \in NamesOf(t) : IsLater(n) => Suffix(n) = c
  PROVE  Delay(t) = IF \E n \in NamesOf(t) : IsLater(n) THEN c ELSE 0
<1> DEFINE l == NameList[t]
           later == {i \in DOMAIN l : IsLater(l[i])}
<1>1. NamesOf(t) = {l[i] : i \in DOMAIN l}
  BY DEF NamesOf
<1>2. l \in Seq(Identifiers)
  BY NameListType
<1>3. CASE later = {}
  BY <1>1, <1>3 DEF Delay
<1>4. CASE later # {}
  <2>1. Len(l) \in Nat /\ later \subseteq Nat /\ \A i \in later : i =< Len(l)
    BY <1>2
  <2>2. \E i \in later : \A j \in later : j =< i
    BY <1>4, <2>1, GreatestNat
  <2>3. Max(later) \in later
    BY <2>1, <2>2 DEF Max
  <2>4. l[Max(later)] \in NamesOf(t) /\ IsLater(l[Max(later)])
    BY <1>1, <2>3
  <2>5. Delay(t) = Suffix(l[Max(later)])
    BY <1>4 DEF Delay
  <2> QED
    BY <2>4, <2>5
<1> QED
  BY <1>3, <1>4

\* A property whose delay is none is its expression.
LEMMA NoDelay ==
  ASSUME property.expr \in AllTerms, property.delay = 0
  PROVE  /\ PlacesStated = PlacesAt(property.expr, 0)
         /\ \A e : PropertyHolds(e) <=> Evaluated(EnvAt(e, 0))[property.expr] = 1
<1> DEFINE x == property.expr
<1> HIDE DEF x
<1>0. x \in AllTerms
  BY DEF x
<1>1. CASE ~IsArrow(x)
  BY <1>1 DEF PlacesStated, PropertyHolds, x
<1>2. CASE IsArrow(x)
  <2>1. ~IsLeaf(x) /\ Len(x) # 2
    BY <1>0, <1>2, AllShape DEF IsArrow, IsLeaf, Shape, VerilogUnary
  <2>2. NamesOf(x) = NamesOf(x[2]) \union NamesOf(x[3])
    BY <1>0, <2>1, NamesOfIs
  <2>3. PlacesStated = PlacesAt(x[2], 0) \union PlacesAt(x[3], 0)
    BY <1>2 DEF PlacesStated, x
  <2>4. PlacesStated = PlacesAt(x, 0)
    BY <2>2, <2>3 DEF PlacesAt
  <2>5. ASSUME NEW e PROVE PropertyHolds(e) <=> Evaluated(EnvAt(e, 0))[x] = 1
    <3> DEFINE Ev == Evaluated(EnvAt(e, 0))
    <3>1. PropertyHolds(e) <=> (Ev[x[2]] = 1 => Ev[x[3]] = 1)
      BY <1>2 DEF PropertyHolds, x
    <3>2. Ev[x] = Bit(\/ VerilogTrue(x[1], Ev[x[2]], Ev[x[3]])
                      \/ IF Signed(x[2]) /\ Signed(x[3])
                         THEN Less(x[1], TwosComplement(Ev[x[2]], Half(x[2])),
                                         TwosComplement(Ev[x[3]], Half(x[3])))
                         ELSE Less(x[1], Ev[x[2]], Ev[x[3]]))
      BY <1>0, <2>1, EvaluatedIs
    <3> HIDE DEF Ev
    <3>3. \A v, w : ~Less(x[1], v, w)
      BY <1>2 DEF IsArrow, Less
    <3>4. VerilogTrue(x[1], Ev[x[2]], Ev[x[3]]) <=> (Ev[x[2]] = 1 => Ev[x[3]] = 1)
      BY <1>2 DEF IsArrow, VerilogTrue
    <3>5. (Ev[x] = 1) <=> (Ev[x[2]] = 1 => Ev[x[3]] = 1)
      BY <3>2, <3>3, <3>4 DEF Bit
    <3> QED
      BY <3>1, <3>5 DEF Ev
  <2> QED
    BY <2>4, <2>5 DEF x
<1> QED
  BY <1>1, <1>2

\* What is stated of now is what is meant.
LEMMA NowMeans ==
  ASSUME latency \in Nat, NEW t \in SmtTerms, NamesAre(t, 0),
         latency = 0 \/ \A n \in NamesOf(t) : ~IsLater(n)
  PROVE  /\ \A n \in NamesOf(t) : Cleaning[n] = n /\ PlaceOf(n) = <<n, 0>>
         /\ PlacesAt(Printed[Renamed(Cleaning)[t]], 0) = {PlaceOf(n) : n \in NamesOf(t)}
         /\ \A e : Evaluated(EnvAt(e, 0))[Printed[Renamed(Cleaning)[t]]]
                     = Value([n \in Identifiers |-> e[PlaceOf(n)]])[t]
<1>1. Cleaning \in [Identifiers -> Identifiers]
  BY CleaningType
<1>2. NamesOf(t) \subseteq Identifiers
  BY NamesOfIs, PrintedWithin
<1>3. ASSUME NEW n \in NamesOf(t) PROVE Cleaning[n] = n /\ PlaceOf(n) = <<n, 0>>
  <2>1. IsCurrent(n)
    BY DEF NamesAre, NameAt, IsCurrent
  <2>2. Cleaning[n] = n
    BY <1>2 DEF Cleaning, Cleaned
  <2> QED
    BY <2>1, <2>2 DEF PlaceOf
<1> DEFINE r == Renamed(Cleaning)[t]
<1>4. r \in SmtTerms /\ NamesOf(r) = {Cleaning[n] : n \in NamesOf(t)}
  BY <1>1, RenamedWithin, RenamedMeans
<1>5. NamesOf(Printed[r]) = NamesOf(t)
  BY <1>3, <1>4, PrintedNames
<1>6. PlacesAt(Printed[r], 0) = {PlaceOf(n) : n \in NamesOf(t)}
  BY <1>3, <1>5 DEF PlacesAt
<1>7. ASSUME NEW e
      PROVE  Evaluated(EnvAt(e, 0))[Printed[r]] = Value([n \in Identifiers |-> e[PlaceOf(n)]])[t]
  <2> DEFINE env == EnvAt(e, 0)
             other == [n \in Identifiers |-> e[PlaceOf(n)]]
  <2>1. \A n \in NamesOf(t) : env[Cleaning[n]] = other[n]
    BY <1>2, <1>3 DEF EnvAt
  <2> DEFINE to == Cleaning
  <2> HIDE DEF env, other, to
  <2>2. Value(env)[Renamed(to)[t]] = Value(other)[t]
    <3>1. to \in [Identifiers -> Identifiers] /\ \A n \in NamesOf(t) : env[to[n]] = other[n]
      BY <1>1, <2>1 DEF to
    <3> QED
      BY <3>1, RenamedValue
  <2>3. Evaluated(env)[Printed[r]] = Value(env)[r]
    BY <1>4, PrintedMeans
  <2> QED
    BY <2>2, <2>3 DEF env, other, to
<1> QED
  BY <1>3, <1>6, <1>7

\* What is stated of a later state is what is meant.
LEMMA ThenMeans ==
  ASSUME latency \in Nat, latency # 0, NEW t \in SmtTerms, NamesAre(t, latency),
         \A n \in NamesOf(t) : ~(IsCurrent(n) /\ IsLater(n))
  PROVE  /\ \A n \in NamesOf(t) : IsLater(n) /\ Suffix(n) = latency
         /\ PlacesAt(Printed[Renamed(Cleaning)[t]], latency) = {PlaceOf(n) : n \in NamesOf(t)}
         /\ \A e : Evaluated(EnvAt(e, latency))[Printed[Renamed(Cleaning)[t]]]
                     = Value([n \in Identifiers |-> e[PlaceOf(n)]])[t]
<1>1. Cleaning \in [Identifiers -> Identifiers]
  BY CleaningType
<1>2. NamesOf(t) \subseteq Identifiers
  BY NamesOfIs, PrintedWithin
<1>3. ASSUME NEW n \in NamesOf(t)
      PROVE  IsLater(n) /\ Suffix(n) = latency /\ PlaceOf(n) = <<Cleaning[n], latency>>
  <2>1. PICK s \in BlockSignals : n = NameAt(s, latency)
    BY DEF NamesAre
  <2>2. IsLater(n) /\ Suffix(n) = latency
    BY <2>1, NameAtType
  <2>3. ~IsCurrent(n)
    BY <2>2
  <2> QED
    BY <2>1, <2>2, <2>3, ThenPlace
<1> DEFINE r == Renamed(Cleaning)[t]
<1>4. r \in SmtTerms /\ NamesOf(r) = {Cleaning[n] : n \in NamesOf(t)}
  BY <1>1, RenamedWithin, RenamedMeans
<1>5. NamesOf(Printed[r]) = {Cleaning[n] : n \in NamesOf(t)}
  BY <1>4, PrintedNames
<1>6. PlacesAt(Printed[r], latency) = {PlaceOf(n) : n \in NamesOf(t)}
  BY <1>3, <1>5 DEF PlacesAt
<1>7. ASSUME NEW e
      PROVE  Evaluated(EnvAt(e, latency))[Printed[r]]
               = Value([n \in Identifiers |-> e[PlaceOf(n)]])[t]
  <2> DEFINE env == EnvAt(e, latency)
             other == [n \in Identifiers |-> e[PlaceOf(n)]]
  <2>1. \A n \in NamesOf(t) : env[Cleaning[n]] = other[n]
    BY <1>1, <1>2, <1>3 DEF EnvAt
  <2> DEFINE to == Cleaning
  <2> HIDE DEF env, other, to
  <2>2. Value(env)[Renamed(to)[t]] = Value(other)[t]
    <3>1. to \in [Identifiers -> Identifiers] /\ \A n \in NamesOf(t) : env[to[n]] = other[n]
      BY <1>1, <2>1 DEF to
    <3> QED
      BY <3>1, RenamedValue
  <2>3. Evaluated(env)[Printed[r]] = Value(env)[r]
    BY <1>4, PrintedMeans
  <2> QED
    BY <2>2, <2>3 DEF env, other, to
<1> QED
  BY <1>3, <1>6, <1>7

\* The property EBMC checks says what cvc5's candidate says, whichever answers
\* came before: for any signals, latencies and depth, and any values.
THEOREM CandidateSound == CandidateSpec => []PropertyMeansCandidate
<1>1. ASSUME CandidateInv, at = "check",
             ~(latency > 0 /\ \E n \in NamesOf(body) : IsCurrent(n) /\ IsLater(n))
      PROVE  SameMeaning
  <2> DEFINE r == Renamed(Cleaning)[body]
             E0(e) == EnvAt(e, 0)
             El(e) == EnvAt(e, latency)
             O(e) == [n \in Identifiers |-> e[PlaceOf(n)]]
  <2>0. /\ latency \in Nat /\ Cleaning \in [Identifiers -> Identifiers]
        /\ IsAnswer(body) /\ body \in SmtTerms /\ body \in AllTerms
        /\ function = [body |-> r, latency |-> IF latency > 0 THEN Delay(body) ELSE 0]
    BY <1>1, CandidateAssumption, CleaningType, PrintedWithin DEF CandidateInv, IsAnswer, AllNow
  <2>1. r \in SmtTerms /\ Printed[r] \in AllTerms /\ r[1] = body[1]
    BY <2>0, RenamedWithin, RenamedMeans, PrintedWithin
  <2>2. property = IF function.latency # 0 /\ r[1] # "=>" THEN [throws |-> TRUE]
                   ELSE [throws |-> FALSE, delay |-> function.latency, expr |-> Printed[r]]
    BY <1>1, <2>0 DEF CandidateInv
  <2> HIDE DEF r
  <2>3. CASE AllNow(body)
    <3>1. latency = 0 \/ \A n \in NamesOf(body) : ~IsLater(n)
      <4>1. \A n \in NamesOf(body) : IsCurrent(n)
        BY <2>3 DEF AllNow, NamesAre, NameAt, IsCurrent
      <4> QED
        BY <2>0, <1>1, <4>1
    <3>2. latency > 0 => Delay(body) = 0
      <4> SUFFICES ASSUME latency > 0 PROVE Delay(body) = 0
        OBVIOUS
      <4>1. \A n \in NamesOf(body) : ~IsLater(n)
        BY <3>1
      <4> QED
        BY <2>0, <4>1, DelayIs
    <3>3. function.latency = 0
      BY <2>0, <3>2
    <3>4. property.throws = FALSE /\ property.delay = 0 /\ property.expr = Printed[r]
      BY <2>2, <3>3
    <3>5. /\ PlacesAt(Printed[r], 0) = PlacesMeant
          /\ \A e : Evaluated(E0(e))[Printed[r]] = Value(O(e))[body]
      BY <2>0, <2>3, <3>1, NowMeans DEF AllNow, PlacesMeant, r
    <3>6. /\ PlacesStated = PlacesAt(Printed[r], 0)
          /\ \A e : PropertyHolds(e) <=> Evaluated(E0(e))[Printed[r]] = 1
      BY <2>1, <3>4, NoDelay
    <3>7. \A e : PropertyHolds(e) <=> CandidateHolds(e)
      BY <3>5, <3>6 DEF CandidateHolds, Holds
    <3> QED
      BY <3>4, <3>5, <3>6, <3>7 DEF SameMeaning
  <2>4. CASE ~AllNow(body)
    <3> DEFINE t == body[2]
               u == body[3]
               p == Printed[Renamed(Cleaning)[t]]
               q == Printed[Renamed(Cleaning)[u]]
    <3>1. /\ latency # 0 /\ latency > 0 /\ body = <<"=>", t, u>>
          /\ t \in SmtTerms /\ NamesAre(t, 0) /\ u \in SmtTerms /\ NamesAre(u, latency)
      BY <2>0, <2>4 DEF IsAnswer, AllNow
    <3>2. ~IsLeaf(body) /\ Len(body) = 3 /\ body[1] = "=>"
      BY <3>1 DEF IsLeaf
    <3> HIDE DEF t, u
    <3>3. NamesOf(body) = NamesOf(t) \union NamesOf(u)
      BY <2>0, <3>2, NamesOfIs DEF t, u
    <3>4. \A n \in NamesOf(body) : ~(IsCurrent(n) /\ IsLater(n))
      BY <1>1, <3>1
    <3>5. \A n \in NamesOf(t) : ~IsLater(n)
      BY <3>1, <3>3, <3>4 DEF NamesAre, NameAt, IsCurrent
    <3>6. /\ PlacesAt(p, 0) = {PlaceOf(n) : n \in NamesOf(t)}
          /\ \A e : Evaluated(E0(e))[p] = Value(O(e))[t]
      BY <2>0, <3>1, <3>5, NowMeans
    <3>7. /\ \A n \in NamesOf(u) : IsLater(n) /\ Suffix(n) = latency
          /\ PlacesAt(q, latency) = {PlaceOf(n) : n \in NamesOf(u)}
          /\ \A e : Evaluated(El(e))[q] = Value(O(e))[u]
      BY <2>0, <3>1, <3>3, <3>4, ThenMeans
    <3>8. Delay(body) = latency
      <4>1. NamesOf(u) # {}
        BY <3>1, NamesOfIs, PrintedWithin
      <4>2. \A n \in NamesOf(body) : IsLater(n) => Suffix(n) = latency
        BY <3>3, <3>5, <3>7
      <4>3. \E n \in NamesOf(body) : IsLater(n)
        BY <3>3, <3>7, <4>1
      <4> QED
        BY <2>0, <4>2, <4>3, DelayIs
    <3>9. function.latency = latency
      BY <2>0, <3>1, <3>8
    <3>10. property.throws = FALSE /\ property.delay = latency /\ property.expr = Printed[r]
      BY <2>1, <2>2, <3>2, <3>9
    <3>11. r = <<"=>", Renamed(Cleaning)[t], Renamed(Cleaning)[u]>>
      BY <2>0, <3>2, RenamedMeans DEF r, t, u
    <3>12. Printed[r] = <<"|->", p, q>>
      <4>1. ~IsLeaf(r) /\ Len(r) # 2 /\ r[1] = "=>"
            /\ r[2] = Renamed(Cleaning)[t] /\ r[3] = Renamed(Cleaning)[u]
        BY <3>11 DEF IsLeaf
      <4>2. Printed[r] = <<Verilog[r[1]], Operand(r[1], Printed[r[2]]), Operand(r[1], Printed[r[3]])>>
        BY <2>1, <4>1, PrintedIs
      <4>3. \A v : Operand("=>", v) = v
        BY DEF Operand, Cast
      <4> QED
        BY <4>1, <4>2, <4>3, Translations
    <3> HIDE DEF p, q
    <3>13. IsArrow(property.expr) /\ property.expr[2] = p /\ property.expr[3] = q
      BY <3>10, <3>12 DEF IsArrow
    <3>14. PlacesStated = PlacesMeant
      <4>1. PlacesStated = PlacesAt(p, 0) \union PlacesAt(q, latency)
        BY <3>10, <3>13 DEF PlacesStated
      <4>2. PlacesMeant = {PlaceOf(n) : n \in NamesOf(t)} \union {PlaceOf(n) : n \in NamesOf(u)}
        BY <3>3 DEF PlacesMeant
      <4> QED
        BY <3>6, <3>7, <4>1, <4>2
    <3>15. ASSUME NEW e PROVE PropertyHolds(e) <=> CandidateHolds(e)
      <4>1. PropertyHolds(e) <=> (Value(O(e))[t] = 1 => Value(O(e))[u] = 1)
        BY <3>6, <3>7, <3>10, <3>13 DEF PropertyHolds
      <4> DEFINE Va == Value(O(e))
      <4>2. Va[body] = Bit(True(body[1], Va[t], Va[u]))
        BY <2>0, <3>2, ValueIs DEF t, u
      <4> HIDE DEF Va
      <4>3. True(body[1], Va[t], Va[u]) <=> (Va[t] = 1 => Va[u] = 1)
        BY <3>2 DEF True
      <4>4. Va[body] = 1 <=> (Va[t] = 1 => Va[u] = 1)
        BY <4>2, <4>3 DEF Bit
      <4>5. CandidateHolds(e) <=> Va[body] = 1
        BY DEF CandidateHolds, Holds, Va
      <4> QED
        BY <4>1, <4>4, <4>5 DEF Va
    <3> QED
      BY <3>10, <3>14, <3>15 DEF SameMeaning
  <2> QED
    BY <2>3, <2>4
<1>2. CandidateInv => PropertyMeansCandidate
  BY <1>1 DEF PropertyMeansCandidate
<1> QED
  BY <1>2, CandidateInvariant, PTL
=============================================================================
