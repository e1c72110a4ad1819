---------------------------- MODULE PipelineProofs ----------------------------
(***************************************************************************)
(* Proofs about Pipeline, for every set of assertions, every design, every *)
(* option setting and any number of rounds.                                *)
(***************************************************************************)
EXTENDS Pipeline, FiniteSetTheorems, TLAPS

-----------------------------------------------------------------------------
(* The inductive invariant, in parts.                                       *)

Bound == (IF opt.maxIterations > 1 THEN opt.maxIterations ELSE 1) + latency

\* A round is started only while the bound is not reached.
Rounds ==
  /\ round =< Bound
  /\ stage \in {"prepare", "simulate", "round", "minimise", "msa"} => round < Bound

\* The working directory is there from its creation to the end.
Directory ==
  /\ stage = "prepare" => workDir = "none"
  /\ stage \notin {"prepare", "done"} => workDir = "present"

\* Nothing is emitted before the final check, and then only what it proved;
\* the header says which check that was.
Checked ==
  /\ opt.checker => \A a \in emitted : verdict[a] = "Verified"
  /\ verdict \in SoundVerdicts(opt) \/ emitted = {} \/ ~opt.checker
  /\ label # "none" => label = Label

\* Whatever is mined was defined, and the strength of the definitions is in the
\* file or was lost in a way that is on record.
Defined ==
  /\ mined \subseteq everDefined /\ defs \subseteq everDefined
  /\ Strength(defs \cup lost) = Strength(everDefined)

\* Nothing is on record as lost unless checks throw or writes come out short.
Faultless == ~ChecksThrow /\ ~WritesFail => lost = {}

\* Nothing is chosen before the end minimiser has run.
Choice == stage \notin {"check", "emit", "done"} => assertions = {}

\* The whole.
IInv ==
  /\ TypeOK /\ Rounds /\ Directory /\ Checked /\ Defined /\ Faultless /\ Choice
  /\ LossesAccounted /\ NothingMinedVanishes /\ WorkDirFate

-----------------------------------------------------------------------------
(* Type correctness.                                                        *)

\* The settings have the shape the module reads.
LEMMA Settings ==
  ASSUME opt \in Configs
  PROVE  opt \in ConfigShape
BY ConfigAssumption

\* The program starts in a state of the right type.
LEMMA InitTypes == Init => TypeOK
<1> SUFFICES ASSUME Init PROVE TypeOK
  OBVIOUS
<1>1. Unlimited \in 0 .. Unlimited
  BY DesignAssumption DEF Unlimited
<1>2. computedMsa \in [last : 0 .. Unlimited, flat : Nat]
  BY <1>1 DEF Init, NoMsaYet
<1>3. opt \in Configs /\ verdict \in [Assertions -> Answers \cup {"none"}]
  BY DEF Init, Unasked
<1>4. /\ defs \subseteq Assertions /\ pairs \subseteq Assertions
      /\ everDefined \subseteq Assertions /\ lost \subseteq Assertions
  BY DesignAssumption DEF Init
<1> QED
  BY <1>1, <1>2, <1>3, <1>4 DEF Init, TypeOK, Stages

\* A set of verified assertions is finite, so it can be counted.
LEMMA Countable ==
  ASSUME NEW S \in SUBSET Assertions
  PROVE  Cardinality(S) \in Nat
BY DesignAssumption, FS_Subset, FS_CardinalityType

\* What the minimiser keeps and loses are definitions.
LEMMA MinimiserTypes ==
  ASSUME NEW M \in Minimised(defs), NEW K \in AfterThrow(M), NEW L \in Unwritten(K)
  PROVE  /\ K \subseteq M /\ M \subseteq defs /\ L \subseteq K
         /\ M # {} => K # {}
         /\ defs # {} => M # {}
<1>1. M \subseteq defs /\ (defs # {} => M # {})
  BY DEF Minimised
<1>2. K = M \/ (K \subseteq M /\ K # {})
  BY DEF AfterThrow
<1>3. L \in {{}} \/ L \in SUBSET K
  BY DEF Unwritten
<1> QED
  BY <1>1, <1>2, <1>3

\* Every step preserves the types.
LEMMA TypeStep ==
  ASSUME TypeOK, [Next]_vars
  PROVE  TypeOK'
<1> USE DEF TypeOK, Stages, Exit, roundVars, fileVars, outVars
<1>1. CASE Prepare
  BY <1>1 DEF Prepare
<1>2. CASE Simulate
  BY <1>2 DEF Simulate
<1>3. CASE RunBlocks
  <2>1. PICK verified \in SUBSET Assertions, newDefs \in SUBSET Assertions,
             newPairs \in SUBSET Assertions :
          /\ fresh' = Cardinality(verified \ mined)
          /\ mined' = mined \cup verified
          /\ defs' \subseteq defs \cup newDefs
          /\ lost' \subseteq lost \cup newDefs
          /\ pairs' \subseteq pairs \cup newPairs
          /\ everDefined' = everDefined \cup newDefs
    BY <1>3 DEF RunBlocks
  <2>2. fresh' \in Nat
    BY <2>1, Countable
  <2> QED
    BY <1>3, <2>1, <2>2 DEF RunBlocks, NextRound
<1>4. CASE StopRules
  BY <1>4 DEF StopRules
<1>5. CASE BlockMinimise
  <2>1. defs' \subseteq Assertions /\ lost' \subseteq Assertions
    BY <1>5, MinimiserTypes DEF BlockMinimise
  <2> QED
    BY <1>5, <2>1 DEF BlockMinimise
<1>6. CASE Reblock
  <2>1. PICK m \in MsaResults :
          /\ computedMsa' = Seen(m)
          /\ lastMsaSize' \in {lastMsaSize, m.size}
          /\ stableRounds' \in {stableRounds, StableCount(m.size)}
          /\ blocks' \in {blocks, NextBlocks(m.size)}
          /\ stage' \in {"latency", "round"}
    BY <1>6 DEF Reblock
  <2>2. m.size \in 0 .. Unlimited
    BY DesignAssumption DEF MsaResults, Unlimited
  <2>3. computedMsa' \in [last : 0 .. Unlimited, flat : Nat]
    BY <2>1, <2>2 DEF Seen
  <2>4. NextBlocks(m.size) \in SUBSET {"all", "msa"} /\ StableCount(m.size) \in Nat
    BY DEF NextBlocks, StableCount
  <2>5. UNCHANGED <<opt, late, workDir, latency, round, fresh, fileVars, outVars>>
    BY <1>6 DEF Reblock
  <2>6. stableRounds' \in Nat /\ lastMsaSize' \in 0 .. Unlimited
    BY <2>1, <2>2, <2>4
  <2>7. blocks' \in SUBSET {"all", "msa"}
    BY <2>1, <2>4
  <2> QED
    BY <2>1, <2>3, <2>5, <2>6, <2>7
<1>7. CASE NextLatency
  <2>1. opt.ltlDepth \in Nat
    BY Settings DEF ConfigShape
  <2>2. Unlimited \in 0 .. Unlimited /\ NoMsaYet \in [last : 0 .. Unlimited, flat : Nat]
    BY DesignAssumption DEF Unlimited, NoMsaYet
  <2>3. /\ latency' \in Nat /\ stableRounds' \in Nat
        /\ lastMsaSize' \in 0 .. Unlimited
        /\ stage' \in {"round", "endMinimise"}
    BY <1>7, <2>1, <2>2 DEF NextLatency
  <2>4. computedMsa' \in [last : 0 .. Unlimited, flat : Nat]
    BY <1>7, <2>2 DEF NextLatency
  <2>5. blocks' \in SUBSET {"all", "msa"}
    BY <1>7 DEF NextLatency
  <2>6. UNCHANGED <<opt, late, workDir, round, fresh, fileVars, outVars>>
    BY <1>7 DEF NextLatency
  <2> QED
    BY <2>3, <2>4, <2>5, <2>6
<1>8. CASE EndMinimise
  <2>1. CASE assertions' = mined /\ UNCHANGED lost
    BY <1>8, <2>1 DEF EndMinimise
  <2>2. ASSUME NEW M \in Minimised(defs), NEW K \in AfterThrow(M),
               assertions' = Survivors(K), lost' = lost \cup (M \ K)
        PROVE  TypeOK'
    <3>1. assertions' \subseteq Assertions
      BY <2>2 DEF Survivors
    <3>2. lost' \subseteq Assertions
      BY <2>2 DEF Minimised
    <3> QED
      BY <1>8, <3>1, <3>2 DEF EndMinimise
  <2> QED
    BY <1>8, <2>1, <2>2 DEF EndMinimise
<1>9. CASE FinalCheck
  <2>1. verdict' \in [Assertions -> Answers \cup {"none"}] /\ emitted' \subseteq Assertions
    BY <1>9 DEF FinalCheck, Proved, SoundVerdicts
  <2> QED
    BY <1>9, <2>1 DEF FinalCheck
<1>10. CASE Emit
  <2>1. Label \in {"unchecked", "bounded", "k-induction"}
    BY DEF Label
  <2>2. WorkDirAfter \in {"none", "present", "removed"}
    BY DEF WorkDirAfter
  <2>3. label' \in {label, Label} /\ workDir' \in {workDir, WorkDirAfter}
    BY <1>10 DEF Emit
  <2>4. exit' \in {0, 3} /\ stage' = "done"
    BY <1>10 DEF Emit
  <2> QED
    BY <1>10, <2>1, <2>2, <2>3, <2>4 DEF Emit
<1>11. CASE Throw
  BY <1>11 DEF Throw
<1>12. CASE DeadlinePasses
  BY <1>12 DEF DeadlinePasses
<1>13. CASE Done \/ UNCHANGED vars
  <2>1. UNCHANGED <<opt, stage, late, workDir, mined, defs, pairs, everDefined, lost>>
    BY <1>13 DEF Done, vars
  <2>2. UNCHANGED <<latency, round, fresh, lastMsaSize, stableRounds, blocks, computedMsa>>
    BY <1>13 DEF Done, vars
  <2>3. UNCHANGED <<assertions, verdict, emitted, label, exit>>
    BY <1>13 DEF Done, vars
  <2> QED
    BY <2>1, <2>2, <2>3
<1> QED
  BY <1>1, <1>2, <1>3, <1>4, <1>5, <1>6, <1>7, <1>8, <1>9, <1>10, <1>11, <1>12, <1>13
  DEF Next

-----------------------------------------------------------------------------
(* Rounds and the working directory.                                        *)

\* Every step keeps to the bound on the rounds.
LEMMA RoundsStep ==
  ASSUME IInv, [Next]_vars
  PROVE  Rounds'
<1> USE DEF Rounds, Bound, Exit, roundVars, fileVars, outVars
<1>1. /\ opt.maxIterations \in Int /\ round \in Nat /\ latency \in Nat
      /\ Rounds /\ stage \in Stages
  BY Settings DEF IInv, TypeOK, ConfigShape
<1>2. CASE Prepare \/ Simulate
  BY <1>1, <1>2 DEF Prepare, Simulate
<1>3. CASE RunBlocks
  BY <1>1, <1>3 DEF RunBlocks, NextRound
<1>4. CASE StopRules
  BY <1>1, <1>4 DEF StopRules, MiningEnds, OutOfRounds
<1>5. CASE BlockMinimise
  BY <1>1, <1>5 DEF BlockMinimise
<1>6. CASE Reblock
  <2>1. stage = "msa" /\ UNCHANGED <<opt, latency, round>>
    BY <1>6 DEF Reblock
  <2> QED
    BY <1>1, <2>1
<1>7. CASE NextLatency
  BY <1>1, <1>7 DEF NextLatency
<1>8. CASE EndMinimise \/ FinalCheck \/ Emit \/ Throw
  BY <1>1, <1>8 DEF EndMinimise, FinalCheck, Emit, Throw
<1>9. CASE DeadlinePasses \/ Done \/ UNCHANGED vars
  BY <1>1, <1>9 DEF DeadlinePasses, Done, vars
<1> QED
  BY <1>2, <1>3, <1>4, <1>5, <1>6, <1>7, <1>8, <1>9 DEF Next

\* The working directory goes only in a successful Emit.
LEMMA DirectoryStep ==
  ASSUME IInv, [Next]_vars
  PROVE  Directory' /\ WorkDirFate'
<1> USE DEF Directory, WorkDirFate, Exit, roundVars, fileVars, outVars
<1>1. Directory /\ WorkDirFate /\ stage \in Stages
  BY DEF IInv, TypeOK
<1>2. opt \in ConfigShape /\ opt.keepWork \in BOOLEAN
  BY Settings DEF IInv, TypeOK, ConfigShape
<1>3. CASE Prepare
  BY <1>1, <1>3 DEF Prepare
<1>4. CASE Simulate \/ RunBlocks
  BY <1>1, <1>4 DEF Simulate, RunBlocks
<1>5. CASE StopRules \/ BlockMinimise \/ NextLatency
  BY <1>1, <1>5 DEF StopRules, BlockMinimise, NextLatency
<1>6. CASE Reblock
  <2>1. stage = "msa" /\ stage' \in {"round", "latency"} /\ UNCHANGED workDir
    BY <1>6 DEF Reblock
  <2> QED
    BY <1>1, <2>1
<1>7. CASE EndMinimise \/ FinalCheck
  BY <1>1, <1>7 DEF EndMinimise, FinalCheck
<1>8. CASE Emit
  BY <1>1, <1>2, <1>8 DEF Emit, WorkDirAfter
<1>9. CASE Throw
  BY <1>1, <1>9 DEF Throw
<1>10. CASE DeadlinePasses \/ Done \/ UNCHANGED vars
  BY <1>1, <1>10 DEF DeadlinePasses, Done, vars
<1> QED
  BY <1>3, <1>4, <1>5, <1>6, <1>7, <1>8, <1>9, <1>10 DEF Next

\* Only what the final check proved is emitted.
LEMMA CheckedStep ==
  ASSUME IInv, [Next]_vars
  PROVE  Checked'
<1> USE DEF Checked, Exit, Label, SoundVerdicts, roundVars, fileVars, outVars
<1>1. Checked /\ opt \in ConfigShape
  BY Settings DEF IInv, TypeOK
<1>2. CASE Prepare \/ Simulate \/ RunBlocks \/ StopRules \/ BlockMinimise
  BY <1>1, <1>2 DEF Prepare, Simulate, RunBlocks, StopRules, BlockMinimise
<1>3. CASE Reblock
  <2>1. UNCHANGED <<opt, verdict, emitted, label>>
    BY <1>3 DEF Reblock
  <2> QED
    BY <1>1, <2>1
<1>4. CASE NextLatency \/ EndMinimise \/ Throw
  BY <1>1, <1>4 DEF NextLatency, EndMinimise, Throw
<1>5. CASE FinalCheck
  BY <1>1, <1>5 DEF FinalCheck, Proved
<1>6. CASE Emit
  BY <1>1, <1>6 DEF Emit
<1>7. CASE DeadlinePasses \/ Done \/ UNCHANGED vars
  BY <1>1, <1>7 DEF DeadlinePasses, Done, vars
<1> QED
  BY <1>2, <1>3, <1>4, <1>5, <1>6, <1>7 DEF Next

-----------------------------------------------------------------------------
(* The definitions and the minimisers.                                      *)

\* Two sets of assertions together allow what both allow.
LEMMA StrengthUnion ==
  ASSUME NEW S, NEW T
  PROVE  Strength(S \cup T) = Strength(S) \cap Strength(T)
BY DEF Strength

\* More assertions allow less.
LEMMA StrengthShrinks ==
  ASSUME NEW S, NEW T \in SUBSET S
  PROVE  Strength(S) \subseteq Strength(T)
BY DEF Strength

\* A round hands over a definition with every assertion it mines, and what the
\* file then lacks is on record.
LEMMA RoundDefines ==
  ASSUME Defined, RunBlocks
  PROVE  Defined'
<1>1. PICK verified \in SUBSET Assertions, newDefs \in SUBSET Assertions,
           newPairs \in SUBSET Assertions :
        /\ mined' = mined \cup verified
        /\ \E L \in Unwritten(verified) :
             /\ defs' = defs \cup (newDefs \ L)
             /\ lost' = (lost \cup newDefs) \ defs'
        /\ everDefined' = everDefined \cup newDefs
        /\ RoundOutcome(mined, mined', fresh', verified, newDefs, newPairs)
  BY DEF RunBlocks
<1>2. defs' \cup lost' = (defs \cup lost) \cup newDefs
  BY <1>1
<1>3. Strength((defs \cup lost) \cup newDefs) = Strength(defs \cup lost) \cap Strength(newDefs)
  BY StrengthUnion
<1>4. Strength(everDefined \cup newDefs) = Strength(everDefined) \cap Strength(newDefs)
  BY StrengthUnion
<1>5. Strength(defs' \cup lost') = Strength(everDefined')
  BY <1>1, <1>2, <1>3, <1>4 DEF Defined
<1>6. /\ Strength(defs \cup lost)' = Strength(defs' \cup lost')
      /\ Strength(everDefined)' = Strength(everDefined')
  BY DEF Strength
<1>7. verified \subseteq newDefs
  BY <1>1 DEF RoundOutcome
<1> QED
  BY <1>1, <1>5, <1>6, <1>7 DEF Defined

\* So is what the minimiser dropped after a check had thrown.
LEMMA MinimiserDefines ==
  ASSUME Defined, BlockMinimise
  PROVE  Defined'
<1>1. UNCHANGED <<mined, everDefined>>
  BY DEF BlockMinimise, fileVars
<1>2. /\ Strength(defs \cup lost)' = Strength(defs' \cup lost')
      /\ Strength(everDefined)' = Strength(everDefined)
  BY <1>1 DEF Strength
<1>3. CASE UNCHANGED <<defs, lost>>
  BY <1>1, <1>2, <1>3 DEF Defined
<1>4. CASE opt.blockMinimizer
  <2>1. PICK M \in Minimised(defs) : \E K \in AfterThrow(M) : \E L \in Unwritten(K) :
          defs' = K \ L /\ lost' = (lost \cup M) \ defs'
    BY <1>4 DEF BlockMinimise
  <2>2. defs' \subseteq M /\ M \subseteq defs
    BY <2>1, MinimiserTypes
  <2>3. defs' \cup lost' = M \cup lost
    BY <2>1, <2>2
  <2>4. Strength(M \cup lost) = Strength(M) \cap Strength(lost)
    BY StrengthUnion
  <2>5. Strength(defs \cup lost) = Strength(defs) \cap Strength(lost)
    BY StrengthUnion
  <2>6. Strength(M) = Strength(defs)
    BY DEF Minimised
  <2>7. Strength(defs' \cup lost') = Strength(everDefined)
    BY <2>3, <2>4, <2>5, <2>6 DEF Defined
  <2> QED
    BY <1>1, <1>2, <2>2, <2>7 DEF Defined
<1> QED
  BY <1>3, <1>4 DEF BlockMinimise

\* Nothing else touches the definitions before the end.
LEMMA DefinedStep ==
  ASSUME IInv, [Next]_vars
  PROVE  Defined'
<1> USE DEF Exit, roundVars, fileVars, outVars
<1>1. Defined
  BY DEF IInv
<1>2. ASSUME UNCHANGED <<mined, defs, everDefined, lost>> PROVE Defined'
  BY <1>1, <1>2 DEF Defined, Strength
<1>3. CASE RunBlocks \/ BlockMinimise
  BY <1>1, <1>3, RoundDefines, MinimiserDefines
<1>4. CASE Prepare \/ Simulate \/ StopRules \/ NextLatency
  BY <1>2, <1>4 DEF Prepare, Simulate, StopRules, NextLatency
<1>5. CASE Reblock
  BY <1>2, <1>5 DEF Reblock
<1>6. CASE EndMinimise
  <2>1. UNCHANGED <<mined, defs, everDefined>>
    BY <1>6 DEF EndMinimise
  <2>2. CASE UNCHANGED lost
    BY <1>2, <2>1, <2>2
  <2>3. ASSUME NEW M \in Minimised(defs), NEW K \in AfterThrow(M),
               lost' = lost \cup (M \ K)
        PROVE  Defined'
    <3>1. M \subseteq defs
      BY DEF Minimised
    <3>2. defs \cup lost' = defs \cup lost
      BY <2>3, <3>1
    <3>3. Strength(defs \cup lost)' = Strength(defs \cup lost)
      BY <2>1, <3>2 DEF Strength
    <3> QED
      BY <1>1, <2>1, <3>3 DEF Defined, Strength
  <2> QED
    BY <1>6, <2>2, <2>3 DEF EndMinimise
<1>7. CASE FinalCheck \/ Emit \/ Throw
  BY <1>2, <1>7 DEF FinalCheck, Emit, Throw
<1>8. CASE DeadlinePasses \/ Done \/ UNCHANGED vars
  BY <1>2, <1>8 DEF DeadlinePasses, Done, vars
<1> QED
  BY <1>3, <1>4, <1>5, <1>6, <1>7, <1>8 DEF Next

\* Without a throwing check and a short write the record of losses stays empty.
LEMMA FaultlessStep ==
  ASSUME IInv, [Next]_vars
  PROVE  Faultless'
<1> USE DEF Exit, roundVars, fileVars, outVars
<1> SUFFICES ASSUME ~ChecksThrow, ~WritesFail PROVE lost' = {}
  BY DEF Faultless
<1>1. lost = {}
  BY DEF IInv, Faultless
<1>2. \A S : Unwritten(S) = {{}} /\ AfterThrow(S) = {S}
  BY DEF Unwritten, AfterThrow
<1>3. CASE RunBlocks
  <2>1. \E S, newDefs : \E L \in Unwritten(S) :
          /\ defs' = defs \cup (newDefs \ L)
          /\ lost' = (lost \cup newDefs) \ defs'
    BY <1>3 DEF RunBlocks
  <2> QED
    BY <1>1, <1>2, <2>1
<1>4. CASE BlockMinimise
  <2>1. \/ UNCHANGED lost
        \/ \E M, K : \E L \in Unwritten(K) :
             /\ K \in AfterThrow(M)
             /\ defs' = K \ L
             /\ lost' = (lost \cup M) \ defs'
    BY <1>4 DEF BlockMinimise
  <2> QED
    BY <1>1, <1>2, <2>1
<1>5. CASE EndMinimise
  <2>1. \/ UNCHANGED lost
        \/ \E M : \E K \in AfterThrow(M) : lost' = lost \cup (M \ K)
    BY <1>5 DEF EndMinimise
  <2> QED
    BY <1>1, <1>2, <2>1
<1>6. CASE Prepare \/ Simulate \/ StopRules \/ NextLatency
  BY <1>1, <1>6 DEF Prepare, Simulate, StopRules, NextLatency
<1>7. CASE Reblock
  BY <1>1, <1>7 DEF Reblock
<1>8. CASE FinalCheck \/ Emit \/ Throw
  BY <1>1, <1>8 DEF FinalCheck, Emit, Throw
<1>9. CASE DeadlinePasses \/ Done \/ UNCHANGED vars
  BY <1>1, <1>9 DEF DeadlinePasses, Done, vars
<1> QED
  BY <1>3, <1>4, <1>5, <1>6, <1>7, <1>8, <1>9 DEF Next

\* What survives the end minimiser is, with the orphaned definitions and those
\* on record as lost, as strong as all that was mined.
LEMMA SurvivorsEnough ==
  ASSUME Defined, NEW M \in Minimised(defs), NEW K \in AfterThrow(M)
  PROVE  Strength(Survivors(K) \cup Orphans \cup (lost \cup (M \ K))) \subseteq Strength(mined)
<1>1. K \subseteq M /\ M \subseteq defs /\ Strength(M) = Strength(defs)
  BY DEF Minimised, AfterThrow
<1>2. K \subseteq Survivors(K) \cup Orphans
  BY <1>1 DEF Survivors, Orphans, Defined
<1>3. M \cup lost \subseteq Survivors(K) \cup Orphans \cup (lost \cup (M \ K))
  BY <1>2
<1>4. Strength(Survivors(K) \cup Orphans \cup (lost \cup (M \ K))) \subseteq Strength(M \cup lost)
  BY <1>3, StrengthShrinks
<1>5. Strength(M \cup lost) = Strength(defs \cup lost)
  <2>1. Strength(M \cup lost) = Strength(M) \cap Strength(lost)
    BY StrengthUnion
  <2>2. Strength(defs \cup lost) = Strength(defs) \cap Strength(lost)
    BY StrengthUnion
  <2> QED
    BY <1>1, <2>1, <2>2
<1>6. Strength(everDefined) \subseteq Strength(mined)
  BY StrengthShrinks DEF Defined
<1> QED
  BY <1>4, <1>5, <1>6 DEF Defined

\* The end minimiser chooses well, and the choice stands.
LEMMA ChoiceStep ==
  ASSUME IInv, [Next]_vars
  PROVE  Choice' /\ LossesAccounted' /\ NothingMinedVanishes'
<1> USE DEF Exit, roundVars, fileVars, outVars
<1> DEFINE Goal == Choice' /\ LossesAccounted' /\ NothingMinedVanishes'
<1>1. /\ Choice /\ LossesAccounted /\ NothingMinedVanishes /\ Defined
      /\ stage \in Stages
  BY DEF IInv, TypeOK
<1>2. ASSUME /\ stage' \notin {"check", "emit"}
             /\ stage \notin {"check", "emit", "done"}
             /\ UNCHANGED assertions
      PROVE  Goal
  <2>1. assertions' = {}
    BY <1>1, <1>2 DEF Choice
  <2> QED
    BY <1>2, <2>1 DEF Choice, LossesAccounted, NothingMinedVanishes, Chosen
<1>3. ASSUME /\ stage \in {"check", "emit", "done"}
             /\ stage' \in {"emit", "done"}
             /\ stage = "done" => stage' = "done"
             /\ UNCHANGED <<assertions, mined, everDefined, lost>>
      PROVE  Goal
  <2>1. Chosen' => Chosen
    BY <1>3 DEF Chosen
  <2> QED
    BY <1>1, <1>3, <2>1
    DEF Choice, LossesAccounted, NothingMinedVanishes, Orphans, Strength
<1>4. CASE Prepare \/ Simulate
  BY <1>2, <1>4 DEF Prepare, Simulate
<1>5. CASE RunBlocks \/ BlockMinimise
  BY <1>2, <1>5 DEF RunBlocks, BlockMinimise
<1>6. CASE StopRules \/ NextLatency
  BY <1>2, <1>6 DEF StopRules, NextLatency
<1>7. CASE Reblock
  <2>1. stage = "msa" /\ stage' \in {"round", "latency"} /\ UNCHANGED assertions
    BY <1>7 DEF Reblock
  <2> QED
    BY <1>2, <2>1
<1>8. CASE EndMinimise
  <2>1. /\ stage' = "check"
        /\ UNCHANGED <<mined, everDefined, defs>>
        /\ \/ assertions' = mined
           \/ \E M \in Minimised(defs) : \E K \in AfterThrow(M) :
                /\ Usable(Survivors(K))
                /\ assertions' = Survivors(K)
                /\ lost' = lost \cup (M \ K)
    BY <1>8 DEF EndMinimise
  <2>2. Strength(assertions' \cup Orphans \cup lost') \subseteq Strength(mined)
    BY <1>1, <2>1, SurvivorsEnough, StrengthShrinks
  <2>3. Orphans' = Orphans /\ Strength(mined)' = Strength(mined)
    BY <2>1 DEF Orphans, Strength
  <2>4. Strength(assertions \cup Orphans \cup lost)' = Strength(assertions' \cup Orphans \cup lost')
    BY <2>3 DEF Strength
  <2>5. mined # {} => assertions' # {}
    BY <2>1 DEF Usable
  <2> QED
    BY <2>1, <2>2, <2>3, <2>4, <2>5 DEF Choice, LossesAccounted, NothingMinedVanishes
<1>9. CASE FinalCheck \/ Emit
  BY <1>3, <1>9 DEF FinalCheck, Emit
<1>10. CASE Throw
  <2>1. CASE stage \in {"check", "emit"}
    BY <1>3, <1>10, <2>1 DEF Throw
  <2>2. CASE stage \notin {"check", "emit"}
    BY <1>2, <1>10, <2>2 DEF Throw
  <2> QED
    BY <2>1, <2>2
<1>11. CASE DeadlinePasses \/ Done \/ UNCHANGED vars
  <2>1. UNCHANGED <<stage, assertions, mined, everDefined, lost>>
    BY <1>11 DEF DeadlinePasses, Done, vars
  <2> QED
    BY <1>1, <2>1
    DEF Choice, Chosen, LossesAccounted, NothingMinedVanishes, Orphans, Strength
<1> QED
  BY <1>4, <1>5, <1>6, <1>7, <1>8, <1>9, <1>10, <1>11 DEF Next

-----------------------------------------------------------------------------
(* The theorems.                                                            *)

\* The invariant holds at first.
LEMMA InitInv == Init => IInv
<1> SUFFICES ASSUME Init PROVE IInv
  OBVIOUS
<1>1. Rounds /\ Directory /\ WorkDirFate
  BY InitTypes, Settings
  DEF Init, Rounds, Bound, Directory, WorkDirFate, TypeOK, ConfigShape
<1>2. Checked /\ Defined /\ Faultless
  BY DEF Init, Checked, Defined, Faultless
<1>3. Choice /\ LossesAccounted /\ NothingMinedVanishes
  BY DEF Init, Choice, LossesAccounted, NothingMinedVanishes, Chosen
<1> QED
  BY <1>1, <1>2, <1>3, InitTypes DEF IInv

\* The invariant is inductive, for every design, option setting and latency.
THEOREM Inductive == Safety => []IInv
<1>1. Init => IInv
  BY InitInv
<1>2. IInv /\ [Next]_vars => IInv'
  <2> SUFFICES ASSUME IInv, [Next]_vars PROVE IInv'
    OBVIOUS
  <2>1. TypeOK'
    BY TypeStep DEF IInv
  <2> QED
    BY <2>1, RoundsStep, DirectoryStep, CheckedStep, DefinedStep, FaultlessStep,
       ChoiceStep DEF IInv
<1> QED
  BY <1>1, <1>2, PTL DEF Safety

\* A file that states a guarantee holds only assertions that have it, whatever
\* was mined, minimised, killed or timed out on the way.
THEOREM HonestLabel == Safety => []LabelIsHonest
<1>1. IInv => LabelIsHonest
  BY DesignAssumption, Settings
  DEF IInv, TypeOK, Checked, LabelIsHonest, Label, SoundVerdicts, Strength, ConfigShape
<1> QED
  BY <1>1, Inductive, PTL

\* max_iterations bounds the rounds, one more for each further latency.
THEOREM BoundedRounds == Safety => []RoundsAreBounded
<1>1. IInv => RoundsAreBounded
  BY DEF IInv, Rounds, Bound, RoundsAreBounded
<1> QED
  BY <1>1, Inductive, PTL

\* Whatever strength a run loses before the final check is that of orphans, of
\* definitions dropped after a check had thrown, or of unwritten ones.
THEOREM LossesOnRecord == Safety => []LossesAccounted
<1>1. IInv => LossesAccounted
  BY DEF IInv
<1> QED
  BY <1>1, Inductive, PTL

\* Where no check throws and every write is whole, strength is lost to orphans
\* only.
THEOREM OnlyOrphansLose ==
  Safety => [](~ChecksThrow /\ ~WritesFail /\ Chosen =>
                 Strength(assertions \cup Orphans) \subseteq Strength(mined))
<1>1. IInv => (~ChecksThrow /\ ~WritesFail /\ Chosen =>
                 Strength(assertions \cup Orphans) \subseteq Strength(mined))
  <2> SUFFICES ASSUME IInv, ~ChecksThrow, ~WritesFail, Chosen
               PROVE  Strength(assertions \cup Orphans) \subseteq Strength(mined)
    OBVIOUS
  <2>1. (assertions \cup Orphans) \cup lost = assertions \cup Orphans
    BY DEF IInv, Faultless
  <2> QED
    BY <2>1 DEF IInv, LossesAccounted
<1> QED
  BY <1>1, Inductive, PTL

\* A run that mined something checks something.
THEOREM SomethingChecked == Safety => []NothingMinedVanishes
<1>1. IInv => NothingMinedVanishes
  BY DEF IInv
<1> QED
  BY <1>1, Inductive, PTL

\* The working directory outlives every failure, and a success only if asked.
THEOREM DirectoryFate == Safety => []WorkDirFate
<1>1. IInv => WorkDirFate
  BY DEF IInv
<1> QED
  BY <1>1, Inductive, PTL
===============================================================================
