--------------------------- MODULE ExperimentProofs ---------------------------
(***************************************************************************)
(* Proofs about Experiment, for any number of designs, edits and kills.    *)
(***************************************************************************)
EXTENDS Experiment, TLAPS

-----------------------------------------------------------------------------
(* The inductive invariant, in parts.                                       *)

\* Before `prepare' nothing has been used, and no other command gets anywhere.
NothingBefore ==
    ~ Prepared =>
      /\ pc = "idle"
      /\ \A i \in Inputs : frozen[i] = None
      /\ \A c \in Cells, i \in Inputs : used[c][i] = None

\* While `run' goes on, every input is the frozen one or was edited since it
\* was checked.
Noticed == pc # "idle" => \A i \in Inputs : inputs[i] = frozen[i] \/ i \in dirty

\* A run starts at the first cell, and the cell it works on has no result yet.
AtWork ==
    /\ pc = "idle" => at = 1
    /\ pc \notin {"idle", "next"} => disk[at] = "partial"

\* Cells are finished in order.
InOrder ==
    /\ \A b, c \in Cells : b < c /\ Done(c) => Done(b)
    /\ pc # "idle" => \A b \in Cells : b < at => Done(b)

\* What a cell without a directory left running is from before a deletion.
Behind == \A c \in lingering : disk[c] = "absent" => c \in discarded

\* The whole.
IInv ==
    /\ TypeOK /\ NothingBefore /\ Noticed /\ AtWork /\ InOrder /\ Behind
    /\ MutantsAreFrozen /\ UnfrozenOnlyMidRun /\ TriesApart

-----------------------------------------------------------------------------
(* Type correctness.                                                        *)

\* A summary has one of five exit codes.
LEMMA SummaryCodes == Summary \in {0, 2, 3, 4, 5}
  BY DEF Summary

\* The program starts in a state of the right type.
LEMMA InitTypes == Init => TypeOK
<1> SUFFICES ASSUME Init PROVE TypeOK
  OBVIOUS
<1>1. 1 \in 1 .. 2 * Designs + 1
  BY DesignsAssumption
<1>2. result \in [Cells -> Results]
  BY WallsAssumption DEF Init, Results, NoResult, Outcomes, Verdicts
<1>3. {0} \subseteq Versions
  BY BoundsAssumption DEF Versions
<1>4. edits \in 0 .. MaxEdits /\ crashes \in 0 .. MaxCrashes
  BY BoundsAssumption DEF Init
<1>5. exit \in {None, 0, 2, 3, 4, 5} /\ pc \in Places
  BY DEF Init, Places
<1> QED
  BY <1>1, <1>2, <1>3, <1>4, <1>5 DEF Init, TypeOK, Outcomes, Verdicts, None

\* Every step of the script preserves the types.
LEMMA ScriptTypes ==
  ASSUME TypeOK, Script
  PROVE  TypeOK'
<1> USE DEF TypeOK, Stop, Goto, local, store, world, history, Places
<1>1. 1 \in 1 .. 2 * Designs + 1 /\ 0 \in Versions
  BY DesignsAssumption, BoundsAssumption DEF Versions
<1>2. {"ok", "failed", "timedout"} = Outcomes /\ {"none", "valid", "invalid", "timedout"} = Verdicts
  BY DEF Outcomes, Verdicts
<1>3. at \in Cells => at + 1 \in 1 .. 2 * Designs + 1
  BY DesignsAssumption DEF Cells
<1>4. CASE Prepare
  BY <1>1, <1>2, <1>4 DEF Prepare
<1>5. CASE Summarise
  BY <1>1, <1>2, <1>5, SummaryCodes DEF Summarise
<1>6. CASE Run
  BY <1>1, <1>2, <1>6 DEF Run
<1>7. CASE Finish
  BY <1>1, <1>2, <1>7, SummaryCodes DEF Finish
<1>8. CASE Refuse
  BY <1>1, <1>2, <1>8 DEF Refuse
<1>9. CASE Skip
  BY <1>3, <1>9 DEF Skip
<1>10. CASE Open
  BY <1>10 DEF Open
<1>11. CASE Launch
  <2>0. at \in Cells
    BY <1>11 DEF Launch
  <2>1. used' \in [Cells -> [Inputs -> Versions \union {None}]]
    <3>1. [i \in Inputs |-> IF i = "mutants" THEN None ELSE inputs[i]]
            \in [Inputs -> Versions \union {None}]
      OBVIOUS
    <3> QED
      BY <1>11, <3>1 DEF Launch
  <2>2. excused' \in [Cells -> SUBSET Inputs]
    BY <1>11 DEF Launch
  <2>3. discarded' \subseteq Cells
    BY <1>11 DEF Launch
  <2>4. pc' = "mining" /\ judged' = "none" /\ exit' = None /\ UNCHANGED <<at, mined, copied>>
    BY <1>11 DEF Launch
  <2>5. UNCHANGED <<frozen, disk, result, inputs, edits, crashes, lingering, dirty>>
    BY <1>11 DEF Launch
  <2> QED
    BY <1>2, <2>0, <2>1, <2>2, <2>3, <2>4, <2>5
<1>12. CASE MiningEnds
  BY <1>12 DEF MiningEnds, Leftovers
<1>13. CASE Copy
  BY <1>13 DEF Copy, Inputs
<1>14. CASE VerifyCopy
  <2>1. at \in Cells
    BY <1>14 DEF VerifyCopy
  <2>2. UNCHANGED <<frozen, disk, result, inputs, edits, crashes>>
    BY <1>14 DEF VerifyCopy
  <2>3. UNCHANGED <<lingering, dirty, discarded, excused>>
    BY <1>14 DEF VerifyCopy
  <2>4. CASE Hashed = frozen["mutants"]
    <3>1. used' = [used EXCEPT ![at]["mutants"] = copied]
      BY <1>14, <2>4 DEF VerifyCopy
    <3>2. used' \in [Cells -> [Inputs -> Versions \union {None}]]
      BY <3>1
    <3>3. pc' = "evaluating" /\ exit' = None /\ UNCHANGED <<at, mined, judged, copied>>
      BY <1>14, <2>4 DEF VerifyCopy
    <3> QED
      BY <2>1, <2>2, <2>3, <3>2, <3>3
  <2>5. CASE Hashed # frozen["mutants"]
    BY <1>1, <1>2, <1>14, <2>2, <2>3, <2>5 DEF VerifyCopy
  <2> QED
    BY <2>4, <2>5
<1>15. CASE EvaluationEnds
  BY <1>15 DEF EvaluationEnds, Leftovers
<1>16. CASE WriteResult
  <2>1. result' \in [Cells -> Results]
    BY <1>16 DEF WriteResult, Results
  <2> QED
    BY <1>1, <1>2, <1>3, <1>16, <2>1 DEF WriteResult
<1> QED
  BY <1>4, <1>5, <1>6, <1>7, <1>8, <1>9, <1>10, <1>11, <1>12, <1>13, <1>14, <1>15, <1>16
  DEF Script

\* Every step preserves the types.
LEMMA TypeStep ==
  ASSUME TypeOK, [Next]_vars
  PROVE  TypeOK'
<1> USE DEF TypeOK, Stop, local, store, world, history, Places
<1>1. CASE Script
  BY <1>1, ScriptTypes
<1>2. CASE Crash
  <2>1. 1 \in 1 .. 2 * Designs + 1 /\ 0 \in Versions /\ crashes + 1 \in 0 .. MaxCrashes
    BY <1>2, DesignsAssumption, BoundsAssumption DEF Versions, Crash
  <2> QED
    BY <1>2, <2>1 DEF Crash, Outcomes, Verdicts
<1>3. ASSUME NEW i \in Inputs, Edit(i) PROVE TypeOK'
  <2>1. edits + 1 \in 0 .. MaxEdits /\ 0 .. edits + 1 \subseteq Versions
    BY <1>3, BoundsAssumption DEF Versions, Edit
  <2> QED
    BY <1>3, <2>1 DEF Edit
<1>4. ASSUME NEW c \in Cells, LeftoversEnd(c) \/ Discard(c) PROVE TypeOK'
  BY <1>4 DEF LeftoversEnd, Discard
<1>5. CASE UNCHANGED vars
  BY <1>5 DEF vars
<1> QED
  BY <1>1, <1>2, <1>3, <1>4, <1>5 DEF Next

-----------------------------------------------------------------------------
(* The other parts.                                                         *)

\* They hold at first.
LEMMA InitParts == Init => IInv
<1> SUFFICES ASSUME Init PROVE IInv
  OBVIOUS
<1>1. ~ Prepared
  BY DEF Init, Prepared, Inputs
<1>2. NothingBefore /\ Noticed /\ AtWork
  BY <1>1 DEF Init, NothingBefore, Noticed, AtWork, Inputs
<1>3. InOrder /\ Behind
  BY DEF Init, InOrder, Behind, Done
<1>4. MutantsAreFrozen /\ UnfrozenOnlyMidRun /\ TriesApart
  BY DEF Init, MutantsAreFrozen, UnfrozenOnlyMidRun, TriesApart, Inputs
<1> QED
  BY <1>2, <1>3, <1>4, InitTypes DEF IInv

\* Only `prepare' changes the manifest, and once; only mining and the check of
\* the copied mutants change what a cell has used.
LEMMA ManifestStep ==
  ASSUME IInv, [Next]_vars
  PROVE  NothingBefore' /\ MutantsAreFrozen'
<1> USE DEF IInv, NothingBefore, Prepared, MutantsAreFrozen, local, store, world, history,
            Stop, Goto, Inputs, TypeOK, None
<1>1. CASE Prepare
  <2>1. CASE Prepared
    BY <1>1, <2>1 DEF Prepare
  <2>2. CASE ~ Prepared
    BY <1>1, <2>2 DEF Prepare, Versions
  <2> QED
    BY <2>1, <2>2
<1>2. CASE Summarise \/ Run
  BY <1>2 DEF Summarise, Run
<1>3. CASE Finish \/ Refuse \/ Skip \/ Open
  BY <1>3 DEF Finish, Refuse, Skip, Open
<1>4. CASE Launch
  BY <1>4 DEF Launch
<1>5. CASE MiningEnds \/ Copy \/ EvaluationEnds \/ WriteResult
  BY <1>5 DEF MiningEnds, Copy, EvaluationEnds, WriteResult
<1>6. CASE VerifyCopy
  BY <1>6 DEF VerifyCopy, Hashed
<1>7. CASE Crash \/ \E i \in Inputs : Edit(i)
  BY <1>7 DEF Crash, Edit
<1>8. CASE \E c \in Cells : LeftoversEnd(c) \/ Discard(c)
  BY <1>8 DEF LeftoversEnd, Discard
<1>9. CASE UNCHANGED vars
  BY <1>9 DEF vars
<1> QED
  BY <1>1, <1>2, <1>3, <1>4, <1>5, <1>6, <1>7, <1>8, <1>9 DEF Next, Script

\* What a run has checked stays as it was, or is known to have been edited;
\* what a cell is mined with is looked at in the same moment.
LEMMA NoticedStep ==
  ASSUME IInv, [Next]_vars
  PROVE  Noticed' /\ UnfrozenOnlyMidRun'
<1> USE DEF IInv, Noticed, UnfrozenOnlyMidRun, local, store, world, history,
            Stop, Goto, TypeOK, None
<1>1. CASE Prepare
  <2>1. CASE Prepared
    BY <1>1, <2>1 DEF Prepare
  <2>2. CASE ~ Prepared
    BY <1>1, <2>2 DEF Prepare, NothingBefore
  <2> QED
    BY <2>1, <2>2
<1>2. CASE Summarise
  BY <1>2 DEF Summarise
<1>3. CASE Run
  BY <1>3 DEF Run, Frozen
<1>4. CASE Finish \/ Refuse \/ Skip
  BY <1>4 DEF Finish, Refuse, Skip
<1>5. CASE Open
  BY <1>5 DEF Open, SameBinary
<1>6. CASE Launch
  BY <1>6 DEF Launch
<1>7. CASE MiningEnds \/ Copy \/ EvaluationEnds \/ WriteResult
  BY <1>7 DEF MiningEnds, Copy, EvaluationEnds, WriteResult
<1>8. CASE VerifyCopy
  BY <1>8 DEF VerifyCopy, Hashed
<1>9. CASE Crash
  BY <1>9 DEF Crash
<1>10. ASSUME NEW i \in Inputs, Edit(i) PROVE Noticed' /\ UnfrozenOnlyMidRun'
  BY <1>10 DEF Edit
<1>11. CASE \E c \in Cells : LeftoversEnd(c) \/ Discard(c)
  BY <1>11 DEF LeftoversEnd, Discard
<1>12. CASE UNCHANGED vars
  BY <1>12 DEF vars
<1> QED
  BY <1>1, <1>2, <1>3, <1>4, <1>5, <1>6, <1>7, <1>8, <1>9, <1>10, <1>11, <1>12
  DEF Next, Script

\* Cells are opened, finished and skipped in order.
LEMMA OrderStep ==
  ASSUME IInv, [Next]_vars
  PROVE  AtWork' /\ InOrder'
<1> USE DEF IInv, AtWork, InOrder, Done, local, store, world, history, Stop, Goto, TypeOK, None
<1>1. CASE Prepare \/ Summarise
  BY <1>1 DEF Prepare, Summarise
<1>2. CASE Run
  <2>1. at' = 1 /\ UNCHANGED disk /\ pc' \in {"idle", "next"}
    BY <1>2 DEF Run
  <2> QED
    BY <2>1 DEF Cells
<1>3. CASE Finish \/ Refuse
  BY <1>3 DEF Finish, Refuse
<1>4. CASE Skip
  BY <1>4 DEF Skip, Skips, Cells
<1>5. CASE Open
  BY <1>5 DEF Open, Skips, Partial, Cells
<1>6. CASE Launch \/ MiningEnds \/ Copy \/ VerifyCopy \/ EvaluationEnds
  BY <1>6 DEF Launch, MiningEnds, Copy, VerifyCopy, EvaluationEnds
<1>7. CASE WriteResult
  BY <1>7 DEF WriteResult, Cells
<1>8. CASE Crash \/ \E i \in Inputs : Edit(i)
  BY <1>8 DEF Crash, Edit
<1>9. CASE \E c \in Cells : LeftoversEnd(c)
  BY <1>9 DEF LeftoversEnd
<1>10. CASE \E c \in Cells : Discard(c)
  BY <1>10 DEF Discard, Partial
<1>11. CASE UNCHANGED vars
  BY <1>11 DEF vars
<1> QED
  BY <1>1, <1>2, <1>3, <1>4, <1>5, <1>6, <1>7, <1>8, <1>9, <1>10, <1>11 DEF Next, Script

\* A finished cell keeps its result, whatever step is taken.
LEMMA DoneStays ==
  ASSUME IInv, [Next]_vars, NEW c \in Cells, Done(c)
  PROVE  /\ disk'[c] = "done" /\ result'[c] = result[c] /\ used'[c] = used[c]
<1> USE DEF IInv, AtWork, Done, local, store, world, history, TypeOK
<1>1. CASE Prepare \/ Summarise \/ Run
  BY <1>1 DEF Prepare, Summarise, Run
<1>2. CASE Finish \/ Refuse \/ Skip
  BY <1>2 DEF Finish, Refuse, Skip
<1>3. CASE Open
  BY <1>3 DEF Open, Skips
<1>4. CASE Launch
  BY <1>4 DEF Launch
<1>5. CASE MiningEnds \/ Copy \/ EvaluationEnds
  BY <1>5 DEF MiningEnds, Copy, EvaluationEnds
<1>6. CASE VerifyCopy
  BY <1>6 DEF VerifyCopy
<1>7. CASE WriteResult
  BY <1>7 DEF WriteResult
<1>8. CASE Crash \/ \E i \in Inputs : Edit(i)
  BY <1>8 DEF Crash, Edit
<1>9. CASE \E b \in Cells : LeftoversEnd(b) \/ Discard(b)
  BY <1>9 DEF LeftoversEnd, Discard, Partial
<1>10. CASE UNCHANGED vars
  BY <1>10 DEF vars
<1> QED
  BY <1>1, <1>2, <1>3, <1>4, <1>5, <1>6, <1>7, <1>8, <1>9, <1>10 DEF Next, Script

\* A directory goes only by a deletion, and what is opened had none.
LEMMA ApartStep ==
  ASSUME IInv, [Next]_vars
  PROVE  Behind' /\ TriesApart'
<1> USE DEF IInv, TypeOK, AtWork, Behind, TriesApart, local, store, world, history, Stop, Goto
<1>1. CASE Prepare \/ Summarise \/ Run \/ Finish \/ Refuse \/ Skip
  <2>1. UNCHANGED <<disk, lingering, discarded>> /\ pc' # "opened"
    BY <1>1 DEF Prepare, Summarise, Run, Finish, Refuse, Skip
  <2> QED
    BY <2>1
<1>2. CASE Open
  <2>1. /\ at \in Cells /\ disk[at] \notin {"done", "partial"}
        /\ UNCHANGED <<at, lingering, discarded>>
        /\ disk' = [disk EXCEPT ![at] = "partial"]
    BY <1>2 DEF Open, Skips, Partial, Done
  <2> QED
    BY <2>1
<1>3. CASE Launch
  <2>1. /\ disk[at] = "partial" /\ pc' = "mining"
        /\ UNCHANGED <<disk, lingering>>
        /\ discarded' = discarded \ {at}
    BY <1>3 DEF Launch
  <2> QED
    BY <2>1
<1>4. CASE MiningEnds \/ EvaluationEnds
  <2>1. /\ disk[at] = "partial" /\ pc' # "opened"
        /\ UNCHANGED <<disk, discarded>>
        /\ lingering' \subseteq lingering \union {at}
    BY <1>4 DEF MiningEnds, EvaluationEnds, Leftovers
  <2> QED
    BY <2>1
<1>5. CASE Copy \/ VerifyCopy
  <2>1. UNCHANGED <<disk, lingering, discarded>> /\ pc' # "opened"
    BY <1>5 DEF Copy, VerifyCopy
  <2> QED
    BY <2>1
<1>6. CASE WriteResult
  <2>1. /\ pc' # "opened" /\ UNCHANGED <<lingering, discarded>>
        /\ disk' = [disk EXCEPT ![at] = "done"]
    BY <1>6 DEF WriteResult
  <2> QED
    BY <2>1
<1>7. CASE Crash
  <2>1. /\ pc' # "opened" /\ UNCHANGED <<disk, discarded>>
        /\ lingering' = IF pc \in {"mining", "evaluating"}
                        THEN lingering \union {at} ELSE lingering
    BY <1>7 DEF Crash
  <2> QED
    BY <2>1
<1>8. CASE \E i \in Inputs : Edit(i)
  BY <1>8 DEF Edit
<1>9. CASE \E c \in Cells : LeftoversEnd(c)
  BY <1>9 DEF LeftoversEnd
<1>10. CASE \E c \in Cells : Discard(c)
  BY <1>10 DEF Discard
<1>11. CASE UNCHANGED vars
  BY <1>11 DEF vars
<1> QED
  BY <1>1, <1>2, <1>3, <1>4, <1>5, <1>6, <1>7, <1>8, <1>9, <1>10, <1>11
  DEF Next, Script

-----------------------------------------------------------------------------
(* The theorems.                                                            *)

\* The invariant is inductive, for any number of designs, edits and kills.
THEOREM Inductive == Spec => []IInv
<1>1. Init => IInv
  BY InitParts
<1>2. IInv /\ [Next]_vars => IInv'
  <2> SUFFICES ASSUME IInv, [Next]_vars PROVE IInv'
    OBVIOUS
  <2>1. TypeOK'
    BY TypeStep DEF IInv
  <2> QED
    BY <2>1, ManifestStep, NoticedStep, OrderStep, ApartStep DEF IInv
<1> QED
  BY <1>1, <1>2, PTL DEF Spec

\* No cell is judged on mutants other than the frozen ones (run_cell hashes the
\* copy the evaluator reads).
THEOREM JudgedOnFrozenMutants == Spec => []MutantsAreFrozen
<1>1. IInv => MutantsAreFrozen
  BY DEF IInv
<1> QED
  BY <1>1, Inductive, PTL

\* A cell is mined with an input that is not the frozen one only if the input
\* was edited after `run' (for the binary, the cell) checked it.
THEOREM OnlyMidRunEditsSlip == Spec => []UnfrozenOnlyMidRun
<1>1. IInv => UnfrozenOnlyMidRun
  BY DEF IInv
<1> QED
  BY <1>1, Inductive, PTL

\* A cell is mined beside processes of an earlier try at it only if its
\* directory was deleted after that try.
THEOREM TriesStayApart == Spec => []TriesApart
<1>1. IInv => TriesApart
  BY DEF IInv
<1> QED
  BY <1>1, Inductive, PTL

\* A finished cell is never mined again, however often `run' is killed and
\* started anew.
THEOREM FinishedStays == Spec => NeverRedone
<1>1. IInv /\ [Next]_vars =>
        [\A c \in Cells : Done(c) => /\ disk'[c] = "done"
                                     /\ result'[c] = result[c]
                                     /\ used'[c] = used[c]]_vars
  BY DoneStays
<1> QED
  BY <1>1, Inductive, PTL DEF Spec, NeverRedone

\* A summary of a finished experiment is 0 only when every pair counts.
LEMMA ZeroSummary ==
  ASSUME AllDone, Summary = 0, NEW d \in 1 .. Designs
  PROVE  IF StageA THEN Timed(d) ELSE ValidPair(d)
<1>1. ~ Contradictory
  BY DEF Summary
<1>2. \A e \in 1 .. Designs : ValidPair(e)
  BY <1>1 DEF Summary
<1>3. StageA => GateComplete
  BY <1>1, <1>2 DEF Summary
<1> QED
  BY <1>2, <1>3 DEF GateComplete

\* A `run' that ends with 0 has passed over no cell.
THEOREM ZeroHasEveryPair == Spec => ZeroIsComplete
<1> DEFINE Complete == \A d \in 1 .. Designs : IF StageA THEN Timed(d) ELSE ValidPair(d)
           A == pc = "next" /\ pc' = "idle" /\ exit' = 0 => Complete
<1>1. ASSUME IInv, [Next]_vars, pc = "next", pc' = "idle", exit' = 0
      PROVE  Complete
  <2> HIDE DEF Complete
  <2>1. CASE Finish
    <3>1. \A c \in Cells : c < at
      BY <2>1, <1>1, DesignsAssumption DEF Finish, IInv, TypeOK, Cells
    <3>2. AllDone
      BY <3>1, <1>1 DEF AllDone, IInv, InOrder
    <3>3. Summary = 0
      BY <2>1, <1>1 DEF Finish, Stop
    <3> QED
      BY <3>2, <3>3, ZeroSummary DEF Complete
  <2>2. ~ Refuse /\ ~ Crash
    BY <1>1 DEF Refuse, Crash, Stop, None
  <2>3. ~ Skip /\ ~ Open
    BY <1>1 DEF Skip, Open, Goto
  <2>4. ~ Prepare /\ ~ Summarise /\ ~ Run
    BY <1>1 DEF Prepare, Summarise, Run
  <2>5. /\ ~ Launch /\ ~ MiningEnds /\ ~ Copy
        /\ ~ VerifyCopy /\ ~ EvaluationEnds /\ ~ WriteResult
    BY <1>1 DEF Launch, MiningEnds, Copy, VerifyCopy, EvaluationEnds, WriteResult
  <2>6. \A i \in Inputs : ~ Edit(i)
    BY <1>1 DEF Edit, local
  <2>7. \A c \in Cells : ~ LeftoversEnd(c) /\ ~ Discard(c)
    BY <1>1 DEF LeftoversEnd, Discard, local
  <2>8. ~ UNCHANGED vars
    BY <1>1 DEF vars, local
  <2> QED
    BY <1>1, <2>1, <2>2, <2>3, <2>4, <2>5, <2>6, <2>7, <2>8 DEF Next, Script
<1>2. IInv /\ [Next]_vars => [A]_vars
  BY <1>1
<1> QED
  BY <1>2, Inductive, PTL DEF Spec, ZeroIsComplete
==============================================================================
