--------------------------- MODULE FinalGateProofs ---------------------------
(***************************************************************************)
(* Proofs about FinalGate, for any number of assertions and threads and    *)
(* any time limit: type correctness, the invariants its run checks, and    *)
(* that it implements the abstract pool of JobPool.                        *)
(***************************************************************************)
EXTENDS FinalGate, FiniteSetTheorems, TLAPS

-----------------------------------------------------------------------------
(* The inductive invariant, in parts.                                       *)

\* The counter runs past the last index once for every thread that has left.
Gone == {w \in Workers : pc[w] = "exited"}
Overrun == next =< NJobs + 1 + Cardinality(Gone)

\* A thread between two assertions holds none; what a thread holds has been
\* claimed and is not settled; threads leave only when none is left.
Claims ==
  \A w \in Workers :
    /\ pc[w] \in {"claim", "exited"} <=> job[w] = 0
    /\ job[w] < next
    /\ job[w] \notin settled
    /\ pc[w] = "exited" => next > NJobs

Exclusive ==
  \A v, w \in Workers : job[v] = job[w] /\ job[v] # 0 => v = w

\* A claimed assertion is held until it is settled; nothing has happened to one
\* that is not claimed.
Coverage ==
  \A j \in Jobs :
    /\ j < next => j \in settled \/ \E w \in Workers : job[w] = j
    /\ j >= next => j \notin settled
    /\ j >= next => checker[j] = "none"

\* What a thread knows of its assertion, by the place it has reached.
Phase(w) ==
  /\ pc[w] \in {"write", "fork"} => checker[job[w]] = "none"
  /\ pc[w] = "judge" =>
       /\ checker[job[w]] \notin {"running", "zombie"}
       /\ outcome[w] = 0 => checker[job[w]] = "reaped" /\ ended[job[w]] = 0

Phases == \A w \in Workers : Phase(w)

\* Copies are removed, and statuses given, in one go when a thread judges.
Judged ==
  \A j \in Jobs :
    /\ copy[j] = "removed" <=> status[j] = "Verified"
    /\ status[j] = "Verified" => j \in settled

\* The whole.
IInv ==
  /\ TypeOK /\ Overrun
  /\ Claims /\ Exclusive /\ Coverage /\ Phases /\ Judged
  /\ SettledIsDead /\ VerifiedWasProved

-----------------------------------------------------------------------------
(* Sizes.                                                                   *)

\* There is at least one thread.
LEMMA PoolSizeType == PoolSize \in Nat \ {0}
BY CountsAssumption DEF PoolSize

\* Threads are as many as the pool has, some of them no more.
LEMMA SomeThreads ==
  ASSUME NEW S \in SUBSET Workers
  PROVE  IsFiniteSet(S) /\ Cardinality(S) \in Nat /\ Cardinality(S) =< PoolSize
BY CountsAssumption, FS_Subset, FS_CardinalityType

\* The threads that have left can be counted.
LEMMA GoneSize == Cardinality(Gone) \in Nat
BY SomeThreads DEF Gone

\* A thread that leaves makes room for one more step of the counter.
LEMMA GoneGrows ==
  ASSUME NEW w \in Workers, pc \in [Workers -> ThreadPcs], pc[w] # "exited",
         pc' = [pc EXCEPT ![w] = "exited"]
  PROVE  Cardinality(Gone') = Cardinality(Gone) + 1
<1>1. Gone' = Gone \cup {w}
  BY DEF Gone
<1>2. w \notin Gone
  BY DEF Gone
<1> QED
  <2>1. IsFiniteSet(Gone)
    BY SomeThreads DEF Gone
  <2> QED
    BY <1>1, <1>2, <2>1, FS_AddElement

-----------------------------------------------------------------------------
(* Type correctness.                                                        *)

\* Only threads that leave make the counter run past the last index.
LEMMA OverrunStep ==
  ASSUME TypeOK, Overrun, Claims, [Next]_vars
  PROVE  Overrun'
<1> USE DEF TypeOK
<1>1. next \in Nat /\ NJobs \in Nat
  BY CountsAssumption, PoolSizeType
<1>2. ASSUME NEW w \in Workers, Claim(w) PROVE Overrun'
  <2> USE <1>2 DEF Claim, Advanced
  <2>1. CASE next > NJobs
    <3>1. pc[w] = "claim" /\ pc' = [pc EXCEPT ![w] = "exited"]
      BY <2>1, <1>1 DEF Leave, Goto
    <3>2. pc[w] # "exited"
      BY <3>1
    <3>3. Cardinality(Gone') = Cardinality(Gone) + 1
      BY <3>1, <3>2, GoneGrows
    <3> QED
      BY <1>1, <2>1, <3>3, GoneSize DEF Overrun
  <2>2. CASE next =< NJobs
    <3>1. Gone' = Gone
      BY <2>2, <1>1 DEF Gone, Goto
    <3> QED
      BY <1>1, <2>2, <3>1, GoneSize DEF Overrun
  <2> QED
    BY <2>1, <2>2, <1>1
<1>3. ASSUME NEW w \in Workers,
             Write(w) \/ Fork(w) \/ Poll(w) \/ Check(w) \/ Judge(w)
      PROVE  Overrun'
  <2>1. Gone' = Gone
    BY <1>3 DEF Gone, Write, Fork, Poll, Check, Judge, Goto
  <2>2. next' = next
    BY <1>3 DEF Write, Fork, Poll, Check, Judge
  <2> QED
    BY <2>1, <2>2 DEF Overrun
<1>4. ASSUME UNCHANGED <<next, pc>> PROVE Overrun'
  BY <1>4 DEF Overrun, Gone
<1>5. ASSUME \/ \E j \in Jobs : CheckerEnds(j)
             \/ Return \/ Tick \/ UNCHANGED vars
      PROVE  UNCHANGED <<next, pc>>
  BY <1>5 DEF CheckerEnds, Return, Tick, vars, threadVars
<1> QED
  BY <1>2, <1>3, <1>4, <1>5 DEF Next, Step, Done

\* The program starts in a state of the right type.
LEMMA InitTypes == Init => TypeOK
<1> SUFFICES ASSUME Init PROVE TypeOK
  OBVIOUS
<1> USE DEF Init
<1>1. next \in 1..(NJobs + PoolSize + 1)
  BY PoolSizeType, CountsAssumption
<1>2. left \in [Workers -> 0..Timeout]
  BY TimeoutAssumption
<1> QED
  BY <1>1, <1>2 DEF TypeOK, ThreadPcs

\* Every step keeps the types.
LEMMA TypeStep ==
  ASSUME TypeOK, Overrun, Claims, [Next]_vars
  PROVE  TypeOK'
<1> USE DEF TypeOK, ThreadPcs, Goto
<1>1. next' \in 1..(NJobs + PoolSize + 1)
  <2>1. next' \in Nat \ {0}
    <3>1. next \in Nat \ {0}
      OBVIOUS
    <3>2. next' = next \/ next' = next + 1
      BY DEF Next, Step, Done, Claim, Advanced, Write, Fork, Poll, Check, Judge, CheckerEnds,
             Return, Tick, vars
    <3> QED
      BY <3>1, <3>2
  <2>2. next' =< NJobs + 1 + Cardinality(Gone')
    BY OverrunStep DEF Overrun
  <2>3. Cardinality(Gone') \in Nat /\ Cardinality(Gone') =< PoolSize
    BY SomeThreads DEF Gone
  <2> QED
    BY <2>1, <2>2, <2>3, PoolSizeType, CountsAssumption
<1>2. ASSUME NEW w \in Workers, Claim(w) PROVE TypeOK'
  <2>1. job' \in [Workers -> Jobs \cup {0}]
    BY <1>2, CountsAssumption DEF Claim, Jobs
  <2>2. pc' \in [Workers -> ThreadPcs]
    BY <1>2 DEF Claim, Leave
  <2> QED
    BY <1>1, <1>2, <2>1, <2>2 DEF Claim, resultVars, checkerVars
<1>3. ASSUME NEW w \in Workers, Write(w) PROVE TypeOK'
  BY <1>1, <1>3 DEF Write, checkerVars
<1>4. ASSUME NEW w \in Workers, Fork(w) PROVE TypeOK'
  BY <1>1, <1>4, TimeoutAssumption DEF Fork, resultVars
<1>5. ASSUME NEW w \in Workers, Poll(w) PROVE TypeOK'
  <2>1. job[w] \in Jobs
    BY <1>5 DEF Claims, Poll
  <2> QED
    BY <1>1, <1>5, <2>1 DEF Poll, ExitCode, resultVars
<1>6. ASSUME NEW w \in Workers, Check(w) PROVE TypeOK'
  BY <1>1, <1>6 DEF Check, AfterKill, resultVars
<1>7. ASSUME NEW w \in Workers, Judge(w) PROVE TypeOK'
  <2>1. job[w] \in Jobs
    BY <1>7 DEF Claims, Judge
  <2> QED
    BY <1>1, <1>7, <2>1, TimeoutAssumption DEF Judge, StatusOf, CopyLeft, checkerVars
<1>8. ASSUME NEW j \in Jobs, CheckerEnds(j) PROVE TypeOK'
  BY <1>1, <1>8 DEF CheckerEnds, threadVars, resultVars
<1>9. CASE Return
  BY <1>1, <1>9 DEF Return, threadVars, resultVars, checkerVars
<1>10. CASE Tick
  BY <1>1, <1>10, TimeoutAssumption DEF Tick, resultVars, checkerVars
<1>11. CASE UNCHANGED vars
  BY <1>1, <1>11 DEF vars, threadVars, resultVars, checkerVars
<1> QED
  BY <1>2, <1>3, <1>4, <1>5, <1>6, <1>7, <1>8, <1>9, <1>10, <1>11 DEF Next, Step, Done

-----------------------------------------------------------------------------
(* Which thread holds which assertion.                                      *)

\* The steps that neither claim nor judge.
Middle(w) == Write(w) \/ Fork(w) \/ Poll(w) \/ Check(w)

\* They leave alone who holds what, and what is settled.
LEMMA MiddleStep ==
  ASSUME NEW w \in Workers, Middle(w)
  PROVE  /\ UNCHANGED <<next, returned, job, status, settled>>
         /\ \E from, to \in {"write", "fork", "poll", "check", "judge"} :
              pc[w] = from /\ pc' = [pc EXCEPT ![w] = to]
<1>1. CASE Write(w)
  BY <1>1 DEF Write, Goto
<1>2. CASE Fork(w)
  BY <1>2 DEF Fork, Goto, resultVars
<1>3. CASE Poll(w)
  BY <1>3 DEF Poll, Goto, resultVars
<1>4. CASE Check(w)
  BY <1>4 DEF Check, Goto, resultVars
<1> QED
  BY <1>1, <1>2, <1>3, <1>4 DEF Middle

\* Steps of nobody's: a checker ends, time passes, the call returns.
Outside == (\E j \in Jobs : CheckerEnds(j)) \/ Return \/ Tick \/ UNCHANGED vars

\* They leave alone the threads' places and all results.
LEMMA OutsideStep ==
  ASSUME Outside
  PROVE  UNCHANGED <<next, pc, job, outcome, status, settled, copy>>
BY DEF Outside, CheckerEnds, Return, Tick, vars, threadVars, resultVars

\* These are all the steps there are.
LEMMA Steps ==
  ASSUME [Next]_vars
  PROVE  (\E w \in Workers : Claim(w) \/ Middle(w) \/ Judge(w)) \/ Outside
BY DEF Next, Step, Done, Middle, Outside

\* A claim that finds an index takes one that nobody has.
LEMMA ClaimsStep ==
  ASSUME TypeOK, Claims, Exclusive, Coverage, [Next]_vars
  PROVE  Claims'
<1> USE DEF TypeOK
<1>0. next \in Nat \ {0} /\ \A w \in Workers : job[w] \in Nat
  BY CountsAssumption DEF Jobs
<1>1. ASSUME NEW w \in Workers, Claim(w) PROVE Claims'
  <2> USE <1>1 DEF Claim, Advanced, resultVars
  <2>1. settled' = settled /\ next' = next + 1
    OBVIOUS
  <2>2. CASE next > NJobs
    <3>1. pc[w] = "claim" /\ pc' = [pc EXCEPT ![w] = "exited"] /\ job' = job
      BY <1>0, <2>2, CountsAssumption DEF Leave, Goto
    <3> QED
      BY <1>0, <2>1, <2>2, <3>1, CountsAssumption DEF Claims
  <2>3. CASE next =< NJobs
    <3>1. pc[w] = "claim" /\ pc' = [pc EXCEPT ![w] = "write"] /\ job' = [job EXCEPT ![w] = next]
      BY <1>0, <2>3, CountsAssumption DEF Goto
    <3>2. next \notin settled
      BY <1>0, <2>3, CountsAssumption DEF Coverage, Jobs
    <3> QED
      BY <1>0, <2>1, <3>1, <3>2, CountsAssumption DEF Claims
  <2> QED
    BY <1>0, <2>2, <2>3, CountsAssumption
<1>2. ASSUME NEW w \in Workers, Middle(w) PROVE Claims'
  BY <1>2, MiddleStep DEF Claims
<1>3. ASSUME NEW w \in Workers, Judge(w) PROVE Claims'
  <2>1. /\ pc[w] = "judge" /\ pc' = [pc EXCEPT ![w] = "claim"]
        /\ job' = [job EXCEPT ![w] = 0] /\ settled' = settled \cup {job[w]}
        /\ next' = next
    BY <1>3 DEF Judge, Goto
  <2>2. job[w] # 0
    BY <2>1 DEF Claims
  <2>3. 0 \notin settled
    BY CountsAssumption DEF Jobs
  <2>4. \A v \in Workers : v # w => job[v] # job[w]
    BY <2>2 DEF Exclusive
  <2> QED
    BY <1>0, <2>1, <2>2, <2>3, <2>4 DEF Claims
<1>4. ASSUME Outside PROVE Claims'
  BY <1>4, OutsideStep DEF Claims
<1> QED
  BY <1>1, <1>2, <1>3, <1>4, Steps

\* What is claimed is above everything held.
LEMMA ExclusiveStep ==
  ASSUME TypeOK, Claims, Exclusive, [Next]_vars
  PROVE  Exclusive'
<1> USE DEF TypeOK
<1>0. next \in Nat /\ \A w \in Workers : job[w] \in Nat /\ job[w] < next
  BY CountsAssumption DEF Jobs, Claims
<1>1. ASSUME NEW w \in Workers, Claim(w) PROVE Exclusive'
  <2>1. job' = job \/ job' = [job EXCEPT ![w] = next]
    BY <1>1 DEF Claim
  <2> QED
    BY <1>0, <2>1 DEF Exclusive
<1>2. ASSUME NEW w \in Workers, Middle(w) PROVE Exclusive'
  BY <1>2, MiddleStep DEF Exclusive
<1>3. ASSUME NEW w \in Workers, Judge(w) PROVE Exclusive'
  BY <1>3 DEF Judge, Exclusive
<1>4. ASSUME Outside PROVE Exclusive'
  BY <1>4, OutsideStep DEF Exclusive
<1> QED
  BY <1>1, <1>2, <1>3, <1>4, Steps

\* A step touches at most the checker of its own assertion, which is held.
LEMMA OwnChecker ==
  ASSUME TypeOK, Claims, Coverage, [Next]_vars,
         NEW j \in Jobs, checker'[j] # checker[j] \/ ended'[j] # ended[j]
  PROVE  \/ checker[j] = "running" /\ checker'[j] \in {"zombie", "vanished"}
         \/ \E w \in Workers : job[w] = j /\ (Fork(w) \/ Poll(w) \/ Check(w))
<1> USE DEF TypeOK
<1>1. ASSUME NEW w \in Workers, Claim(w) \/ Write(w) \/ Judge(w) PROVE FALSE
  BY <1>1 DEF Claim, Write, Judge, checkerVars
<1>2. ASSUME NEW w \in Workers, Fork(w) \/ Poll(w) \/ Check(w) PROVE job[w] = j
  BY <1>2 DEF Fork, Poll, Check
<1>3. ASSUME NEW k \in Jobs, CheckerEnds(k)
      PROVE  checker[j] = "running" /\ checker'[j] \in {"zombie", "vanished"}
  BY <1>3 DEF CheckerEnds
<1>4. ASSUME Return \/ Tick \/ UNCHANGED vars PROVE FALSE
  BY <1>4 DEF Return, Tick, vars, checkerVars
<1> QED
  BY <1>1, <1>2, <1>3, <1>4 DEF Next, Step, Done

\* A settled assertion has no thread, and one that is not claimed no checker.
LEMMA CoverageStep ==
  ASSUME TypeOK, Claims, Coverage, [Next]_vars
  PROVE  Coverage'
<1> USE DEF TypeOK
<1>0. next \in Nat /\ \A w \in Workers : job[w] \in Nat /\ job[w] < next
  BY CountsAssumption DEF Jobs, Claims
<1>1. \A j \in Jobs : j \in Nat
  BY CountsAssumption DEF Jobs
<1>2. ASSUME NEW j \in Jobs, j >= next PROVE checker'[j] = "none"
  <2>1. checker[j] = "none" /\ \A w \in Workers : job[w] # j
    BY <1>0, <1>1, <1>2 DEF Coverage
  <2> QED
    BY <2>1, OwnChecker
<1>3. ASSUME NEW w \in Workers, Claim(w) PROVE Coverage'
  <2> USE <1>3 DEF Claim, Advanced, resultVars
  <2>1. settled' = settled /\ next' = next + 1
    OBVIOUS
  <2>2. job[w] = 0
    BY DEF Claims, Leave, Goto
  <2>3. CASE next > NJobs
    <3>1. job' = job
      BY <1>0, <2>3, CountsAssumption
    <3>2. \A j \in Jobs : j < next
      BY <1>0, <2>3, CountsAssumption DEF Jobs
    <3> QED
      BY <1>0, <1>1, <1>2, <2>1, <3>1, <3>2 DEF Coverage
  <2>4. CASE next =< NJobs
    <3>1. job' = [job EXCEPT ![w] = next]
      BY <1>0, <2>4, CountsAssumption
    <3>2. ASSUME NEW j \in Jobs, j < next
          PROVE  j \in settled \/ \E v \in Workers : job'[v] = j
      <4>1. j # 0
        BY CountsAssumption DEF Jobs
      <4> QED
        BY <3>1, <3>2, <2>2, <4>1 DEF Coverage
    <3>3. job'[w] = next
      BY <3>1
    <3> QED
      BY <1>0, <1>1, <1>2, <2>1, <3>2, <3>3 DEF Coverage
  <2> QED
    BY <1>0, <2>3, <2>4, CountsAssumption
<1>4. ASSUME NEW w \in Workers, Middle(w) PROVE Coverage'
  BY <1>2, <1>4, MiddleStep DEF Coverage
<1>5. ASSUME NEW w \in Workers, Judge(w) PROVE Coverage'
  <2>1. /\ job' = [job EXCEPT ![w] = 0] /\ settled' = settled \cup {job[w]}
        /\ next' = next
    BY <1>5 DEF Judge
  <2>2. ASSUME NEW j \in Jobs, j < next
        PROVE  j \in settled' \/ \E v \in Workers : job'[v] = j
    BY <2>1, <2>2 DEF Coverage
  <2>3. ASSUME NEW j \in Jobs, j >= next PROVE j \notin settled'
    BY <2>1, <2>3, <1>0, <1>1 DEF Coverage
  <2> QED
    BY <1>2, <2>1, <2>2, <2>3 DEF Coverage
<1>6. ASSUME Outside PROVE Coverage'
  BY <1>2, <1>6, OutsideStep DEF Coverage
<1> QED
  BY <1>3, <1>4, <1>5, <1>6, Steps

-----------------------------------------------------------------------------
(* What a thread knows of its assertion.                                    *)

\* A step on one thread's assertion leaves the other threads' alone.
LEMMA OthersChecker ==
  ASSUME TypeOK, Claims, Exclusive, NEW w \in Workers, NEW v \in Workers, v # w,
         job[v] # 0, Middle(w) \/ Judge(w)
  PROVE  /\ UNCHANGED <<pc[v], outcome[v]>>
         /\ checker'[job[v]] = checker[job[v]] /\ ended'[job[v]] = ended[job[v]]
<1> USE DEF TypeOK
<1>1. job[v] # job[w]
  BY DEF Exclusive
<1>2. CASE Write(w)
  BY <1>1, <1>2 DEF Write, Goto, checkerVars
<1>3. CASE Fork(w)
  BY <1>1, <1>3 DEF Fork, Goto
<1>4. CASE Poll(w)
  BY <1>1, <1>4 DEF Poll, Goto
<1>5. CASE Check(w)
  BY <1>1, <1>5 DEF Check, Goto
<1>6. CASE Judge(w)
  BY <1>1, <1>6 DEF Judge, Goto, checkerVars
<1> QED
  BY <1>2, <1>3, <1>4, <1>5, <1>6 DEF Middle

\* A thread comes to judge with an outcome that its own checker, waited for,
\* gave it; 0 is the checker's own exit code.
LEMMA OwnPhase ==
  ASSUME TypeOK, Claims, Phases, NEW w \in Workers, Middle(w)
  PROVE  Phase(w)'
<1> USE DEF TypeOK, Goto
<1>1. job[w] \in Jobs /\ job' = job
  BY MiddleStep DEF Claims
<1>2. CASE Write(w)
  <2>1. UNCHANGED <<checker, ended>> /\ checker[job[w]] = "none"
    BY <1>2 DEF Write, checkerVars, Phases, Phase
  <2>2. \/ pc'[w] = "fork"
        \/ pc'[w] = "judge" /\ outcome'[w] = -2
    BY <1>2 DEF Write
  <2> QED
    BY <1>1, <2>1, <2>2 DEF Phase
<1>3. CASE Fork(w)
  <2>1. checker[job[w]] = "none"
    BY <1>3 DEF Fork, Phases, Phase
  <2>2. \/ pc'[w] = "poll"
        \/ pc'[w] = "judge" /\ outcome'[w] = -2 /\ checker' = checker
    BY <1>3 DEF Fork
  <2> QED
    BY <1>1, <2>1, <2>2 DEF Phase
<1>4. CASE Poll(w)
  <2>1. CASE pc'[w] = "check"
    BY <2>1 DEF Phase
  <2>2. CASE pc'[w] # "check"
    <3>1. /\ pc'[w] = "judge" /\ outcome'[w] = ExitCode(job[w]) /\ ended' = ended
          /\ checker'[job[w]] = IF checker[job[w]] = "zombie" THEN "reaped" ELSE "vanished"
      BY <1>1, <1>4, <2>2 DEF Poll
    <3>2. outcome'[w] = 0 => checker[job[w]] = "zombie" /\ ended[job[w]] = 0
      BY <3>1 DEF ExitCode
    <3> QED
      BY <1>1, <3>1, <3>2 DEF Phase
  <2> QED
    BY <2>1, <2>2
<1>5. CASE Check(w)
  <2>1. CASE pc'[w] = "poll"
    BY <2>1 DEF Phase
  <2>2. CASE pc'[w] # "poll"
    <3>1. /\ pc'[w] = "judge" /\ outcome'[w] = -1
          /\ checker'[job[w]] \in {"vanished", "reaped"}
      BY <1>1, <1>5, <2>2 DEF Check, AfterKill
    <3> QED
      BY <1>1, <3>1 DEF Phase
  <2> QED
    BY <2>1, <2>2
<1> QED
  BY <1>2, <1>3, <1>4, <1>5 DEF Middle

\* What the threads know stays true.
LEMMA PhasesStep ==
  ASSUME TypeOK, Claims, Exclusive, Coverage, Phases, [Next]_vars
  PROVE  Phases'
<1> USE DEF TypeOK
<1>0. \A w \in Workers : pc[w] \in {"write", "fork", "judge"} => job[w] \in Jobs
  BY DEF Claims
<1>1. ASSUME NEW w \in Workers, Claim(w) PROVE Phases'
  <2> USE <1>1 DEF Claim, checkerVars
  <2>1. UNCHANGED <<checker, ended, outcome>>
    OBVIOUS
  <2>2. ASSUME NEW v \in Workers, v # w PROVE pc'[v] = pc[v] /\ job'[v] = job[v]
    BY <2>2 DEF Leave, Goto
  <2>3. \/ pc'[w] = "exited"
        \/ pc'[w] = "write" /\ job'[w] = next /\ next =< NJobs
    BY DEF Leave, Goto
  <2>4. next =< NJobs => checker[next] = "none"
    BY CountsAssumption DEF Coverage, Jobs
  <2>5. Phase(w)'
    BY <2>1, <2>3, <2>4 DEF Phase
  <2>6. ASSUME NEW v \in Workers, v # w PROVE Phase(v)'
    BY <2>1, <2>2, <2>6 DEF Phases, Phase
  <2> QED
    BY <2>5, <2>6 DEF Phases
<1>2. ASSUME NEW w \in Workers, Middle(w) \/ Judge(w), NEW v \in Workers, v # w
      PROVE  Phase(v)'
  <2>1. pc'[v] = pc[v] /\ job'[v] = job[v]
    <3>1. CASE Middle(w)
      BY <1>2, <3>1, MiddleStep
    <3>2. CASE Judge(w)
      BY <1>2, <3>2 DEF Judge, Goto
    <3> QED
      BY <1>2, <3>1, <3>2
  <2>2. CASE job[v] # 0
    BY <1>2, <2>1, <2>2, OthersChecker DEF Phases, Phase
  <2>3. CASE job[v] = 0
    BY <2>1, <2>3 DEF Claims, Phase
  <2> QED
    BY <2>2, <2>3
<1>3. ASSUME NEW w \in Workers, Judge(w) PROVE Phase(w)'
  BY <1>3 DEF Judge, Goto, Phase
<1>4. ASSUME Outside PROVE Phases'
  <2>1. UNCHANGED <<pc, job, outcome>>
    BY <1>4, OutsideStep
  <2>2. ASSUME NEW j \in Jobs, checker[j] # "running"
        PROVE  checker'[j] = checker[j] /\ ended'[j] = ended[j]
    BY <1>4, <2>2 DEF Outside, CheckerEnds, Return, Tick, vars, checkerVars
  <2>3. ASSUME NEW w \in Workers, pc[w] \in {"write", "fork", "judge"}
        PROVE  checker'[job[w]] = checker[job[w]] /\ ended'[job[w]] = ended[job[w]]
    BY <1>0, <2>2, <2>3 DEF Phases, Phase
  <2> QED
    BY <2>1, <2>3 DEF Phases, Phase
<1> QED
  BY <1>1, <1>2, <1>3, <1>4, OwnPhase, Steps DEF Phases

-----------------------------------------------------------------------------
(* Judgements.                                                              *)

\* A judgement settles an assertion for the first and only time, and a copy
\* goes with the status that removes it.
LEMMA JudgedStep ==
  ASSUME TypeOK, Claims, Judged, [Next]_vars
  PROVE  Judged'
<1> USE DEF TypeOK
<1>1. ASSUME NEW w \in Workers, Judge(w) PROVE Judged'
  <2> DEFINE j == job[w]
             s == StatusOf(outcome[w])
  <2>1. j \in Jobs /\ j \notin settled
    BY <1>1 DEF Judge, Goto, Claims
  <2>2. /\ status' = [status EXCEPT ![j] = s]
        /\ copy' = [copy EXCEPT ![j] = CopyLeft(j, s)]
        /\ settled' = settled \cup {j}
    BY <1>1 DEF Judge
  <2>3. copy[j] # "removed"
    BY <2>1 DEF Judged
  <2>4. CopyLeft(j, s) = "removed" <=> s = "Verified"
    BY <2>3 DEF CopyLeft
  <2> QED
    BY <2>1, <2>2, <2>4 DEF Judged
<1>2. ASSUME NEW w \in Workers, Write(w) PROVE Judged'
  <2>1. job[w] \in Jobs /\ job[w] \notin settled
    BY <1>2 DEF Write, Goto, Claims
  <2>2. UNCHANGED <<status, settled>>
    BY <1>2 DEF Write
  <2>3. copy' = copy \/ copy' = [copy EXCEPT ![job[w]] = "written"]
    BY <1>2 DEF Write
  <2>4. status[job[w]] # "Verified"
    BY <2>1 DEF Judged
  <2> QED
    BY <2>1, <2>2, <2>3, <2>4 DEF Judged
<1>3. ASSUME NEW w \in Workers, Claim(w) \/ Fork(w) \/ Poll(w) \/ Check(w)
      PROVE  Judged'
  BY <1>3 DEF Claim, Fork, Poll, Check, resultVars, Judged
<1>4. ASSUME Outside PROVE Judged'
  BY <1>4, OutsideStep DEF Judged
<1> QED
  BY <1>1, <1>2, <1>3, <1>4, Steps DEF Middle

\* The checker of a settled assertion is no one's any more, so it stays as it
\* was when the assertion was judged.
LEMMA SettledStays ==
  ASSUME TypeOK, Claims, Coverage, SettledIsDead, [Next]_vars, NEW j \in settled
  PROVE  checker'[j] = checker[j] /\ ended'[j] = ended[j]
<1>1. j \in Jobs /\ checker[j] # "running"
  BY DEF TypeOK, SettledIsDead
<1>2. \A w \in Workers : job[w] # j
  BY DEF Claims
<1> QED
  BY <1>1, <1>2, OwnChecker

\* Assertions are settled dead, and Verified only by a checker's own 0.
LEMMA VerdictStep ==
  ASSUME TypeOK, Claims, Coverage, Phases, Judged, SettledIsDead, VerifiedWasProved,
         [Next]_vars
  PROVE  SettledIsDead' /\ VerifiedWasProved'
<1> USE DEF TypeOK
<1>1. ASSUME NEW w \in Workers, Judge(w) PROVE SettledIsDead' /\ VerifiedWasProved'
  <2> DEFINE j == job[w]
             s == StatusOf(outcome[w])
  <2>1. j \in Jobs /\ pc[w] = "judge"
    BY <1>1 DEF Judge, Goto, Claims
  <2>2. /\ UNCHANGED <<checker, ended>>
        /\ status' = [status EXCEPT ![j] = s] /\ settled' = settled \cup {j}
    BY <1>1 DEF Judge, checkerVars
  <2>3. checker[j] \notin {"running", "zombie"}
    BY <2>1 DEF Phases, Phase
  <2>4. s = "Verified" => outcome[w] = 0
    BY DEF StatusOf
  <2>5. s = "Verified" => checker[j] = "reaped" /\ ended[j] = 0
    BY <2>1, <2>4 DEF Phases, Phase
  <2> QED
    BY <2>1, <2>2, <2>3, <2>5 DEF SettledIsDead, VerifiedWasProved
<1>2. ASSUME UNCHANGED <<status, settled>> PROVE SettledIsDead' /\ VerifiedWasProved'
  <2>1. SettledIsDead'
    BY <1>2, SettledStays DEF SettledIsDead
  <2>2. ASSUME NEW j \in Jobs, status[j] = "Verified"
        PROVE  checker'[j] = "reaped" /\ ended'[j] = 0
    BY <2>2, SettledStays DEF Judged, VerifiedWasProved
  <2> QED
    BY <1>2, <2>1, <2>2 DEF VerifiedWasProved
<1>3. ASSUME NEW w \in Workers, Claim(w) \/ Middle(w) PROVE UNCHANGED <<status, settled>>
  BY <1>3, MiddleStep DEF Claim, resultVars
<1> QED
  BY <1>1, <1>2, <1>3, OutsideStep, Steps

-----------------------------------------------------------------------------
(* The invariant, and what follows from it.                                 *)

\* The call starts with every assertion waiting.
LEMMA InitInv == Init => IInv
<1> SUFFICES ASSUME Init PROVE IInv
  OBVIOUS
<1>1. TypeOK
  BY InitTypes
<1>2. Overrun
  <2>1. next = 1
    BY DEF Init
  <2> QED
    BY <2>1, GoneSize, CountsAssumption DEF Overrun
<1>3. Claims /\ Exclusive /\ Coverage
  BY CountsAssumption DEF Init, Claims, Exclusive, Coverage, Jobs
<1>4. Phases /\ Judged /\ SettledIsDead /\ VerifiedWasProved
  BY DEF Init, Phases, Phase, Judged, SettledIsDead, VerifiedWasProved
<1> QED
  BY <1>1, <1>2, <1>3, <1>4 DEF IInv

\* The inductive invariant holds in every behaviour.
THEOREM Inductive == Safety => []IInv
<1>1. IInv /\ [Next]_vars => IInv'
  <2> SUFFICES ASSUME IInv, [Next]_vars PROVE IInv'
    OBVIOUS
  <2> QED
    BY TypeStep, OverrunStep, ClaimsStep, ExclusiveStep, CoverageStep, PhasesStep,
       JudgedStep, VerdictStep DEF IInv
<1> QED
  BY <1>1, InitInv, PTL DEF Safety

\* Every variable of the pool of checkers keeps its type.
THEOREM TypeCorrect == Safety => []TypeOK
<1>1. IInv => TypeOK
  BY DEF IInv
<1> QED
  BY <1>1, Inductive, PTL

\* An assertion is Verified only if its own checker ended by itself with 0,
\* whatever the number of threads, the time limit, and the way children die.
THEOREM OnlyProvedVerified == Safety => []VerifiedWasProved
<1>1. IInv => VerifiedWasProved
  BY DEF IInv
<1> QED
  BY <1>1, Inductive, PTL

\* A settled assertion has no checker left.
THEOREM SettledDead == Safety => []SettledIsDead
<1>1. IInv => SettledIsDead
  BY DEF IInv
<1> QED
  BY <1>1, Inductive, PTL

\* Copies are removed for Verified assertions, and for those only.
THEOREM EvidenceIsKept == Safety => []EvidenceKept
<1>1. IInv => EvidenceKept
  BY DEF IInv, Judged, EvidenceKept
<1> QED
  BY <1>1, Inductive, PTL

-----------------------------------------------------------------------------
(* checkAssertions implements the abstract pool of JobPool.                 *)

\* Different assertions in work have different threads.
LEMMA Holders ==
  ASSUME NEW S \in SUBSET Jobs, NEW W \in SUBSET Workers,
         \A j \in S : \E w \in W : job[w] = j
  PROVE  Cardinality(S) =< Cardinality(W)
<1> DEFINE thread == [j \in S |-> CHOOSE w \in W : job[w] = j]
<1>1. \A j \in S : thread[j] \in W /\ job[thread[j]] = j
  OBVIOUS
<1>2. thread \in Injection(S, W)
  BY <1>1 DEF Injection, IsInjective
<1> QED
  BY <1>2, SomeThreads, FS_Injection

\* The call starts as the abstract pool does.
LEMMA PoolInit == Init => Pool!Init
<1> SUFFICES ASSUME Init PROVE Pool!Init
  OBVIOUS
<1>1. WaitingJobs = Jobs /\ RunningJobs = {}
  BY CountsAssumption DEF Init, WaitingJobs, RunningJobs, Jobs
<1> QED
  BY <1>1 DEF Init, Pool!Init

\* A claim that finds an index begins that job.
LEMMA ClaimBegins ==
  ASSUME IInv, NEW w \in Workers, Claim(w), next =< NJobs
  PROVE  next \in Jobs /\ Pool!Begin(next)
<1> USE DEF IInv, TypeOK
<1>1. next \in Jobs /\ next \in Nat /\ \A j \in Jobs : j \in Nat
  BY CountsAssumption DEF Jobs
<1>2. job[w] = 0 /\ job' = [job EXCEPT ![w] = next] /\ next' = next + 1
  BY <1>1, CountsAssumption DEF Claim, Claims, Leave, Goto, Advanced
<1>3. next \in WaitingJobs /\ WaitingJobs' = WaitingJobs \ {next}
  <2>1. next >= next /\ \A j \in Jobs : j >= next + 1 <=> j >= next /\ j # next
    BY <1>1
  <2> QED
    BY <1>1, <1>2, <2>1 DEF WaitingJobs
<1>4. RunningJobs' = RunningJobs \cup {next}
  <2>1. next # 0 /\ \A j \in Jobs : j # 0
    BY CountsAssumption, <1>1 DEF Jobs
  <2> QED
    BY <1>1, <1>2, <2>1 DEF RunningJobs
<1>5. Pool!Cardinality(RunningJobs) < PoolSize
  <2>1. RunningJobs \in SUBSET Jobs
    BY DEF RunningJobs
  <2>2. \A j \in RunningJobs : \E v \in Workers \ {w} : job[v] = j
    BY <1>2, CountsAssumption DEF RunningJobs, Jobs
  <2>3. Cardinality(RunningJobs) =< Cardinality(Workers \ {w})
    BY <2>1, <2>2, Holders
  <2>4. Cardinality(Workers \ {w}) = PoolSize - 1
    BY CountsAssumption, FS_RemoveElement
  <2>5. Cardinality(RunningJobs) \in Nat
    <3>1. IsFiniteSet(Jobs)
      BY CountsAssumption, FS_Interval DEF Jobs
    <3>2. IsFiniteSet(RunningJobs)
      BY <2>1, <3>1, FS_Subset
    <3> QED
      BY <3>2, FS_CardinalityType
  <2>6. Cardinality(RunningJobs) < PoolSize
    BY <2>3, <2>4, <2>5, PoolSizeType
  <2> QED
    BY <2>6 DEF Pool!Cardinality, Cardinality
<1>6. UNCHANGED <<settled, returned>>
  BY DEF Claim, resultVars
<1> QED
  BY <1>1, <1>3, <1>4, <1>5, <1>6 DEF Pool!Begin

\* A judgement reports the job its thread held.
LEMMA JudgeReports ==
  ASSUME IInv, NEW w \in Workers, Judge(w)
  PROVE  job[w] \in Jobs /\ Pool!Report(job[w])
<1> USE DEF IInv, TypeOK
<1>1. job[w] \in Jobs /\ job[w] # 0
  BY CountsAssumption DEF Judge, Goto, Claims, Jobs
<1>2. job' = [job EXCEPT ![w] = 0] /\ settled' = settled \cup {job[w]}
  BY DEF Judge
<1>3. job[w] \in RunningJobs
  BY <1>1 DEF RunningJobs
<1>4. RunningJobs' = RunningJobs \ {job[w]}
  <2>1. \A j \in Jobs : j # 0
    BY CountsAssumption DEF Jobs
  <2> QED
    BY <1>1, <1>2, <2>1 DEF RunningJobs, Exclusive
<1>5. UNCHANGED <<WaitingJobs, returned>>
  BY DEF Judge, WaitingJobs
<1> QED
  BY <1>1, <1>2, <1>3, <1>4, <1>5 DEF Pool!Report

\* The call returns with every assertion settled.
LEMMA ReturnReturns ==
  ASSUME IInv, Return
  PROVE  Pool!Return
<1> USE DEF IInv, TypeOK
<1>1. PICK w \in Workers : TRUE
  <2>1. Cardinality(Workers) # 0
    BY CountsAssumption, PoolSizeType
  <2> QED
    BY <2>1, FS_EmptySet
<1>2. \A v \in Workers : job[v] = 0
  BY DEF Return, Claims
<1>3. next > NJobs
  BY <1>1 DEF Return, Claims
<1>4. \A j \in Jobs : j < next /\ j # 0
  BY <1>3, CountsAssumption DEF Jobs
<1>5. settled = Jobs
  BY <1>2, <1>4 DEF Coverage
<1>6. UNCHANGED <<WaitingJobs, RunningJobs, settled>>
  BY DEF Return, WaitingJobs, RunningJobs, threadVars, resultVars
<1> QED
  BY <1>5, <1>6 DEF Return, Pool!Return

\* checkAssertions implements the abstract pool, for any number of assertions
\* and threads.
THEOREM PoolRefined == Safety => PoolSafety
<1>1. IInv /\ [Next]_vars => [Pool!Next]_(Pool!vars)
  <2> SUFFICES ASSUME IInv, [Next]_vars PROVE Pool!Next \/ UNCHANGED Pool!vars
    OBVIOUS
  <2>1. ASSUME NEW w \in Workers, Claim(w), next =< NJobs PROVE Pool!Next
    BY <2>1, ClaimBegins DEF Pool!Next
  <2>2. ASSUME NEW w \in Workers, Claim(w), next > NJobs PROVE UNCHANGED Pool!vars
    <3>1. next \in Nat /\ \A j \in Jobs : j \in Nat /\ j =< NJobs
      <4>1. next \in Nat
        BY PoolSizeType, CountsAssumption DEF IInv, TypeOK
      <4> QED
        BY <4>1, CountsAssumption DEF Jobs
    <3>2. job' = job /\ next' = next + 1
      BY <2>2, <3>1, CountsAssumption DEF Claim, Advanced
    <3>3. WaitingJobs = {} /\ WaitingJobs' = {}
      BY <2>2, <3>1, <3>2, CountsAssumption DEF WaitingJobs
    <3>4. UNCHANGED <<settled, returned>>
      BY <2>2 DEF Claim, resultVars
    <3> QED
      BY <3>2, <3>3, <3>4 DEF Pool!vars, RunningJobs
  <2>3. ASSUME NEW w \in Workers, Judge(w) PROVE Pool!Next
    BY <2>3, JudgeReports DEF Pool!Next
  <2>4. CASE Return
    BY <2>4, ReturnReturns DEF Pool!Next
  <2>5. ASSUME UNCHANGED <<next, job, settled, returned>> PROVE UNCHANGED Pool!vars
    BY <2>5 DEF Pool!vars, WaitingJobs, RunningJobs
  <2>6. ASSUME NEW w \in Workers, Middle(w)
        PROVE  UNCHANGED <<next, job, settled, returned>>
    BY <2>6, MiddleStep
  <2>7. ASSUME Outside, ~Return PROVE UNCHANGED <<next, job, settled, returned>>
    BY <2>7 DEF Outside, CheckerEnds, Tick, vars, threadVars, resultVars
  <2>8. next =< NJobs \/ next > NJobs
    BY CountsAssumption DEF IInv, TypeOK
  <2> QED
    BY <2>1, <2>2, <2>3, <2>4, <2>5, <2>6, <2>7, <2>8, Steps
<1> QED
  BY <1>1, PoolInit, Inductive, PTL DEF Safety, PoolSafety, Pool!Safety
=============================================================================
