-------------------------- MODULE BlockRunnerProofs --------------------------
(***************************************************************************)
(* Proofs about BlockRunner, for any number of jobs, threads and ticks:    *)
(* type correctness, and the invariants its runs check.                    *)
(***************************************************************************)
EXTENDS BlockRunner, FiniteSetTheorems, TLAPS

-----------------------------------------------------------------------------
(* The inductive invariant, in parts.                                       *)

\* A block that is alive, or ended but not yet waited for.
Live(j) == block[j] \in Alive \cup {"zombie"}

\* A result file, and a job taken for Verified, stand for a verified assertion.
FileHasAssertion ==
  \A j \in Jobs :
    resultFile[j] = "full" \/ status[j] = "Verified" => found[j] \in Assertions

\* A thread between two jobs holds none; a thread holds a job that has been
\* claimed and not reported; no two threads hold the same one; threads only
\* leave when no job is left.
Claims ==
  \A w \in Workers :
    /\ pc[w] \in {"claim", "exited"} <=> job[w] = 0
    /\ job[w] < next
    /\ job[w] # 0 => doneAt[job[w]] = 0
    /\ pc[w] = "exited" => next > NJobs
    /\ pc[w] \in {"lock", "progress"} => completed[w] >= 1

Exclusive ==
  \A v, w \in Workers : job[v] = job[w] /\ job[v] # 0 => v = w

\* Nothing has happened to a job nobody has claimed; a claimed one is held by
\* some thread until it is reported, and while its block lives.
Jobwise ==
  \A j \in Jobs :
    /\ j >= next => doneAt[j] = 0 /\ block[j] = "none"
    /\ j < next => doneAt[j] # 0 \/ \E w \in Workers : job[w] = j
    /\ Live(j) => \E w \in Workers : job[w] = j

\* The block of a job follows the thread that holds it.
Phase(w) ==
  /\ pc[w] \in {"start", "fork"} => block[job[w]] = "none"
  /\ pc[w] \in {"settle", "count", "lock", "progress"} =>
       block[job[w]] \in {"none", "reaped", "vanished"}
  /\ pc[w] = "settle" =>
       \/ status[job[w]] = "TimedOut"
       \/ block[job[w]] = "reaped" /\ exitCode[job[w]] = ended[job[w]]

Phases == \A w \in Workers : Phase(w)

\* How far a block has come in publishing, when no write fails.
Publication(j) ==
  /\ block[j] \in {"wroteResult", "appendedSl", "appendedCmp"} => resultFile[j] = "full"
  /\ block[j] \in {"appendedSl", "appendedCmp"} => j \in sl
  /\ block[j] = "appendedCmp" => j \in cmp
  /\ block[j] \in {"zombie", "reaped"} /\ ended[j] = 0 => j \in sl /\ j \in cmp
  /\ status[j] = "Verified" => resultFile[j] = "full" /\ j \in sl /\ j \in cmp

Publishing == ~WritesMayFail => \A j \in Jobs : Publication(j)

\* The whole.
IInv ==
  /\ TypeOK /\ FileHasAssertion
  /\ Claims /\ Exclusive /\ Jobwise
  /\ Phases /\ Publishing

-----------------------------------------------------------------------------
(* Type correctness.  A step disturbs a few of the six groups of variables; *)
(* the groups it leaves alone are the facts named Same.                     *)

\* The program starts in a state of the right type.
LEMMA InitTypes == Init => TypeOK
<1> SUFFICES ASSUME Init PROVE TypeOK
  OBVIOUS
<1> USE DEF Init
<1>1. now \in 0..MaxClock
  BY ClockAssumption
<1>2. CallTypes
  <2>1. mined \subseteq Assertions
    BY ValueAssumption
  <2>2. returned \in BOOLEAN
    OBVIOUS
  <2>3. next \in Nat \ {0} /\ done \in Nat /\ foundThisRound \in Nat
    OBVIOUS
  <2>4. mutex \in Workers \cup {Nobody}
    OBVIOUS
  <2> QED
    BY <2>1, <2>2, <2>3, <2>4 DEF CallTypes
<1>3. ThreadTypes
  BY ClockAssumption DEF ThreadTypes, ThreadPcs
<1>4. ResultTypes
  BY DEF ResultTypes, ExitCodes
<1>5. ChildTypes
  BY DEF ChildTypes, ExitCodes
<1>6. DiskTypes
  BY DEF DiskTypes
<1> QED
  BY <1>1, <1>2, <1>3, <1>4, <1>5, <1>6 DEF TypeOK

\* A step that leaves a group of variables alone leaves its types alone.
LEMMA SameTypes ==
  ASSUME TypeOK
  PROVE  /\ UNCHANGED callVars => CallTypes'
         /\ UNCHANGED threadVars => ThreadTypes'
         /\ UNCHANGED resultVars => ResultTypes'
         /\ UNCHANGED childVars => ChildTypes'
         /\ UNCHANGED diskVars => DiskTypes'
<1> USE DEF TypeOK
<1>1. UNCHANGED callVars => CallTypes'
  BY DEF callVars, CallTypes
<1>2. UNCHANGED threadVars => ThreadTypes'
  BY DEF threadVars, ThreadTypes
<1>3. UNCHANGED resultVars => ResultTypes'
  BY DEF resultVars, ResultTypes
<1>4. UNCHANGED childVars => ChildTypes'
  BY DEF childVars, ChildTypes
<1>5. UNCHANGED diskVars => DiskTypes'
  BY DEF diskVars, DiskTypes
<1> QED
  BY <1>1, <1>2, <1>3, <1>4, <1>5

\* Every step preserves the types; what progress inserts into `mined` is an
\* assertion because a Verified job has found one.
LEMMA TypeStep ==
  ASSUME TypeOK, FileHasAssertion, Claims, [Next]_vars
  PROVE  TypeOK'
<1>1. ASSUME NEW w \in Workers, Claim(w) PROVE TypeOK'
  <2> USE <1>1 DEF Claim
  <2>1. CallTypes'
    BY DEF TypeOK, CallTypes, Advanced
  <2>2. ThreadTypes'
    <3>1. CASE Exhausted
      BY <3>1 DEF TypeOK, ThreadTypes, ThreadPcs, Goto
    <3>2. CASE ~Exhausted
      <4>1. next \in Jobs
        BY <3>2, CountsAssumption DEF TypeOK, CallTypes, Exhausted, Jobs
      <4> QED
        BY <3>2, <4>1 DEF TypeOK, ThreadTypes, ThreadPcs, Goto
    <3> QED
      BY <3>1, <3>2
  <2> QED
    BY <2>1, <2>2, SameTypes DEF TypeOK
<1>2. ASSUME NEW w \in Workers, Start(w) PROVE TypeOK'
  <2> USE <1>2 DEF Start
  <2>1. pc' \in [Workers -> ThreadPcs]
    BY DEF TypeOK, ThreadTypes, ThreadPcs, Goto
  <2>2. blockDeadline' \in [Workers -> 0..MaxClock]
    <3>1. Deadline \in 0..MaxClock
      BY ClockAssumption
    <3>2. now + CoreTimeout < Deadline => now + CoreTimeout \in 0..MaxClock
      BY ClockAssumption DEF TypeOK
    <3> QED
      BY <3>1, <3>2 DEF TypeOK, ThreadTypes
  <2>3. ThreadTypes'
    BY <2>1, <2>2 DEF TypeOK, ThreadTypes
  <2>4. ResultTypes'
    BY DEF TypeOK, ResultTypes
  <2> QED
    BY <2>3, <2>4, SameTypes DEF TypeOK
<1>3. ASSUME NEW w \in Workers, Fork(w) PROVE TypeOK'
  <2> USE <1>3 DEF Fork
  <2>1. ThreadTypes'
    BY DEF TypeOK, ThreadTypes, ThreadPcs, Goto
  <2>2. ResultTypes'
    BY DEF TypeOK, ResultTypes
  <2>3. ChildTypes'
    BY DEF TypeOK, ChildTypes, Alive
  <2> QED
    BY <2>1, <2>2, <2>3, SameTypes DEF TypeOK
<1>4. ASSUME NEW w \in Workers, Poll(w) PROVE TypeOK'
  <2> USE <1>4 DEF Poll, Lost
  <2>1. ThreadTypes'
    BY DEF TypeOK, ThreadTypes, ThreadPcs, Goto
  <2>2. ResultTypes'
    BY DEF TypeOK, ResultTypes, ChildTypes
  <2>3. ChildTypes'
    BY DEF TypeOK, ChildTypes
  <2> QED
    BY <2>1, <2>2, <2>3, SameTypes DEF TypeOK
<1>5. ASSUME NEW w \in Workers, Check(w) PROVE TypeOK'
  <2> USE <1>5 DEF Check
  <2> DEFINE j == job[w]
  <2>1. pc[w] = "check" /\ j \in Jobs \cup {0}
    BY DEF TypeOK, ThreadTypes, Goto
  <2>2. ThreadTypes'
    BY DEF TypeOK, ThreadTypes, ThreadPcs, Goto
  <2>3. WaitStatus(j) \in ExitCodes \/ j \notin Jobs
    BY DEF TypeOK, ChildTypes, WaitStatus, ExitCodes
  <2>4. AfterKill(j) \in {"reaped", "vanished"}
    BY DEF AfterKill
  <2>5. ResultTypes'
    BY <2>3 DEF TypeOK, ResultTypes
  <2>6. ChildTypes'
    BY <2>3, <2>4 DEF TypeOK, ChildTypes
  <2> QED
    BY <2>2, <2>5, <2>6, SameTypes DEF TypeOK
<1>6. ASSUME NEW w \in Workers, Settle(w) PROVE TypeOK'
  <2> USE <1>6 DEF Settle
  <2>1. ThreadTypes'
    BY DEF TypeOK, ThreadTypes, ThreadPcs, Goto
  <2>2. ResultTypes'
    BY DEF TypeOK, ResultTypes, Classify
  <2>3. DiskTypes'
    BY DEF TypeOK, DiskTypes, FileLeft
  <2> QED
    BY <2>1, <2>2, <2>3, SameTypes DEF TypeOK
<1>7. ASSUME NEW w \in Workers, Count(w) PROVE TypeOK'
  <2> USE <1>7 DEF Count
  <2>1. CallTypes'
    BY DEF TypeOK, CallTypes
  <2>2. ThreadTypes'
    BY DEF TypeOK, CallTypes, ThreadTypes, ThreadPcs, Goto, CountAfter
  <2> QED
    BY <2>1, <2>2, SameTypes DEF TypeOK
<1>8. ASSUME NEW w \in Workers, EnterProgress(w) PROVE TypeOK'
  <2> USE <1>8 DEF EnterProgress
  <2>1. CallTypes'
    BY DEF TypeOK, CallTypes
  <2>2. ThreadTypes'
    BY DEF TypeOK, CallTypes, ThreadTypes, ThreadPcs, Goto
  <2> QED
    BY <2>1, <2>2, SameTypes DEF TypeOK
<1>9. ASSUME NEW w \in Workers, Progress(w) PROVE TypeOK'
  <2> USE <1>9 DEF Progress
  <2>1. job[w] \in Jobs
    BY DEF Claims, TypeOK, ThreadTypes, Goto
  <2>2. status[job[w]] = "Verified" => found[job[w]] \in Assertions
    BY <2>1 DEF FileHasAssertion
  <2>3. CallTypes'
    <3>1. mined' \subseteq Assertions
      BY <2>2 DEF TypeOK, CallTypes, ThreadTypes
    <3>2. foundThisRound' \in Nat
      BY DEF TypeOK, CallTypes
    <3>3. next' \in Nat \ {0} /\ done' \in Nat /\ returned' \in BOOLEAN
      BY DEF TypeOK, CallTypes
    <3>4. mutex' \in Workers \cup {Nobody}
      OBVIOUS
    <3> QED
      BY <3>1, <3>2, <3>3, <3>4 DEF CallTypes
  <2>4. ThreadTypes'
    BY ClockAssumption DEF TypeOK, ThreadTypes, ThreadPcs, Goto
  <2>5. ResultTypes'
    BY DEF TypeOK, ResultTypes, ThreadTypes
  <2> QED
    BY <2>3, <2>4, <2>5, SameTypes DEF TypeOK
<1>10. ASSUME NEW j \in Jobs, Child(j) PROVE TypeOK'
  <2> USE DEF parentVars
  <2>1. CASE ExitWithout(j)
    BY <2>1, SameTypes, ValueAssumption
    DEF ExitWithout, EndWith, TypeOK, ChildTypes, ExitCodes
  <2>2. CASE WriteResult(j)
    <3>1. ChildTypes'
      BY <2>2 DEF WriteResult, TypeOK, ChildTypes, Alive
    <3>2. DiskTypes'
      BY <2>2 DEF WriteResult, TypeOK, DiskTypes
    <3> QED
      BY <3>1, <3>2, <2>2, SameTypes DEF WriteResult, TypeOK
  <2>3. CASE AppendSl(j)
    BY <2>3, SameTypes DEF AppendSl, TypeOK, ChildTypes, DiskTypes, Alive
  <2>4. CASE AppendCmp(j)
    BY <2>4, SameTypes DEF AppendCmp, TypeOK, ChildTypes, DiskTypes, Alive
  <2>5. CASE ExitVerified(j)
    BY <2>5, SameTypes DEF ExitVerified, EndWith, TypeOK, ChildTypes, ExitCodes
  <2>6. CASE Crash(j)
    BY <2>6, SameTypes DEF Crash, EndWith, TypeOK, ChildTypes, ExitCodes
  <2> QED
    BY <1>10, <2>1, <2>2, <2>3, <2>4, <2>5, <2>6 DEF Child
<1>11. CASE Return
  <2>1. CallTypes'
    BY <1>11 DEF Return, TypeOK, CallTypes
  <2> QED
    BY <1>11, <2>1, SameTypes DEF Return, TypeOK
<1>12. CASE Tick
  BY <1>12, SameTypes, ClockAssumption DEF Tick, TypeOK
<1>13. CASE UNCHANGED vars
  BY <1>13, SameTypes DEF vars, TypeOK
<1> QED
  BY <1>1, <1>2, <1>3, <1>4, <1>5, <1>6, <1>7, <1>8, <1>9, <1>10, <1>11, <1>12, <1>13
  DEF Next, Step, Done

\* A result file is written, and a job Verified, only with an assertion found.
LEMMA FileStep ==
  ASSUME TypeOK, FileHasAssertion, Claims, [Next]_vars
  PROVE  FileHasAssertion'
<1> USE DEF FileHasAssertion, TypeOK, ThreadTypes, ResultTypes, ChildTypes, DiskTypes, Goto
<1>1. ASSUME NEW w \in Workers, Start(w) \/ Fork(w) \/ Poll(w) \/ Check(w)
      PROVE  FileHasAssertion'
  BY <1>1 DEF Start, Fork, Poll, Lost, Check, callVars, childVars, diskVars
<1>2. ASSUME NEW w \in Workers, Settle(w) PROVE FileHasAssertion'
  BY <1>2 DEF Settle, Classify, FileLeft, childVars
<1>3. ASSUME NEW w \in Workers, Claim(w) \/ Count(w) \/ EnterProgress(w) \/ Progress(w)
      PROVE  FileHasAssertion'
  BY <1>3 DEF Claim, Count, EnterProgress, Progress, resultVars, childVars, diskVars
<1>4. ASSUME NEW j \in Jobs, WriteResult(j) PROVE FileHasAssertion'
  BY <1>4 DEF WriteResult, parentVars, resultVars
<1>5. ASSUME NEW j \in Jobs, Child(j), ~WriteResult(j) PROVE FileHasAssertion'
  BY <1>5 DEF Child, ExitWithout, AppendSl, AppendCmp, ExitVerified, Crash, parentVars,
              resultVars, diskVars
<1>6. CASE Return \/ Tick \/ UNCHANGED vars
  BY <1>6 DEF Return, Tick, vars, resultVars, childVars, diskVars
<1> QED
  BY <1>1, <1>2, <1>3, <1>4, <1>5, <1>6 DEF Next, Step, Done

-----------------------------------------------------------------------------
(* Which thread holds which job.                                            *)

\* A thread that is about to claim, and finds a job, claims one nobody has.
LEMMA NextJob ==
  ASSUME TypeOK, ~Exhausted
  PROVE  next \in Jobs
BY CountsAssumption DEF TypeOK, CallTypes, Exhausted, Jobs

\* Only claims and reports change who holds what.
LEMMA ClaimsStep ==
  ASSUME TypeOK, Claims, Exclusive, Jobwise, [Next]_vars
  PROVE  Claims'
<1> USE DEF TypeOK, ThreadTypes, Goto
<1>1. ASSUME NEW w \in Workers, Claim(w) PROVE Claims'
  <2> USE <1>1 DEF Claim, Advanced
  <2>1. next \in Nat /\ next' = next + 1 /\ doneAt' = doneAt /\ completed' = completed
    BY DEF CallTypes, resultVars
  <2>2. CASE Exhausted
    BY <2>1, <2>2, CountsAssumption DEF Claims, Exhausted, Jobs
  <2>3. CASE ~Exhausted
    <3>1. next \in Jobs /\ doneAt[next] = 0 /\ next # 0
      BY <2>1, <2>3, NextJob DEF Jobwise, Jobs
    <3> QED
      BY <2>1, <2>3, <3>1, CountsAssumption DEF Claims, Jobs
  <2> QED
    BY <2>2, <2>3
<1>2. ASSUME NEW w \in Workers,
             Start(w) \/ Fork(w) \/ Poll(w) \/ Check(w) \/ Settle(w)
      PROVE  Claims'
  <2>1. /\ UNCHANGED <<next, job, doneAt, completed>>
        /\ \/ pc[w] = "start" /\ pc' = [pc EXCEPT ![w] = "fork"]
           \/ pc[w] = "start" /\ pc' = [pc EXCEPT ![w] = "count"]
           \/ pc[w] = "fork" /\ pc' = [pc EXCEPT ![w] = "poll"]
           \/ pc[w] = "fork" /\ pc' = [pc EXCEPT ![w] = "count"]
           \/ pc[w] = "poll" /\ pc' = [pc EXCEPT ![w] = "check"]
           \/ pc[w] = "poll" /\ pc' = [pc EXCEPT ![w] = "settle"]
           \/ pc[w] = "poll" /\ pc' = [pc EXCEPT ![w] = "count"]
           \/ pc[w] = "check" /\ pc' = [pc EXCEPT ![w] = "poll"]
           \/ pc[w] = "check" /\ pc' = [pc EXCEPT ![w] = "settle"]
           \/ pc[w] = "settle" /\ pc' = [pc EXCEPT ![w] = "count"]
    BY <1>2 DEF Start, Fork, Poll, Lost, Check, Settle, callVars, resultVars
  <2> QED
    BY <2>1 DEF Claims
<1>3. ASSUME NEW w \in Workers, Count(w) PROVE Claims'
  BY <1>3 DEF Count, CountAfter, Claims, CallTypes, resultVars
<1>4. ASSUME NEW w \in Workers, EnterProgress(w) PROVE Claims'
  BY <1>4 DEF EnterProgress, Claims, resultVars
<1>5. ASSUME NEW w \in Workers, Progress(w) PROVE Claims'
  <2> USE <1>5 DEF Progress
  <2>1. job[w] \in Jobs
    BY DEF Claims
  <2>2. ASSUME NEW v \in Workers, v # w, job[v] # 0 PROVE doneAt'[job[v]] = 0
    BY <2>1, <2>2 DEF Claims, Exclusive, ResultTypes
  <2>3. next \in Nat /\ 0 < next
    BY DEF CallTypes
  <2> QED
    BY <2>1, <2>2, <2>3 DEF Claims
<1>6. ASSUME UNCHANGED <<next, pc, job, doneAt, completed>> PROVE Claims'
  BY <1>6 DEF Claims
<1>7. ASSUME NEW j \in Jobs, Child(j) PROVE UNCHANGED <<next, pc, job, doneAt, completed>>
  BY <1>7 DEF Child, ExitWithout, WriteResult, AppendSl, AppendCmp, ExitVerified, Crash,
              parentVars, callVars, threadVars, resultVars
<1>8. ASSUME Return \/ Tick \/ UNCHANGED vars
      PROVE  UNCHANGED <<next, pc, job, doneAt, completed>>
  BY <1>8 DEF Return, Tick, vars, callVars, threadVars, resultVars
<1> QED
  BY <1>1, <1>2, <1>3, <1>4, <1>5, <1>6, <1>7, <1>8 DEF Next, Step, Done

\* A claim takes a job no thread holds, since held jobs are below the counter.
LEMMA ExclusiveStep ==
  ASSUME TypeOK, Claims, Exclusive, [Next]_vars
  PROVE  Exclusive'
<1> USE DEF TypeOK, ThreadTypes
<1>1. ASSUME NEW w \in Workers, Claim(w) PROVE Exclusive'
  <2>1. \A v \in Workers : job[v] \in Int /\ job[v] < next
    BY CountsAssumption DEF Claims, Jobs
  <2>2. next \in Int
    BY DEF CallTypes
  <2>3. job' = job \/ job' = [job EXCEPT ![w] = next]
    BY <1>1 DEF Claim
  <2> QED
    BY <2>1, <2>2, <2>3 DEF Exclusive
<1>2. ASSUME NEW w \in Workers, Progress(w) PROVE Exclusive'
  BY <1>2 DEF Progress, Exclusive
<1>3. ASSUME UNCHANGED job PROVE Exclusive'
  BY <1>3 DEF Exclusive
<1>4. ASSUME NEW w \in Workers, Step(w), ~Claim(w), ~Progress(w) PROVE UNCHANGED job
  BY <1>4 DEF Step, Start, Fork, Poll, Lost, Check, Settle, Count, EnterProgress
<1>5. ASSUME NEW j \in Jobs, Child(j) PROVE UNCHANGED job
  BY <1>5 DEF Child, ExitWithout, WriteResult, AppendSl, AppendCmp, ExitVerified, Crash,
              parentVars, threadVars
<1>6. ASSUME Return \/ Tick \/ UNCHANGED vars PROVE UNCHANGED job
  BY <1>6 DEF Return, Tick, vars, threadVars
<1> QED
  BY <1>1, <1>2, <1>3, <1>4, <1>5, <1>6 DEF Next, Done

\* A job leaves its thread only when it is reported and its block is gone.
LEMMA JobwiseStep ==
  ASSUME TypeOK, Claims, Exclusive, Jobwise, Phases, [Next]_vars
  PROVE  Jobwise'
<1> USE DEF TypeOK, ThreadTypes, Goto
<1>1. ASSUME NEW w \in Workers, Claim(w) PROVE Jobwise'
  <2> USE <1>1 DEF Claim, Advanced
  <2>1. next \in Nat /\ next' = next + 1 /\ UNCHANGED <<doneAt, block>>
    BY DEF CallTypes, resultVars, childVars
  <2>2. job[w] = 0
    BY DEF Claims
  <2>3. CASE Exhausted
    BY <2>1, <2>3, CountsAssumption DEF Jobwise, Jobs, Exhausted, Live
  <2>4. CASE ~Exhausted
    <3>1. \A v \in Workers : v # w => job'[v] = job[v]
      BY <2>4
    <3>2. job'[w] = next
      BY <2>4
    <3> SUFFICES ASSUME NEW j \in Jobs
                 PROVE  /\ j >= next' => doneAt'[j] = 0 /\ block'[j] = "none"
                        /\ j < next' => doneAt'[j] # 0 \/ \E v \in Workers : job'[v] = j
                        /\ Live(j)' => \E v \in Workers : job'[v] = j
      BY DEF Jobwise
    <3>3. j # 0 /\ j \in Int
      BY CountsAssumption DEF Jobs
    <3>4. \A v \in Workers : job[v] = j => job'[v] = j
      BY <2>2, <3>1, <3>3
    <3> QED
      BY <2>1, <3>2, <3>3, <3>4 DEF Jobwise, Live
  <2> QED
    BY <2>3, <2>4
<1>2. ASSUME NEW w \in Workers, Progress(w) PROVE Jobwise'
  <2> USE <1>2 DEF Progress
  <2>1. job[w] \in Jobs /\ completed[w] >= 1
    BY DEF Claims
  <2>2. block[job[w]] \in {"none", "reaped", "vanished"}
    BY DEF Phases, Phase
  <2>3. UNCHANGED <<next, block>>
    BY DEF childVars
  <2>4. job[w] < next /\ next \in Int /\ job[w] \in Int
    BY CountsAssumption, <2>1 DEF Claims, CallTypes, Jobs
  <2>5. doneAt'[job[w]] # 0 /\ ~Live(job[w])
    BY <2>1, <2>2 DEF ResultTypes, Live, Alive
  <2>6. \A j \in Jobs : j # job[w] =>
          /\ doneAt'[j] = doneAt[j]
          /\ \A v \in Workers : job[v] = j => job'[v] = j
    BY <2>1 DEF ResultTypes
  <2> QED
    BY <2>3, <2>4, <2>5, <2>6 DEF Jobwise, Live
<1>3. ASSUME NEW w \in Workers, Fork(w) PROVE Jobwise'
  <2> USE <1>3 DEF Fork
  <2>1. job[w] \in Jobs /\ job[w] < next
    BY DEF Claims
  <2>2. UNCHANGED <<next, job, doneAt>>
    BY DEF callVars
  <2>3. \A j \in Jobs : j # job[w] => block'[j] = block[j]
    BY DEF ChildTypes
  <2>4. ~(job[w] >= next)
    BY <2>1, CountsAssumption DEF CallTypes, Jobs
  <2> SUFFICES ASSUME NEW j \in Jobs
               PROVE  /\ j >= next' => doneAt'[j] = 0 /\ block'[j] = "none"
                      /\ j < next' => doneAt'[j] # 0 \/ \E v \in Workers : job'[v] = j
                      /\ Live(j)' => \E v \in Workers : job'[v] = j
    BY DEF Jobwise
  <2>5. CASE j = job[w]
    BY <2>2, <2>4, <2>5
  <2>6. CASE j # job[w]
    BY <2>2, <2>3, <2>6 DEF Jobwise, Live
  <2> QED
    BY <2>5, <2>6
<1>4. /\ UNCHANGED <<next, job, doneAt>>
      /\ \A j \in Jobs : \/ block'[j] = block[j]
                         \/ Live(j)
                         \/ j < next /\ block'[j] \in {"reaped", "vanished"}
      => Jobwise'
  <2> HAVE /\ UNCHANGED <<next, job, doneAt>>
           /\ \A j \in Jobs : \/ block'[j] = block[j]
                              \/ Live(j)
                              \/ j < next /\ block'[j] \in {"reaped", "vanished"}
  <2> SUFFICES ASSUME NEW j \in Jobs
               PROVE  /\ j >= next => doneAt[j] = 0 /\ block'[j] = "none"
                      /\ j < next => doneAt[j] # 0 \/ \E v \in Workers : job[v] = j
                      /\ Live(j)' => \E v \in Workers : job[v] = j
    BY DEF Jobwise
  <2>1. CASE block'[j] = block[j]
    BY <2>1 DEF Jobwise, Live
  <2>2. CASE Live(j)
    BY <2>2 DEF Jobwise, Live, Alive
  <2>3. CASE j < next /\ block'[j] \in {"reaped", "vanished"}
    BY <2>3, CountsAssumption DEF Jobwise, CallTypes, Jobs, Live, Alive
  <2> QED
    BY <2>1, <2>2, <2>3
<1>5. ASSUME NEW w \in Workers, Poll(w) \/ Check(w) PROVE Jobwise'
  <2>1. job[w] \in Jobs /\ job[w] < next
    BY <1>5 DEF Poll, Lost, Check, Claims
  <2>2. UNCHANGED <<next, job, doneAt>>
    BY <1>5 DEF Poll, Lost, Check, callVars
  <2>3. \A j \in Jobs : j # job[w] => block'[j] = block[j]
    BY <1>5 DEF Poll, Lost, Check, ChildTypes
  <2>4. block'[job[w]] = block[job[w]] \/ block'[job[w]] \in {"reaped", "vanished"}
    BY <1>5, <2>1 DEF Poll, Lost, Check, AfterKill, ChildTypes
  <2>5. \A j \in Jobs : \/ block'[j] = block[j]
                        \/ j < next /\ block'[j] \in {"reaped", "vanished"}
    BY <2>1, <2>3, <2>4
  <2> QED
    BY <1>4, <2>2, <2>5
<1>6. ASSUME NEW w \in Workers, Start(w) \/ Settle(w) \/ Count(w) \/ EnterProgress(w)
      PROVE  Jobwise'
  <2>1. UNCHANGED <<next, job, doneAt, block>>
    BY <1>6 DEF Start, Settle, Count, EnterProgress, callVars, resultVars, childVars
  <2> QED
    BY <1>4, <2>1
<1>7. ASSUME NEW j \in Jobs, Child(j) PROVE Jobwise'
  <2>1. UNCHANGED <<next, job, doneAt>>
    BY <1>7 DEF Child, ExitWithout, WriteResult, AppendSl, AppendCmp, ExitVerified, Crash,
                parentVars, callVars, threadVars, resultVars
  <2>2. Live(j) /\ \A k \in Jobs : k # j => block'[k] = block[k]
    BY <1>7 DEF Child, ExitWithout, WriteResult, AppendSl, AppendCmp, ExitVerified, Crash,
                EndWith, Live, Alive, ChildTypes
  <2> QED
    BY <1>4, <2>1, <2>2
<1>8. CASE Return \/ Tick \/ UNCHANGED vars
  <2>1. UNCHANGED <<next, job, doneAt, block>>
    BY <1>8 DEF Return, Tick, vars, callVars, threadVars, resultVars, childVars
  <2> QED
    BY <1>4, <2>1
<1> QED
  BY <1>1, <1>2, <1>3, <1>5, <1>6, <1>7, <1>8 DEF Next, Step, Done

-----------------------------------------------------------------------------
(* A block and the thread that holds its job.                               *)

\* A thread's step touches no other thread and no other thread's job.
LEMMA StepFrame ==
  ASSUME TypeOK, NEW w \in Workers, Step(w)
  PROVE  /\ \A v \in Workers \ {w} : pc'[v] = pc[v] /\ job'[v] = job[v]
         /\ \A j \in Jobs : j # job[w] =>
              /\ block'[j] = block[j] /\ ended'[j] = ended[j]
              /\ status'[j] = status[j] /\ exitCode'[j] = exitCode[j]
<1> USE DEF TypeOK, ThreadTypes, ResultTypes, ChildTypes, Goto
<1>1. CASE Claim(w) \/ Start(w)
  BY <1>1 DEF Claim, Start, resultVars, childVars
<1>2. CASE Fork(w)
  BY <1>2 DEF Fork
<1>3. CASE Poll(w)
  BY <1>3 DEF Poll, Lost
<1>4. CASE Check(w)
  BY <1>4 DEF Check
<1>5. CASE Settle(w)
  BY <1>5 DEF Settle, childVars
<1>6. CASE Count(w) \/ EnterProgress(w) \/ Progress(w)
  BY <1>6 DEF Count, EnterProgress, Progress, resultVars, childVars
<1> QED
  BY <1>1, <1>2, <1>3, <1>4, <1>5, <1>6 DEF Step

\* A block's step touches no other block, and its own only while it lives.
LEMMA ChildFrame ==
  ASSUME TypeOK, NEW j \in Jobs, Child(j)
  PROVE  /\ Live(j)
         /\ \A k \in Jobs : k # j => block'[k] = block[k] /\ ended'[k] = ended[k]
         /\ UNCHANGED <<pc, job, status, exitCode>>
BY DEF TypeOK, ChildTypes, Child, ExitWithout, WriteResult, AppendSl, AppendCmp,
       ExitVerified, Crash, EndWith, Live, Alive, parentVars, threadVars, resultVars

\* A thread leaves a job's block alone before the fork and when it has gone.
LEMMA PhasesStep ==
  ASSUME TypeOK, Claims, Exclusive, Jobwise, Phases, [Next]_vars
  PROVE  Phases'
<1> USE DEF TypeOK, ThreadTypes
<1>1. ASSUME NEW w \in Workers, NEW v \in Workers, v # w, Step(w) PROVE Phase(v)'
  <2>1. pc'[v] = pc[v] /\ job'[v] = job[v]
    BY <1>1, StepFrame
  <2>2. CASE job[v] \in Jobs
    <3>1. job[v] # job[w]
      BY <1>1, <2>2, CountsAssumption DEF Exclusive, Jobs
    <3> QED
      BY <1>1, <2>1, <2>2, <3>1, StepFrame DEF Phases, Phase
  <2>3. CASE job[v] = 0
    BY <2>1, <2>3 DEF Claims, Phase
  <2> QED
    BY <2>2, <2>3
<1>2. ASSUME NEW w \in Workers, Step(w) PROVE Phase(w)'
  <2> USE DEF Goto, Phase
  <2>1. CASE Claim(w)
    <3>1. CASE Exhausted
      BY <2>1, <3>1 DEF Claim
    <3>2. CASE ~Exhausted
      <4>1. next \in Jobs /\ block[next] = "none"
        BY <3>2, NextJob, CountsAssumption DEF Jobwise, Jobs, CallTypes
      <4> QED
        BY <2>1, <3>2, <4>1 DEF Claim, childVars
    <3> QED
      BY <3>1, <3>2
  <2>2. CASE Start(w)
    BY <2>2 DEF Start, Phases, childVars
  <2>3. CASE Fork(w)
    BY <2>3 DEF Fork, Phases
  <2>4. CASE Poll(w)
    <3>1. job[w] \in Jobs
      BY <2>4 DEF Poll, Lost, Claims
    <3> QED
      BY <2>4, <3>1 DEF Poll, Lost, ChildTypes, ResultTypes
  <2>5. CASE Check(w)
    <3>1. job[w] \in Jobs
      BY <2>5 DEF Check, Claims
    <3> QED
      BY <2>5, <3>1 DEF Check, AfterKill, ChildTypes, ResultTypes
  <2>6. CASE Settle(w)
    BY <2>6 DEF Settle, Phases, childVars
  <2>7. CASE Count(w) \/ EnterProgress(w)
    BY <2>7 DEF Count, EnterProgress, Phases, childVars
  <2>8. CASE Progress(w)
    BY <2>8 DEF Progress
  <2> QED
    BY <1>2, <2>1, <2>2, <2>3, <2>4, <2>5, <2>6, <2>7, <2>8 DEF Step
<1>3. ASSUME NEW j \in Jobs, Child(j), NEW v \in Workers PROVE Phase(v)'
  <2>1. UNCHANGED <<pc, job, status, exitCode>> /\ Live(j)
    BY <1>3, ChildFrame
  <2>2. CASE job[v] = j
    BY <2>1, <2>2 DEF Phases, Phase, Live, Alive
  <2>3. CASE job[v] \in Jobs /\ job[v] # j
    BY <1>3, <2>1, <2>3, ChildFrame DEF Phases, Phase
  <2>4. CASE job[v] = 0
    BY <2>1, <2>4 DEF Claims, Phase
  <2> QED
    BY <2>2, <2>3, <2>4
<1>4. CASE Return \/ Tick \/ UNCHANGED vars
  BY <1>4 DEF Return, Tick, vars, threadVars, resultVars, childVars, Phases, Phase
<1> QED
  BY <1>1, <1>2, <1>3, <1>4 DEF Next, Done, Phases

\* A block that exits with 0 has published; a thread that believes it keeps
\* the result file.
LEMMA PublishingStep ==
  ASSUME TypeOK, Claims, Phases, Publishing, [Next]_vars
  PROVE  Publishing'
<1> SUFFICES ASSUME ~WritesMayFail, NEW j \in Jobs PROVE Publication(j)'
  BY DEF Publishing
<1>0. Publication(j)
  BY DEF Publishing
<1> USE DEF TypeOK, ResultTypes, ChildTypes, DiskTypes, Publication
<1>1. ASSUME NEW w \in Workers, Step(w), j # job[w] PROVE Publication(j)'
  <2>1. /\ block'[j] = block[j] /\ ended'[j] = ended[j] /\ status'[j] = status[j]
        /\ resultFile'[j] = resultFile[j]
    BY <1>1, StepFrame
    DEF Step, Claim, Start, Fork, Poll, Lost, Check, Settle, Count, EnterProgress, Progress,
        diskVars
  <2>2. UNCHANGED <<sl, cmp>>
    BY <1>1 DEF Step, Claim, Start, Fork, Poll, Lost, Check, Settle, Count, EnterProgress,
                Progress, diskVars
  <2> QED
    BY <1>0, <2>1, <2>2
<1>2. ASSUME NEW w \in Workers, Step(w), j = job[w] PROVE Publication(j)'
  <2> USE <1>0, <1>2
  <2>1. CASE Claim(w) \/ Count(w) \/ EnterProgress(w) \/ Progress(w)
    BY <2>1 DEF Claim, Count, EnterProgress, Progress, resultVars, childVars, diskVars
  <2>2. CASE Start(w)
    BY <2>2 DEF Start, childVars, diskVars
  <2>3. CASE Fork(w)
    BY <2>3 DEF Fork, diskVars
  <2>4. CASE Poll(w)
    BY <2>4 DEF Poll, Lost, diskVars
  <2>5. CASE Check(w)
    <3>1. CASE ~Expired(w)
      BY <2>5, <3>1 DEF Check, diskVars
    <3>2. CASE Expired(w)
      <4>1. UNCHANGED <<resultFile, sl, cmp>> /\ status'[j] = "TimedOut"
        BY <2>5, <3>2 DEF Check, diskVars
      <4>2. block'[j] = AfterKill(j) /\ ended'[j] = WaitStatus(j)
        BY <2>5, <3>2 DEF Check
      <4> QED
        BY <4>1, <4>2 DEF AfterKill, WaitStatus
    <3> QED
      BY <3>1, <3>2
  <2>6. CASE Settle(w)
    <3>1. pc[w] = "settle" /\ Phase(w)
      BY <2>6 DEF Settle, Goto, Phases
    <3>2. UNCHANGED <<block, ended, sl, cmp>>
      BY <2>6 DEF Settle, childVars
    <3>3. status'[j] = Classify(j) /\ resultFile'[j] = FileLeft(j)
      BY <2>6 DEF Settle
    <3>4. block[j] \in {"none", "reaped", "vanished"}
      BY <3>1 DEF Phase
    <3>5. Classify(j) = "Verified" => j \in sl /\ j \in cmp /\ resultFile[j] = "full"
      BY <3>1 DEF Classify, Phase
    <3> QED
      BY <3>2, <3>3, <3>4, <3>5 DEF FileLeft
  <2> QED
    BY <2>1, <2>2, <2>3, <2>4, <2>5, <2>6 DEF Step
<1>3. ASSUME NEW k \in Jobs, Child(k) PROVE Publication(j)'
  <2> USE <1>0 DEF parentVars, resultVars, EndWith, diskVars
  <2>1. CASE ExitWithout(k)
    BY <2>1, ValueAssumption DEF ExitWithout
  <2>2. CASE WriteResult(k)
    BY <2>2 DEF WriteResult
  <2>3. CASE AppendSl(k)
    BY <2>3 DEF AppendSl
  <2>4. CASE AppendCmp(k)
    BY <2>4 DEF AppendCmp
  <2>5. CASE ExitVerified(k)
    BY <2>5 DEF ExitVerified
  <2>6. CASE Crash(k)
    BY <2>6 DEF Crash
  <2> QED
    BY <1>3, <2>1, <2>2, <2>3, <2>4, <2>5, <2>6 DEF Child
<1>4. CASE Return \/ Tick \/ UNCHANGED vars
  BY <1>0, <1>4 DEF Return, Tick, vars, resultVars, childVars, diskVars
<1> QED
  BY <1>1, <1>2, <1>3, <1>4 DEF Next, Done

-----------------------------------------------------------------------------
(* The invariant, and what follows from it.                                 *)

\* The call starts with every job waiting and nothing published.
LEMMA InitInv == Init => IInv
<1> SUFFICES ASSUME Init PROVE IInv
  OBVIOUS
<1>1. TypeOK
  BY InitTypes
<1>2. FileHasAssertion /\ Claims /\ Exclusive
  BY CountsAssumption DEF Init, FileHasAssertion, Claims, Exclusive
<1>3. Jobwise /\ Phases
  BY CountsAssumption DEF Init, Jobwise, Phases, Phase, Live, Alive, Jobs
<1>4. Publishing
  BY DEF Init, Publishing, Publication
<1> QED
  BY <1>1, <1>2, <1>3, <1>4 DEF IInv

\* The inductive invariant holds in every behaviour.
THEOREM Inductive == Safety => []IInv
<1>1. IInv /\ [Next]_vars => IInv'
  <2> SUFFICES ASSUME IInv, [Next]_vars PROVE IInv'
    OBVIOUS
  <2> QED
    BY TypeStep, FileStep, ClaimsStep, ExclusiveStep, JobwiseStep, PhasesStep,
       PublishingStep DEF IInv
<1> QED
  BY <1>1, InitInv, PTL DEF Safety

\* The type invariant holds in every behaviour of the pool and its children.
THEOREM TypeCorrect == Safety => []TypeOK
<1>1. IInv => TypeOK
  BY DEF IInv
<1> QED
  BY <1>1, Inductive, PTL

\* A reported job's block is gone for good: a live one has a thread that holds
\* its job, and what a thread holds has not been reported.
THEOREM ReportedDead == Safety => []ReportedIsDead
<1>1. IInv => ReportedIsDead
  <2> SUFFICES ASSUME IInv, NEW j \in Jobs, doneAt[j] # 0
               PROVE  block[j] \in {"none", "reaped", "vanished"}
    BY DEF ReportedIsDead
  <2>1. ~Live(j)
    BY CountsAssumption DEF IInv, Jobwise, Claims, Jobs
  <2> QED
    BY <2>1 DEF IInv, TypeOK, ChildTypes, Live
<1> QED
  BY <1>1, Inductive, PTL

\* Unless a write fails, a Verified job has published its assertion in all
\* three files.
THEOREM VerifiedPublished == Safety => []VerifiedIsPublished
<1>1. IInv => VerifiedIsPublished
  BY DEF IInv, Publishing, Publication, FileHasAssertion, VerifiedIsPublished
<1> QED
  BY <1>1, Inductive, PTL

-----------------------------------------------------------------------------
(* Counting: jobs that threads hold are no more than those threads.         *)

LEMMA Holders ==
  ASSUME NEW S \in SUBSET Jobs, NEW W \in SUBSET Workers,
         \A j \in S : \E w \in W : job[w] = j
  PROVE  Cardinality(S) =< Cardinality(W)
<1> DEFINE holder == [j \in S |-> CHOOSE w \in W : job[w] = j]
<1>1. \A j \in S : holder[j] \in W /\ job[holder[j]] = j
  OBVIOUS
<1>2. holder \in Injection(S, W)
  BY <1>1 DEF Injection, IsInjective
<1>3. IsFiniteSet(W)
  BY CountsAssumption, FS_Subset
<1> QED
  BY <1>2, <1>3, FS_Injection

\* No more children are alive than options.jobs, or one: each has a thread that
\* holds its job, and the pool has no more threads than that.
THEOREM JobsBounded == Safety => []AtMostJobs
<1>1. IInv => AtMostJobs
  <2> SUFFICES ASSUME IInv PROVE AtMostJobs
    OBVIOUS
  <2> DEFINE alive == {j \in Jobs : block[j] \in Alive}
  <2>1. \A j \in alive : \E w \in Workers : job[w] = j
    BY DEF IInv, Jobwise, Live
  <2>2. Cardinality(alive) =< Cardinality(Workers)
    BY <2>1, Holders
  <2>3. IsFiniteSet(alive)
    BY CountsAssumption, FS_Interval, FS_Subset DEF Jobs
  <2>4. Cardinality(alive) \in Nat
    BY <2>3, FS_CardinalityType
  <2>5. PoolSize =< IF MaxJobs < 1 THEN 1 ELSE MaxJobs
    BY CountsAssumption DEF PoolSize
  <2> QED
    BY <2>2, <2>4, <2>5, CountsAssumption DEF AtMostJobs, PoolSize
<1> QED
  BY <1>1, Inductive, PTL

-----------------------------------------------------------------------------
(* runBlocks implements the abstract pool of JobPool.                       *)

\* The call starts as the abstract pool does.
LEMMA PoolInit == Init => Pool!Init
<1> SUFFICES ASSUME Init PROVE Pool!Init
  OBVIOUS
<1>1. WaitingJobs = Jobs
  BY CountsAssumption DEF Init, WaitingJobs, Jobs
<1>2. RunningJobs = {} /\ ReportedJobs = {}
  BY DEF Init, RunningJobs, ReportedJobs
<1> QED
  BY <1>1, <1>2 DEF Init, Pool!Init

\* A claim that finds a job begins it: the claiming thread held none, so the
\* others hold fewer than there are threads.
LEMMA ClaimBegins ==
  ASSUME IInv, NEW w \in Workers, Claim(w), ~Exhausted
  PROVE  next \in Jobs /\ Pool!Begin(next)
<1> USE DEF IInv, TypeOK, ThreadTypes
<1>1. next \in Jobs
  BY NextJob
<1>2. job[w] = 0 /\ job' = [job EXCEPT ![w] = next] /\ next' = next + 1
  BY DEF Claim, Claims, Goto, Advanced
<1>3. next \in WaitingJobs
  BY <1>1, CountsAssumption DEF WaitingJobs, Jobs
<1>4. Cardinality(RunningJobs) < PoolSize
  <2>1. RunningJobs \in SUBSET Jobs
    BY DEF RunningJobs
  <2>2. \A j \in RunningJobs : \E v \in Workers \ {w} : job[v] = j
    BY <1>2 DEF RunningJobs
  <2>3. Cardinality(RunningJobs) =< Cardinality(Workers \ {w})
    BY <2>1, <2>2, Holders
  <2>4. Cardinality(Workers \ {w}) = PoolSize - 1
    BY CountsAssumption, FS_RemoveElement
  <2>5. IsFiniteSet(RunningJobs)
    <3>1. IsFiniteSet(Jobs)
      BY CountsAssumption, FS_Interval DEF Jobs
    <3> QED
      BY <2>1, <3>1, FS_Subset
  <2>6. Cardinality(RunningJobs) \in Nat /\ PoolSize \in Int
    BY <2>5, FS_CardinalityType, CountsAssumption DEF PoolSize
  <2> QED
    BY <2>3, <2>4, <2>6
<1>5. WaitingJobs' = WaitingJobs \ {next}
  BY <1>1, <1>2, CountsAssumption DEF WaitingJobs, Jobs
<1>6. RunningJobs' = RunningJobs \cup {next}
  <2>1. next # 0
    BY <1>1 DEF Jobs
  <2> QED
    BY <1>2, <2>1 DEF RunningJobs
<1>7. UNCHANGED <<ReportedJobs, returned>>
  BY DEF Claim, ReportedJobs, resultVars
<1>8. Pool!Cardinality(RunningJobs) < PoolSize
  BY <1>4 DEF Pool!Cardinality, Cardinality
<1> QED
  BY <1>1, <1>3, <1>5, <1>6, <1>7, <1>8 DEF Pool!Begin

\* The callback reports the job its thread holds.
LEMMA ProgressReports ==
  ASSUME IInv, NEW w \in Workers, Progress(w)
  PROVE  job[w] \in Jobs /\ Pool!Report(job[w])
<1> USE DEF IInv, TypeOK, ThreadTypes, ResultTypes
<1>1. job[w] \in Jobs /\ job[w] # 0 /\ completed[w] # 0
  <2>1. pc[w] = "progress"
    BY DEF Progress, Goto
  <2>2. job[w] # 0 /\ completed[w] >= 1
    BY <2>1 DEF Claims
  <2> QED
    BY <2>2
<1>2. job' = [job EXCEPT ![w] = 0] /\ doneAt' = [doneAt EXCEPT ![job[w]] = completed[w]]
  BY DEF Progress
<1>3. job[w] \in RunningJobs
  BY <1>1 DEF RunningJobs
<1>4. RunningJobs' = RunningJobs \ {job[w]}
  BY <1>1, <1>2 DEF RunningJobs, Exclusive
<1>5. ReportedJobs' = ReportedJobs \cup {job[w]}
  BY <1>1, <1>2 DEF ReportedJobs
<1>6. UNCHANGED <<WaitingJobs, returned>>
  BY DEF Progress, WaitingJobs
<1> QED
  BY <1>1, <1>3, <1>4, <1>5, <1>6 DEF Pool!Report

\* The call returns only when every job has been reported: threads that have
\* left hold nothing and leave nothing to claim.
LEMMA ReturnReturns ==
  ASSUME IInv, Return
  PROVE  Pool!Return
<1> USE DEF IInv, TypeOK
<1>1. PICK w \in Workers : TRUE
  <2>1. Cardinality(Workers) # 0
    BY CountsAssumption DEF PoolSize
  <2> QED
    BY <2>1, FS_EmptySet
<1>2. \A v \in Workers : job[v] = 0
  BY DEF Return, AllJoined, Claims
<1>3. next > NJobs
  BY <1>1 DEF Return, AllJoined, Claims
<1>4. \A j \in Jobs : j < next
  BY <1>3, CountsAssumption DEF Jobs, CallTypes
<1>5. ReportedJobs = Jobs
  BY <1>2, <1>4, CountsAssumption DEF ReportedJobs, Jobwise, Jobs
<1>6. UNCHANGED <<WaitingJobs, RunningJobs, ReportedJobs>>
  BY DEF Return, WaitingJobs, RunningJobs, ReportedJobs, threadVars, resultVars
<1> QED
  BY <1>5, <1>6 DEF Return, Pool!Return

\* A step that neither claims, reports nor returns changes nothing the pool shows.
LEMMA OthersStutter ==
  ASSUME UNCHANGED <<next, job, doneAt, returned>>
  PROVE  UNCHANGED Pool!vars
BY DEF Pool!vars, WaitingJobs, RunningJobs, ReportedJobs

\* runBlocks implements the abstract pool, for every number of jobs and threads.
THEOREM PoolRefined == Safety => PoolSafety
<1>1. IInv /\ [Next]_vars => [Pool!Next]_(Pool!vars)
  <2> SUFFICES ASSUME IInv, [Next]_vars PROVE Pool!Next \/ UNCHANGED Pool!vars
    OBVIOUS
  <2>1. ASSUME NEW w \in Workers, Claim(w), ~Exhausted PROVE Pool!Next
    BY <2>1, ClaimBegins DEF Pool!Next
  <2>2. ASSUME NEW w \in Workers, Claim(w), Exhausted PROVE UNCHANGED Pool!vars
    <3>1. WaitingJobs = {} /\ WaitingJobs' = {}
      BY <2>2, CountsAssumption
      DEF Claim, Advanced, Exhausted, WaitingJobs, Jobs, IInv, TypeOK, CallTypes
    <3>2. UNCHANGED <<job, doneAt, returned>>
      BY <2>2 DEF Claim, resultVars
    <3> QED
      BY <3>1, <3>2 DEF Pool!vars, RunningJobs, ReportedJobs
  <2>3. ASSUME NEW w \in Workers, Progress(w) PROVE Pool!Next
    BY <2>3, ProgressReports DEF Pool!Next
  <2>4. CASE Return
    BY <2>4, ReturnReturns DEF Pool!Next
  <2>5. ASSUME NEW w \in Workers, Step(w), ~Claim(w), ~Progress(w)
        PROVE  UNCHANGED Pool!vars
    <3>1. UNCHANGED <<next, job, doneAt, returned>>
      BY <2>5 DEF Step, Start, Fork, Poll, Lost, Check, Settle, Count, EnterProgress,
                  callVars, resultVars
    <3> QED
      BY <3>1, OthersStutter
  <2>6. ASSUME NEW j \in Jobs, Child(j) PROVE UNCHANGED Pool!vars
    <3>1. UNCHANGED <<next, job, doneAt, returned>>
      BY <2>6 DEF Child, ExitWithout, WriteResult, AppendSl, AppendCmp, ExitVerified,
                  Crash, parentVars, callVars, threadVars, resultVars
    <3> QED
      BY <3>1, OthersStutter
  <2>7. CASE Tick \/ UNCHANGED vars
    <3>1. UNCHANGED <<next, job, doneAt, returned>>
      BY <2>7 DEF Tick, vars, callVars, threadVars, resultVars
    <3> QED
      BY <3>1, OthersStutter
  <2> QED
    BY <2>1, <2>2, <2>3, <2>4, <2>5, <2>6, <2>7 DEF Next, Step, Done
<1> QED
  BY <1>1, PoolInit, Inductive, PTL DEF Safety, PoolSafety, Pool!Safety

-----------------------------------------------------------------------------
(* On top of it: what a job's status says of its block and its files, how  *)
(* the jobs are counted, and what the callback leaves in `mined`.           *)

-----------------------------------------------------------------------------
(* The strengthening, in parts.                                             *)

\* A job has a status exactly once its thread is past classifying it.
Assigned(w) ==
  /\ pc[w] \in {"start", "fork", "poll", "check"} => status[job[w]] = "none"
  /\ pc[w] \in {"count", "lock", "progress"} => status[job[w]] # "none"

Statuses ==
  /\ \A w \in Workers : Assigned(w)
  /\ \A j \in Jobs : /\ j >= next => status[j] = "none"
                     /\ doneAt[j] # 0 => status[j] # "none"

\* A result file without a Verified job belongs to a block that vanished, or has
\* a thread that will still classify it.
FileHeld(j) ==
  resultFile[j] = "full" =>
    \/ status[j] = "Verified" \/ block[j] = "vanished"
    \/ \E w \in Workers : job[w] = j /\ pc[w] \in {"poll", "check", "settle"}

FilesHeld == \A j \in Jobs : FileHeld(j)

\* What an exit code of 0 beside a status means, when no write fails.
Meaning(j) ==
  /\ block[j] \in {"zombie", "reaped"} /\ ended[j] = 0 /\ status[j] = "none" =>
       resultFile[j] = "full"
  /\ status[j] = "NoAssertion" => exitCode[j] # 0
  /\ status[j] = "TimedOut" /\ exitCode[j] = 0 =>
       block[j] \in {"none", "vanished"} \/ j \in sl \cap cmp
  /\ status[j] = "Failed" => block[j] \in {"none", "vanished"}

Meanings == ~WritesMayFail => \A j \in Jobs : Meaning(j)

\* Every count up to `done` has been given to one thread, and from it to one job.
Counts ==
  /\ \A w \in Workers : /\ completed[w] # 0 => pc[w] \in {"lock", "progress"}
                        /\ completed[w] =< done
  /\ \A j \in Jobs : doneAt[j] =< done
  /\ \A v, w \in Workers : completed[v] = completed[w] /\ completed[v] # 0 => v = w
  /\ \A j, k \in Jobs : doneAt[j] = doneAt[k] /\ doneAt[j] # 0 => j = k
  /\ \A w \in Workers, j \in Jobs : completed[w] # 0 => doneAt[j] # completed[w]
  /\ \A n \in 1..done : \/ \E w \in Workers : completed[w] = n
                        \/ \E j \in Jobs : doneAt[j] = n

\* Threads stay gone once the call has returned.
Joined == returned => AllJoined

\* What the callback has been told.
ReportedVerified == {j \in Jobs : doneAt[j] # 0 /\ status[j] = "Verified"}

\* A thread in the callback has the lock, and finds `mined` as it left it.
Mining ==
  /\ \A w \in Workers : pc[w] = "progress" => mutex = w /\ snapshot[w] = mined
  /\ mined = MinedBefore \cup Published(ReportedVerified)
  /\ foundThisRound = Cardinality(mined \ MinedBefore)

\* A pair is appended after its definition.
PairsHaveDefinitions == ~WritesMayFail => cmp \subseteq sl

RInv ==
  /\ Statuses /\ FilesHeld /\ Meanings
  /\ Counts /\ Joined /\ Mining /\ PairsHaveDefinitions

-----------------------------------------------------------------------------
(* Frames.                                                                  *)

\* What a thread's step leaves alone beside blocks and statuses.
LEMMA StepKeeps ==
  ASSUME TypeOK, NEW w \in Workers, Step(w)
  PROVE  /\ \A v \in Workers \ {w} : completed'[v] = completed[v] /\ snapshot'[v] = snapshot[v]
         /\ \A j \in Jobs : j # job[w] =>
              resultFile'[j] = resultFile[j] /\ doneAt'[j] = doneAt[j]
         /\ UNCHANGED <<found, sl, cmp, returned>>
<1> USE DEF TypeOK, ThreadTypes, ResultTypes, DiskTypes
<1>1. CASE Claim(w) \/ Start(w) \/ Fork(w) \/ Poll(w) \/ Check(w)
  BY <1>1 DEF Claim, Start, Fork, Poll, Lost, Check, callVars, resultVars, childVars, diskVars
<1>2. CASE Settle(w)
  BY <1>2 DEF Settle, callVars, childVars
<1>3. CASE Count(w) \/ EnterProgress(w) \/ Progress(w)
  BY <1>3 DEF Count, EnterProgress, Progress, callVars, resultVars, childVars, diskVars
<1> QED
  BY <1>1, <1>2, <1>3 DEF Step

\* What a block's step leaves alone beside the other blocks.
LEMMA ChildKeeps ==
  ASSUME TypeOK, NEW j \in Jobs, Child(j)
  PROVE  /\ UNCHANGED <<callVars, threadVars, resultVars>>
         /\ \A k \in Jobs : k # j => found'[k] = found[k] /\ resultFile'[k] = resultFile[k]
         /\ sl \subseteq sl' /\ cmp \subseteq cmp'
BY DEF TypeOK, ChildTypes, DiskTypes, Child, ExitWithout, WriteResult, AppendSl, AppendCmp,
       ExitVerified, Crash, EndWith, parentVars, diskVars

\* The thread of a living block is polling it.
LEMMA LivePolled ==
  ASSUME IInv, NEW j \in Jobs, Live(j)
  PROVE  \E w \in Workers : job[w] = j /\ pc[w] \in {"poll", "check"}
<1>1. PICK w \in Workers : job[w] = j
  BY DEF IInv, Jobwise
<1>2. job[w] # 0
  BY <1>1 DEF Jobs
<1>3. pc[w] \notin {"claim", "exited"}
  BY <1>2 DEF IInv, Claims
<1>4. pc[w] \notin {"start", "fork", "settle", "count", "lock", "progress"}
  BY <1>1 DEF IInv, Phases, Phase, Live, Alive
<1> QED
  BY <1>1, <1>3, <1>4 DEF IInv, TypeOK, ThreadTypes, ThreadPcs

\* A thread that holds a job is at work on it.
LEMMA HeldJob ==
  ASSUME IInv, NEW w \in Workers, pc[w] \notin {"claim", "exited"}
  PROVE  /\ job[w] \in Jobs /\ job[w] # 0 /\ doneAt[job[w]] = 0
         /\ job[w] < next
         /\ \A v \in Workers : v # w => job[v] # job[w]
BY DEF IInv, Claims, Exclusive, TypeOK, ThreadTypes

-----------------------------------------------------------------------------
(* Statuses and result files.                                               *)

\* A thread gives its own job a status, and that once.
LEMMA StatusesStep ==
  ASSUME IInv, Statuses, [Next]_vars
  PROVE  Statuses'
<1> USE DEF IInv, TypeOK, ThreadTypes, ResultTypes, Goto
<1>0. next \in Nat /\ \A j \in Jobs : j \in Nat
  BY CountsAssumption DEF CallTypes, Jobs
<1>1. ASSUME NEW w \in Workers, Step(w) PROVE Statuses'
  <2>1. ASSUME NEW v \in Workers, v # w PROVE Assigned(v)'
    <3>1. pc'[v] = pc[v] /\ job'[v] = job[v]
      BY <1>1, <2>1, StepFrame
    <3>2. CASE pc[v] \in {"claim", "exited"}
      BY <3>1, <3>2 DEF Assigned
    <3>3. CASE pc[v] \notin {"claim", "exited"}
      <4>1. job[v] \in Jobs /\ job[v] # job[w]
        BY <2>1, <3>3, HeldJob
      <4>2. status'[job[v]] = status[job[v]]
        BY <1>1, <4>1, StepFrame
      <4> QED
        BY <3>1, <4>2 DEF Statuses, Assigned
    <3> QED
      BY <3>2, <3>3
  <2>2. /\ Assigned(w)'
        /\ \A j \in Jobs : /\ j >= next' => status'[j] = "none"
                           /\ doneAt'[j] # 0 => status'[j] # "none"
    <3>1. CASE Claim(w)
      <4>1. UNCHANGED <<status, doneAt>> /\ next' = next + 1
        BY <3>1 DEF Claim, Advanced, resultVars
      <4>2. CASE Exhausted
        BY <1>0, <3>1, <4>1, <4>2 DEF Claim, Statuses, Assigned
      <4>3. CASE ~Exhausted
        <5>1. next \in Jobs
          BY <4>3, NextJob
        <5>2. status[next] = "none"
          BY <1>0, <5>1 DEF Statuses
        <5> QED
          BY <1>0, <3>1, <4>1, <4>3, <5>2 DEF Claim, Statuses, Assigned
      <4> QED
        BY <4>2, <4>3
    <3>2. CASE Start(w) \/ Fork(w) \/ Poll(w) \/ Check(w) \/ Settle(w)
      <4>1. pc[w] \notin {"claim", "exited"}
        BY <3>2 DEF Start, Fork, Poll, Lost, Check, Settle
      <4>2. job[w] \in Jobs /\ job[w] < next /\ doneAt[job[w]] = 0
        BY <4>1, HeldJob
      <4>3. UNCHANGED <<next, job, doneAt>>
        BY <3>2 DEF Start, Fork, Poll, Lost, Check, Settle, callVars
      <4>4. \A j \in Jobs : j # job[w] => status'[j] = status[j]
        BY <1>1, StepFrame
      <4>5. Assigned(w)'
        <5>1. CASE Start(w) \/ Fork(w)
          BY <4>2, <5>1 DEF Start, Fork, Statuses, Assigned
        <5>2. CASE Poll(w)
          BY <4>2, <5>2 DEF Poll, Lost, Statuses, Assigned
        <5>3. CASE Check(w)
          BY <4>2, <5>3 DEF Check, Statuses, Assigned
        <5>4. CASE Settle(w)
          BY <4>2, <5>4 DEF Settle, Classify, Assigned
        <5> QED
          BY <3>2, <5>1, <5>2, <5>3, <5>4
      <4> QED
        BY <1>0, <4>2, <4>3, <4>4, <4>5 DEF Statuses
    <3>3. CASE Count(w) \/ EnterProgress(w)
      BY <3>3 DEF Count, EnterProgress, Statuses, Assigned, resultVars
    <3>4. CASE Progress(w)
      <4>1. job[w] \in Jobs /\ status[job[w]] # "none"
        BY <3>4, HeldJob DEF Progress, Statuses, Assigned
      <4>2. Assigned(w)'
        BY <3>4 DEF Progress, Assigned
      <4>3. UNCHANGED <<next, status>> /\ doneAt' = [doneAt EXCEPT ![job[w]] = completed[w]]
        BY <3>4 DEF Progress
      <4> QED
        BY <4>1, <4>2, <4>3 DEF Statuses
    <3> QED
      BY <1>1, <3>1, <3>2, <3>3, <3>4 DEF Step
  <2> QED
    BY <2>1, <2>2 DEF Statuses
<1>2. ASSUME UNCHANGED <<next, pc, job, status, doneAt>> PROVE Statuses'
  BY <1>2 DEF Statuses, Assigned
<1>3. ASSUME NEW j \in Jobs, Child(j) PROVE Statuses'
  BY <1>2, <1>3, ChildKeeps DEF callVars, threadVars, resultVars
<1>4. CASE Return \/ Tick \/ UNCHANGED vars
  BY <1>2, <1>4 DEF Return, Tick, vars, callVars, threadVars, resultVars
<1> QED
  BY <1>1, <1>3, <1>4 DEF Next, Done

\* A result file is written while its thread polls, and removed by that thread
\* unless the job is Verified or the block cannot be waited for.
LEMMA FilesHeldStep ==
  ASSUME IInv, Statuses, FilesHeld, [Next]_vars
  PROVE  FilesHeld'
<1> SUFFICES ASSUME NEW j \in Jobs PROVE FileHeld(j)'
  BY DEF FilesHeld
<1>0. FileHeld(j)
  BY DEF FilesHeld
<1> USE DEF IInv, TypeOK, ThreadTypes, ResultTypes, ChildTypes, DiskTypes, Goto
<1>1. ASSUME NEW w \in Workers, Step(w), j # job[w] PROVE FileHeld(j)'
  <2>1. resultFile'[j] = resultFile[j] /\ status'[j] = status[j] /\ block'[j] = block[j]
    BY <1>1, StepFrame, StepKeeps
  <2>2. ASSUME NEW v \in Workers, job[v] = j PROVE job'[v] = j /\ pc'[v] = pc[v]
    BY <1>1, <2>2, StepFrame
  <2> QED
    BY <1>0, <2>1, <2>2 DEF FileHeld
<1>2. ASSUME NEW w \in Workers, Step(w), j = job[w] PROVE FileHeld(j)'
  <2>0. pc[w] \notin {"claim", "exited"} /\ \A v \in Workers : v # w => job[v] # j
    BY <1>2, CountsAssumption DEF Claims, Exclusive, Jobs
  <2>1. CASE Start(w)
    BY <1>0, <1>2, <2>0, <2>1 DEF Start, FileHeld, Statuses, Assigned, childVars, diskVars
  <2>2. CASE Fork(w)
    BY <1>0, <1>2, <2>0, <2>2 DEF Fork, FileHeld, Statuses, Assigned, diskVars, Phases, Phase
  <2>3. CASE Poll(w)
    BY <1>0, <1>2, <2>0, <2>3 DEF Poll, Lost, FileHeld, Statuses, Assigned, diskVars
  <2>4. CASE Check(w)
    BY <1>0, <1>2, <2>0, <2>4 DEF Check, FileHeld, Statuses, Assigned, diskVars
  <2>5. CASE Settle(w)
    BY <1>0, <1>2, <2>0, <2>5 DEF Settle, FileHeld, FileLeft, childVars
  <2>6. CASE Count(w) \/ EnterProgress(w) \/ Progress(w)
    BY <1>0, <1>2, <2>0, <2>6
    DEF Count, EnterProgress, Progress, FileHeld, resultVars, childVars, diskVars
  <2>7. ~Claim(w)
    BY <2>0 DEF Claim
  <2> QED
    BY <1>2, <2>1, <2>2, <2>3, <2>4, <2>5, <2>6, <2>7 DEF Step
<1>3. ASSUME NEW k \in Jobs, Child(k) PROVE FileHeld(j)'
  <2>1. UNCHANGED <<pc, job, status>>
    BY <1>3, ChildFrame
  <2>2. CASE j = k
    BY <1>3, <2>1, <2>2, ChildFrame, LivePolled DEF FileHeld
  <2>3. CASE j # k
    <3>1. block'[j] = block[j] /\ resultFile'[j] = resultFile[j]
      BY <1>3, <2>3, ChildFrame, ChildKeeps
    <3> QED
      BY <1>0, <2>1, <3>1 DEF FileHeld
  <2> QED
    BY <2>2, <2>3
<1>4. CASE Return \/ Tick \/ UNCHANGED vars
  BY <1>0, <1>4 DEF Return, Tick, vars, threadVars, resultVars, childVars, diskVars, FileHeld
<1> QED
  BY <1>1, <1>2, <1>3, <1>4 DEF Next, Done

\* An exit code is read once, before there is a status, and a block that exits
\* with 0 has written its result file; a kill leaves 0 only of a block that had
\* published or that cannot be waited for.
LEMMA MeaningsStep ==
  ASSUME IInv, Statuses, Meanings, [Next]_vars
  PROVE  Meanings'
<1> SUFFICES ASSUME ~WritesMayFail, NEW j \in Jobs PROVE Meaning(j)'
  BY DEF Meanings
<1>0. Meaning(j) /\ Publication(j)
  BY DEF Meanings, IInv, Publishing
<1> USE DEF IInv, TypeOK, ThreadTypes, ResultTypes, ChildTypes, DiskTypes, Goto
<1>1. ASSUME NEW w \in Workers, Step(w), j # job[w] PROVE Meaning(j)'
  <2>1. /\ resultFile'[j] = resultFile[j] /\ status'[j] = status[j]
        /\ block'[j] = block[j] /\ ended'[j] = ended[j] /\ exitCode'[j] = exitCode[j]
        /\ UNCHANGED <<sl, cmp>>
    BY <1>1, StepFrame, StepKeeps
  <2> QED
    BY <1>0, <2>1 DEF Meaning
<1>2. ASSUME NEW w \in Workers, Step(w), j = job[w] PROVE Meaning(j)'
  <2>0. pc[w] \notin {"claim", "exited"}
    BY <1>2, CountsAssumption DEF Claims, Jobs
  <2> USE <1>0, <1>2, <2>0
  <2>1. CASE Start(w)
    BY <2>1 DEF Start, Meaning, Statuses, Assigned, Phases, Phase, childVars, diskVars
  <2>2. CASE Fork(w)
    BY <2>2 DEF Fork, Meaning, Statuses, Assigned, Phases, Phase, diskVars
  <2>3. CASE Poll(w)
    BY <2>3 DEF Poll, Lost, Meaning, Statuses, Assigned, diskVars
  <2>4. CASE Check(w)
    <3>1. status[j] = "none"
      BY <2>4 DEF Check, Statuses, Assigned
    <3>2. CASE ~Expired(w)
      BY <2>4, <3>2 DEF Check, Meaning, diskVars
    <3>3. CASE Expired(w)
      <4>1. /\ status'[j] = "TimedOut" /\ UNCHANGED <<resultFile, sl, cmp>>
            /\ block'[j] = AfterKill(j) /\ exitCode'[j] = WaitStatus(j)
        BY <2>4, <3>3 DEF Check, diskVars
      <4>2. CASE WaitStatus(j) = 0
        <5>1. AfterKill(j) = "vanished" \/ (block[j] = "zombie" /\ ended[j] = 0)
          BY <4>2 DEF WaitStatus
        <5>2. block'[j] = "vanished" \/ j \in sl' \cap cmp'
          BY <4>1, <5>1 DEF Publication
        <5> QED
          BY <4>1, <5>2 DEF Meaning
      <4>3. CASE WaitStatus(j) # 0
        BY <4>1, <4>3 DEF Meaning
      <4> QED
        BY <4>2, <4>3
    <3> QED
      BY <3>2, <3>3
  <2>5. CASE Settle(w)
    <3>1. /\ status'[j] = Classify(j) /\ status'[j] # "none"
          /\ UNCHANGED <<block, ended, exitCode, sl, cmp>>
      BY <2>5 DEF Settle, Classify, childVars
    <3>2. CASE status[j] = "TimedOut"
      BY <3>1, <3>2 DEF Classify, Meaning
    <3>3. CASE status[j] # "TimedOut"
      <4>1. block[j] = "reaped" /\ exitCode[j] = ended[j]
        BY <2>5, <3>3 DEF Settle, Phases, Phase
      <4>2. exitCode[j] = 0 => resultFile[j] = "full"
        <5>1. CASE status[j] = "none"
          BY <4>1, <5>1 DEF Meaning
        <5>2. CASE status[j] = "Verified"
          BY <5>2 DEF Publication
        <5>3. CASE status[j] \in {"NoAssertion", "Failed"}
          BY <4>1, <5>3 DEF Meaning
        <5> QED
          BY <3>3, <5>1, <5>2, <5>3
      <4> QED
        BY <3>1, <3>3, <4>2 DEF Classify, Meaning
    <3> QED
      BY <3>2, <3>3
  <2>6. CASE Count(w) \/ EnterProgress(w) \/ Progress(w)
    BY <2>6 DEF Count, EnterProgress, Progress, Meaning, resultVars, childVars, diskVars
  <2>7. ~Claim(w)
    BY DEF Claim
  <2> QED
    BY <2>1, <2>2, <2>3, <2>4, <2>5, <2>6, <2>7 DEF Step
<1>3. ASSUME NEW k \in Jobs, Child(k) PROVE Meaning(j)'
  <2>1. UNCHANGED <<status, exitCode>>
    BY <1>3, ChildFrame
  <2>2. CASE j # k
    <3>1. /\ block'[j] = block[j] /\ ended'[j] = ended[j] /\ resultFile'[j] = resultFile[j]
          /\ sl \subseteq sl' /\ cmp \subseteq cmp'
      BY <1>3, <2>2, ChildFrame, ChildKeeps
    <3> QED
      BY <1>0, <2>1, <3>1 DEF Meaning
  <2>3. CASE j = k
    <3>1. status[j] = "none"
      BY <1>3, <2>3, ChildFrame, LivePolled DEF Statuses, Assigned
    <3>2. block'[j] = "zombie" /\ ended'[j] = 0 => resultFile'[j] = "full"
      BY <1>0, <1>3, <2>3, ValueAssumption
      DEF Child, ExitWithout, WriteResult, AppendSl, AppendCmp, ExitVerified, Crash, EndWith,
          diskVars, Alive, Publication
    <3>3. block'[j] # "reaped"
      BY <1>3, <2>3
      DEF Child, ExitWithout, WriteResult, AppendSl, AppendCmp, ExitVerified, Crash, EndWith,
          Alive
    <3> QED
      BY <2>1, <3>1, <3>2, <3>3 DEF Meaning
  <2> QED
    BY <2>2, <2>3
<1>4. CASE Return \/ Tick \/ UNCHANGED vars
  BY <1>0, <1>4 DEF Return, Tick, vars, resultVars, childVars, diskVars, Meaning
<1> QED
  BY <1>1, <1>2, <1>3, <1>4 DEF Next, Done

-----------------------------------------------------------------------------
(* Counts, and the callback.                                                *)

\* fetch_add hands out the next count; the callback passes it to its job.
LEMMA CountsStep ==
  ASSUME IInv, Counts, [Next]_vars
  PROVE  Counts'
<1> USE DEF IInv, TypeOK, ThreadTypes, ResultTypes, Goto
<1>0. done \in Nat
  BY DEF CallTypes
<1>1. ASSUME NEW w \in Workers, Count(w) PROVE Counts'
  <2>1. /\ done' = done + 1 /\ doneAt' = doneAt
        /\ completed' = [completed EXCEPT ![w] = done + 1]
        /\ pc' = [pc EXCEPT ![w] = "lock"]
    BY <1>1 DEF Count, CountAfter, resultVars
  <2>2. completed[w] = 0
    BY <1>1 DEF Count, Counts
  <2>3. \A v \in Workers : v # w => completed'[v] = completed[v] /\ completed[v] < done + 1
    BY <1>0, <2>1 DEF Counts
  <2>4. \A j \in Jobs : doneAt[j] < done + 1
    BY <1>0 DEF Counts
  <2>5. \A v \in Workers : completed'[v] # 0 => pc'[v] \in {"lock", "progress"}
    BY <2>1 DEF Counts
  <2>6. \A v \in Workers : completed'[v] =< done'
    BY <1>0, <2>1, <2>3
  <2>7. \A u, v \in Workers : completed'[u] = completed'[v] /\ completed'[u] # 0 => u = v
    BY <1>0, <2>1, <2>3 DEF Counts
  <2>8. \A v \in Workers, j \in Jobs : completed'[v] # 0 => doneAt'[j] # completed'[v]
    BY <1>0, <2>1, <2>3, <2>4 DEF Counts
  <2>9. ASSUME NEW n \in 1..done'
        PROVE  \/ \E v \in Workers : completed'[v] = n
               \/ \E j \in Jobs : doneAt'[j] = n
    <3>1. CASE n = done + 1
      BY <2>1, <3>1
    <3>2. CASE n # done + 1
      <4>1. n \in 1..done
        BY <1>0, <2>1, <3>2
      <4>2. \A v \in Workers : completed[v] = n => v # w
        BY <2>2, <4>1
      <4> QED
        BY <2>1, <2>3, <4>1, <4>2 DEF Counts
    <3> QED
      BY <3>1, <3>2
  <2>10. \A j \in Jobs : doneAt'[j] =< done'
    BY <1>0, <2>1, <2>4
  <2> QED
    BY <2>1, <2>5, <2>6, <2>7, <2>8, <2>9, <2>10 DEF Counts
<1>2. ASSUME NEW w \in Workers, Progress(w) PROVE Counts'
  <2>1. /\ done' = done
        /\ doneAt' = [doneAt EXCEPT ![job[w]] = completed[w]]
        /\ completed' = [completed EXCEPT ![w] = 0]
        /\ pc' = [pc EXCEPT ![w] = "claim"]
    BY <1>2 DEF Progress
  <2>2. job[w] \in Jobs /\ doneAt[job[w]] = 0 /\ completed[w] # 0
    BY <1>2, HeldJob DEF Progress, Claims
  <2>3. \A j \in Jobs : doneAt'[j] = IF j = job[w] THEN completed[w] ELSE doneAt[j]
    BY <2>1
  <2>4. \A v \in Workers : completed'[v] = IF v = w THEN 0 ELSE completed[v]
    BY <2>1
  <2>5. \A v \in Workers : /\ completed'[v] # 0 => pc'[v] \in {"lock", "progress"}
                           /\ completed'[v] =< done'
    BY <1>0, <2>1, <2>4 DEF Counts
  <2>6. \A j \in Jobs : doneAt'[j] =< done'
    BY <2>1, <2>3 DEF Counts
  <2>7. \A u, v \in Workers : completed'[u] = completed'[v] /\ completed'[u] # 0 => u = v
    BY <2>4 DEF Counts
  <2>8. \A j, k \in Jobs : doneAt'[j] = doneAt'[k] /\ doneAt'[j] # 0 => j = k
    BY <2>2, <2>3 DEF Counts
  <2>9. \A v \in Workers, j \in Jobs : completed'[v] # 0 => doneAt'[j] # completed'[v]
    BY <2>3, <2>4 DEF Counts
  <2>10. ASSUME NEW n \in 1..done'
         PROVE  \/ \E v \in Workers : completed'[v] = n
                \/ \E j \in Jobs : doneAt'[j] = n
    <3>1. CASE completed[w] = n
      BY <2>2, <2>3, <3>1
    <3>2. CASE completed[w] # n
      <4>1. \A j \in Jobs : doneAt[j] = n => doneAt'[j] = n
        BY <2>2, <2>3
      <4>2. \A v \in Workers : completed[v] = n => completed'[v] = n
        BY <2>4, <3>2
      <4> QED
        BY <2>1, <4>1, <4>2 DEF Counts
    <3> QED
      BY <3>1, <3>2
  <2> QED
    BY <2>5, <2>6, <2>7, <2>8, <2>9, <2>10 DEF Counts
<1>3. ASSUME UNCHANGED <<done, completed, doneAt>>,
             \A w \in Workers : pc[w] \in {"lock", "progress"} => pc'[w] \in {"lock", "progress"}
      PROVE  Counts'
  BY <1>3 DEF Counts
<1>4. ASSUME NEW w \in Workers, Step(w), ~Count(w), ~Progress(w) PROVE Counts'
  <2>1. UNCHANGED <<done, completed, doneAt>>
    BY <1>4 DEF Step, Claim, Start, Fork, Poll, Lost, Check, Settle, EnterProgress, callVars,
                resultVars
  <2>2. \A v \in Workers : pc[v] \in {"lock", "progress"} => pc'[v] \in {"lock", "progress"}
    BY <1>4 DEF Step, Claim, Start, Fork, Poll, Lost, Check, Settle, EnterProgress
  <2> QED
    BY <1>3, <2>1, <2>2
<1>5. ASSUME NEW j \in Jobs, Child(j) PROVE Counts'
  BY <1>3, <1>5, ChildKeeps DEF callVars, threadVars, resultVars
<1>6. CASE Return \/ Tick \/ UNCHANGED vars
  BY <1>3, <1>6 DEF Return, Tick, vars, callVars, threadVars, resultVars
<1> QED
  BY <1>1, <1>2, <1>4, <1>5, <1>6 DEF Next, Done

\* No step is left to a thread that has exited.
LEMMA JoinedStep ==
  ASSUME IInv, Joined, [Next]_vars
  PROVE  Joined'
<1> USE DEF IInv, TypeOK, ThreadTypes, Goto, Joined, AllJoined
<1>1. ASSUME NEW w \in Workers, Step(w) PROVE Joined'
  <2>1. pc[w] # "exited"
    BY <1>1 DEF Step, Claim, Start, Fork, Poll, Lost, Check, Settle, Count, EnterProgress,
                Progress
  <2>2. returned' = returned
    BY <1>1, StepKeeps
  <2> QED
    BY <2>1, <2>2
<1>2. ASSUME NEW j \in Jobs, Child(j) PROVE Joined'
  BY <1>2, ChildKeeps DEF callVars, threadVars
<1>3. CASE Return \/ Tick \/ UNCHANGED vars
  BY <1>3 DEF Return, Tick, vars, callVars, threadVars
<1> QED
  BY <1>1, <1>2, <1>3 DEF Next, Done

\* What a job that has been reported says does not change any more.
LEMMA ReportedStays ==
  ASSUME IInv, [Next]_vars, NEW j \in Jobs, doneAt[j] # 0
  PROVE  doneAt'[j] # 0 /\ status'[j] = status[j] /\ found'[j] = found[j]
<1> USE DEF IInv
<1>0. (\A w \in Workers : job[w] # j) /\ ~Live(j)
  <2>1. \A w \in Workers : job[w] # j
    BY CountsAssumption DEF Claims, Jobs
  <2> QED
    BY <2>1 DEF Jobwise
<1>1. ASSUME NEW w \in Workers, Step(w)
      PROVE  doneAt'[j] # 0 /\ status'[j] = status[j] /\ found'[j] = found[j]
  <2>1. j # job[w]
    BY <1>0
  <2> QED
    BY <1>1, <2>1, StepFrame, StepKeeps
<1>2. ASSUME NEW k \in Jobs, Child(k)
      PROVE  doneAt'[j] # 0 /\ status'[j] = status[j] /\ found'[j] = found[j]
  <2>1. k # j
    BY <1>0, <1>2, ChildFrame
  <2> QED
    BY <1>2, <2>1, ChildKeeps DEF resultVars
<1>3. CASE Return \/ Tick \/ UNCHANGED vars
  BY <1>3 DEF Return, Tick, vars, resultVars, childVars
<1> QED
  BY <1>1, <1>2, <1>3 DEF Next, Done

\* Only the callback reports a job, and it the one its thread holds.
LEMMA ReportedVerifiedStep ==
  ASSUME IInv, [Next]_vars
  PROVE  /\ UNCHANGED doneAt => Published(ReportedVerified)' = Published(ReportedVerified)
         /\ \A w \in Workers : Progress(w) =>
              Published(ReportedVerified)' =
                Published(ReportedVerified) \cup
                  (IF status[job[w]] = "Verified" THEN {found[job[w]]} ELSE {})
<1>1. ASSUME UNCHANGED doneAt
      PROVE  Published(ReportedVerified)' = Published(ReportedVerified)
  <2>1. ReportedVerified' = ReportedVerified
    BY <1>1, ReportedStays DEF ReportedVerified
  <2>2. \A j \in ReportedVerified : found'[j] = found[j]
    BY ReportedStays DEF ReportedVerified
  <2> QED
    BY <2>1, <2>2 DEF Published
<1>2. ASSUME NEW w \in Workers, Progress(w)
      PROVE  Published(ReportedVerified)' =
               Published(ReportedVerified) \cup
                 (IF status[job[w]] = "Verified" THEN {found[job[w]]} ELSE {})
  <2>1. UNCHANGED <<status, found>> /\ doneAt' = [doneAt EXCEPT ![job[w]] = completed[w]]
    BY <1>2 DEF Progress, childVars
  <2>2. pc[w] = "progress"
    BY <1>2 DEF Progress, Goto
  <2>3. job[w] \in Jobs /\ completed[w] # 0
    BY <2>2, HeldJob DEF IInv, Claims, TypeOK, ThreadTypes
  <2>4. ReportedVerified' =
          ReportedVerified \cup (IF status[job[w]] = "Verified" THEN {job[w]} ELSE {})
    BY <2>1, <2>3 DEF ReportedVerified, IInv, TypeOK, ResultTypes
  <2> QED
    BY <2>1, <2>4 DEF Published
<1> QED
  BY <1>1, <1>2

\* The callback's look-up and insert are one: nobody else is in it.
LEMMA MiningStep ==
  ASSUME IInv, Mining, [Next]_vars
  PROVE  Mining'
<1> USE DEF IInv, TypeOK, ThreadTypes, ResultTypes, Goto
<1>0. mined \subseteq Assertions /\ mutex \in Workers \cup {Nobody} /\ foundThisRound \in Nat
  BY DEF CallTypes
<1>1. ASSUME NEW w \in Workers, Progress(w) PROVE Mining'
  <2> DEFINE verified == status[job[w]] = "Verified"
             new == found[job[w]]
  <2>1. mutex = w /\ snapshot[w] = mined
    BY <1>1 DEF Progress, Mining
  <2>2. mined' = mined \cup (IF verified THEN {new} ELSE {})
    BY <1>1, <2>1 DEF Progress
  <2>3. mined' = MinedBefore \cup Published(ReportedVerified)'
    BY <1>1, <2>2, ReportedVerifiedStep DEF Mining
  <2>4. IsFiniteSet(mined \ MinedBefore)
    <3>1. mined \ MinedBefore \subseteq Published(ReportedVerified)
      BY DEF Mining
    <3>2. IsFiniteSet(ReportedVerified)
      <4>1. IsFiniteSet(Jobs)
        BY CountsAssumption, FS_Interval DEF Jobs
      <4> QED
        BY <4>1, FS_Subset DEF ReportedVerified
    <3>3. IsFiniteSet(Published(ReportedVerified))
      <4> DEFINE f == [j \in ReportedVerified |-> found[j]]
      <4>1. f \in Surjection(ReportedVerified, Published(ReportedVerified))
        BY DEF Surjection, Published
      <4> QED
        BY <3>2, <4>1, FS_Surjection
    <3> QED
      BY <3>1, <3>3, FS_Subset
  <2>5. foundThisRound' = Cardinality(mined' \ MinedBefore)
    <3>1. CASE verified /\ new \notin mined
      <4>1. mined' \ MinedBefore = (mined \ MinedBefore) \cup {new}
        BY <2>2, <3>1 DEF Mining
      <4>2. Cardinality(mined' \ MinedBefore) = Cardinality(mined \ MinedBefore) + 1
        BY <2>4, <3>1, <4>1, FS_AddElement
      <4>3. foundThisRound' = foundThisRound + 1
        BY <1>1, <2>1, <3>1 DEF Progress
      <4> QED
        BY <4>2, <4>3 DEF Mining
    <3>2. CASE ~(verified /\ new \notin mined)
      <4>1. mined' = mined
        BY <2>2, <3>2
      <4>2. foundThisRound' = foundThisRound
        BY <1>1, <2>1, <3>2 DEF Progress
      <4> QED
        BY <4>1, <4>2 DEF Mining
    <3> QED
      BY <3>1, <3>2
  <2>6. \A v \in Workers : pc'[v] # "progress"
    BY <1>1, <2>1 DEF Progress, Mining
  <2> QED
    BY <2>3, <2>5, <2>6 DEF Mining
<1>2. ASSUME UNCHANGED <<mined, foundThisRound, doneAt>>,
             \A v \in Workers : pc'[v] = "progress" => mutex' = v /\ snapshot'[v] = mined
      PROVE  Mining'
  BY <1>2, ReportedVerifiedStep DEF Mining
<1>3. ASSUME NEW w \in Workers, EnterProgress(w) PROVE Mining'
  <2>1. mutex = Nobody /\ mutex' = w /\ snapshot' = [snapshot EXCEPT ![w] = mined]
        /\ pc' = [pc EXCEPT ![w] = "progress"]
    BY <1>3 DEF EnterProgress, LockFree
  <2>2. \A v \in Workers : v # w => pc'[v] # "progress"
    BY <2>1, ValueAssumption DEF Mining
  <2>3. UNCHANGED <<mined, foundThisRound, doneAt>>
    BY <1>3 DEF EnterProgress, resultVars
  <2> QED
    BY <1>2, <2>1, <2>2, <2>3
<1>4. ASSUME NEW w \in Workers, Step(w), ~EnterProgress(w), ~Progress(w) PROVE Mining'
  <2>1. UNCHANGED <<mined, foundThisRound, doneAt, mutex, snapshot>>
    BY <1>4 DEF Step, Claim, Start, Fork, Poll, Lost, Check, Settle, Count, callVars, resultVars
  <2>2. \A v \in Workers : pc'[v] = "progress" => pc[v] = "progress"
    BY <1>4 DEF Step, Claim, Start, Fork, Poll, Lost, Check, Settle, Count
  <2> QED
    BY <1>2, <2>1, <2>2 DEF Mining
<1>5. ASSUME NEW j \in Jobs, Child(j) PROVE Mining'
  BY <1>2, <1>5, ChildKeeps DEF callVars, threadVars, resultVars, Mining
<1>6. CASE Return \/ Tick \/ UNCHANGED vars
  BY <1>2, <1>6 DEF Return, Tick, vars, callVars, threadVars, resultVars, Mining
<1> QED
  BY <1>1, <1>3, <1>4, <1>5, <1>6 DEF Next, Done

\* A block appends its pair after its definition.
LEMMA PairsStep ==
  ASSUME IInv, PairsHaveDefinitions, [Next]_vars
  PROVE  PairsHaveDefinitions'
<1> USE DEF PairsHaveDefinitions
<1>1. ASSUME NEW w \in Workers, Step(w) PROVE PairsHaveDefinitions'
  BY <1>1, StepKeeps DEF IInv
<1>2. ASSUME NEW j \in Jobs, AppendCmp(j) PROVE PairsHaveDefinitions'
  BY <1>2 DEF AppendCmp, IInv, Publishing, Publication
<1>3. ASSUME NEW j \in Jobs, Child(j), ~AppendCmp(j) PROVE PairsHaveDefinitions'
  BY <1>3 DEF Child, ExitWithout, WriteResult, AppendSl, ExitVerified, Crash, diskVars
<1>4. CASE Return \/ Tick \/ UNCHANGED vars
  BY <1>4 DEF Return, Tick, vars, diskVars
<1> QED
  BY <1>1, <1>2, <1>3, <1>4 DEF Next, Done

-----------------------------------------------------------------------------
(* The strengthened invariant, and what follows from it.                    *)

\* The call starts with nothing run, counted or mined.
LEMMA InitResults == Init => RInv
<1> SUFFICES ASSUME Init PROVE RInv
  OBVIOUS
<1> USE DEF Init
<1>1. Statuses /\ FilesHeld /\ Meanings
  BY DEF Statuses, Assigned, FilesHeld, FileHeld, Meanings, Meaning
<1>2. Counts /\ Joined /\ PairsHaveDefinitions
  BY DEF Counts, Joined, PairsHaveDefinitions
<1>3. Mining
  <2>1. ReportedVerified = {}
    BY DEF ReportedVerified
  <2>2. mined = MinedBefore \cup Published(ReportedVerified)
    BY <2>1 DEF Published
  <2>3. Cardinality(mined \ MinedBefore) = 0
    BY FS_EmptySet
  <2> QED
    BY <2>2, <2>3 DEF Mining
<1> QED
  BY <1>1, <1>2, <1>3 DEF RInv

\* The strengthened invariant holds in every behaviour.
THEOREM InductiveResults == Safety => [](IInv /\ RInv)
<1>1. IInv /\ RInv /\ [Next]_vars => RInv'
  BY StatusesStep, FilesHeldStep, MeaningsStep, CountsStep, JoinedStep, MiningStep, PairsStep
  DEF RInv
<1> QED
  BY <1>1, InitResults, Inductive, PTL DEF Safety

\* When the call has returned, every job has been reported.
LEMMA AllReported ==
  ASSUME IInv, RInv, returned
  PROVE  \A j \in Jobs : doneAt[j] # 0 /\ \A w \in Workers : job[w] # j
<1> SUFFICES ASSUME NEW j \in Jobs PROVE doneAt[j] # 0 /\ \A w \in Workers : job[w] # j
  OBVIOUS
<1>1. PICK w \in Workers : TRUE
  <2>1. Cardinality(Workers) # 0
    BY CountsAssumption DEF PoolSize
  <2> QED
    BY <2>1, FS_EmptySet
<1>2. \A v \in Workers : pc[v] = "exited"
  BY DEF RInv, Joined, AllJoined
<1>3. \A v \in Workers : job[v] # j
  BY <1>2, CountsAssumption DEF IInv, Claims, Jobs
<1>4. j < next
  BY <1>1, <1>2, CountsAssumption DEF IInv, Claims, TypeOK, CallTypes, Jobs
<1> QED
  BY <1>3, <1>4 DEF IInv, Jobwise

\* After the call the only result files without a Verified job are those of
\* blocks that could not be waited for.
THEOREM ResultsClean == Safety => []CleanResults
<1>1. IInv /\ RInv => CleanResults
  BY AllReported DEF RInv, FilesHeld, FileHeld, CleanResults
<1> QED
  BY <1>1, InductiveResults, PTL

\* The callback gets each count from 1 to the number of jobs once: its counts are
\* distinct and fill 1..done, and there are as many of them as jobs.
THEOREM CountsDistinct == Safety => []EveryCountOnce
<1>1. IInv /\ RInv => EveryCountOnce
  <2> SUFFICES ASSUME IInv, RInv, returned, NEW n \in Jobs
               PROVE  \E j \in Jobs : doneAt[j] = n /\ \A k \in Jobs \ {j} : doneAt[k] # n
    BY DEF EveryCountOnce
  <2> USE DEF IInv, TypeOK, CallTypes, ThreadTypes, ResultTypes
  <2>1. \A j \in Jobs : doneAt[j] \in 1..done
    BY AllReported DEF RInv, Counts
  <2>2. \A w \in Workers : completed[w] = 0
    BY DEF RInv, Joined, AllJoined, Counts
  <2>3. \A m \in 1..done : \E j \in Jobs : doneAt[j] = m
    BY <2>2 DEF RInv, Counts
  <2>4. \A j, k \in Jobs : doneAt[j] = doneAt[k] => j = k
    BY AllReported DEF RInv, Counts
  <2>5. done = NJobs
    <3>1. ExistsBijection(Jobs, 1..done)
      <4>1. doneAt \in Bijection(Jobs, 1..done)
        BY <2>1, <2>3, <2>4 DEF Bijection, Injection, Surjection, IsInjective
      <4> QED
        BY <4>1 DEF ExistsBijection
    <3>2. IsFiniteSet(Jobs) /\ Cardinality(Jobs) = NJobs
      BY CountsAssumption, FS_Interval DEF Jobs
    <3>3. done \in Nat /\ Cardinality(1..done) = done
      BY FS_Interval
    <3> QED
      BY CountsAssumption, <3>1, <3>2, <3>3, FS_Bijection
  <2>6. PICK j \in Jobs : doneAt[j] = n
    BY <2>3, <2>5 DEF Jobs
  <2> QED
    BY <2>4, <2>6
<1> QED
  BY <1>1, InductiveResults, PTL

\* What Pipeline takes as the effect of a round is what the call has done, unless
\* a write failed: the contract the two modules share.
THEOREM ContractMet == Safety => []RoundContractMet
<1>1. IInv /\ RInv => RoundContractMet
  <2> SUFFICES ASSUME IInv, RInv, returned, ~WritesMayFail
               PROVE  RoundOutcome(MinedBefore, mined, foundThisRound,
                        Published(VerifiedJobs), Published(sl), Published(cmp))
    BY DEF RoundContractMet
  <2>1. VerifiedJobs = ReportedVerified
    BY AllReported DEF VerifiedJobs, ReportedVerified
  <2>2. mined = MinedBefore \cup Published(VerifiedJobs)
    BY <2>1 DEF RInv, Mining
  <2>3. foundThisRound = Cardinality(Published(VerifiedJobs) \ MinedBefore)
    <3>1. mined \ MinedBefore = Published(VerifiedJobs) \ MinedBefore
      BY <2>2
    <3> QED
      BY <3>1 DEF RInv, Mining
  <2>4. Published(VerifiedJobs) \subseteq Published(cmp)
    BY DEF IInv, Publishing, Publication, VerifiedJobs, Published
  <2>5. Published(cmp) \subseteq Published(sl)
    BY DEF RInv, PairsHaveDefinitions, Published
  <2> QED
    BY <2>2, <2>3, <2>4, <2>5 DEF RoundOutcome
<1> QED
  BY <1>1, InductiveResults, PTL

\* The log says "verified" only of a Verified job, of one whose block never ran or
\* vanished, and of one that was timed out after it had published.
THEOREM ReasonExplained == Safety => []VerifiedReasonExplained
<1>1. IInv /\ RInv => VerifiedReasonExplained
  <2> SUFFICES ASSUME IInv, RInv, ~WritesMayFail,
                      NEW j \in Jobs, doneAt[j] # 0, Reason(j) = "verified"
               PROVE  \/ status[j] = "Verified"
                      \/ block[j] \in {"none", "vanished"}
                      \/ status[j] = "TimedOut" /\ j \in sl \cap cmp
    BY DEF VerifiedReasonExplained
  <2>1. exitCode[j] \in {-1, 0, 1, 127, 255}
    BY DEF IInv, TypeOK, ResultTypes, ExitCodes
  <2>2. exitCode[j] = 0
    BY <2>1 DEF Reason
  <2>3. status[j] \in {"Verified", "NoAssertion", "TimedOut", "Failed"}
    BY DEF RInv, Statuses, IInv, TypeOK, ResultTypes
  <2> QED
    BY <2>2, <2>3 DEF RInv, Meanings, Meaning
<1> QED
  BY <1>1, InductiveResults, PTL
=============================================================================
