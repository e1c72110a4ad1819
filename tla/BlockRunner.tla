----------------------------- MODULE BlockRunner -----------------------------
(***************************************************************************)
(* One call of runBlocks (pipeline/BlockRunner.cpp): a pool of threads     *)
(* claims jobs from a shared counter, forks one child process per job,     *)
(* polls it, kills it at its deadline, classifies the outcome and hands it *)
(* to the progress callback of Pipeline::run.  The child is runSmartBlock  *)
(* (smart.cpp); of it this module keeps what the parent and the files in   *)
(* the workdir can see: when it ends, with which code, and how far it got  *)
(* in publishing its assertion (result file, SygusResult.sl,               *)
(* CompareResult.txt, in that order and without any lock).                 *)
(*                                                                         *)
(* Abstracted: the poll period, log files, the survivedKill diagnostic,    *)
(* and the text of assertions.  Clock readings are ticks of `now`.         *)
(***************************************************************************)
EXTENDS Integers, FiniteSets, RoundContract

CONSTANTS
  NJobs,         \* jobs.size()
  MaxJobs,       \* options.jobs
  Workers,       \* the pool's threads
  Assertions,    \* what blocks may synthesise
  Deadline,      \* the run's deadline, in ticks
  CoreTimeout,   \* options.coreTimeoutSeconds, in ticks
  MaxClock,      \* bound: the clock stops here
  FailureCodes,  \* the codes with which blocks that verify nothing exit
  MinedBefore,   \* what earlier rounds have mined
  WritesMayFail, \* may a block's file write fail (disk full)?
  SigchldIgnored,\* was SIGCHLD inherited as ignored, so children vanish?
  Nobody,        \* "no thread"
  Nothing        \* "no assertion"

Jobs == 1..NJobs

\* How many threads the call creates: max(1, min(options.jobs, jobs.size())).
PoolSize ==
  IF MaxJobs < 1 \/ NJobs < 1 THEN 1
  ELSE IF MaxJobs < NJobs THEN MaxJobs ELSE NJobs

ASSUME CountsAssumption ==
  /\ NJobs \in Nat
  /\ MaxJobs \in Int
  /\ IsFiniteSet(Workers)
  /\ Cardinality(Workers) = PoolSize

ASSUME ClockAssumption ==
  /\ Deadline \in Nat
  /\ CoreTimeout \in Nat
  /\ MaxClock \in Nat
  /\ Deadline =< MaxClock

ASSUME ValueAssumption ==
  /\ Nobody \notin Workers
  /\ Nothing \notin Assertions
  /\ MinedBefore \subseteq Assertions
  /\ FailureCodes \subseteq {1, 127, 255}
  /\ WritesMayFail \in BOOLEAN
  /\ SigchldIgnored \in BOOLEAN

VARIABLES
  now,            \* the steady clock
  next, done,     \* the two atomic counters
  mutex,          \* the thread that holds progressMutex
  mined,          \* Pipeline::run's set of mined assertions
  foundThisRound, \* Pipeline::run's count of new ones
  returned,       \* has runBlocks joined its threads and returned?
  pc,             \* where each thread is
  job,            \* the job a thread has claimed, 0 when none
  blockDeadline,  \* the deadline of that job
  completed,      \* the thread's value of `completed`
  snapshot,       \* `mined` as the thread found it when it entered progress
  status,         \* results[j].status, "none" before it is assigned
  exitCode,       \* results[j].exitCode
  doneAt,         \* the `done` the callback got for job j, 0 before
  block,          \* the child of job j
  ended,          \* the child's wait status, once it has ended
  found,          \* the assertion the child verified
  resultFile,     \* result_<core>.txt
  sl,             \* jobs whose definition is in SygusResult.sl
  cmp             \* jobs whose pair is in CompareResult.txt

callVars    == <<next, done, mutex, mined, foundThisRound, returned>>
threadVars  == <<pc, job, blockDeadline, completed, snapshot>>
resultVars  == <<status, exitCode, doneAt>>
childVars   == <<block, ended, found>>
diskVars    == <<resultFile, sl, cmp>>

vars == <<now, callVars, threadVars, resultVars, childVars, diskVars>>

Alive      == {"running", "wroteResult", "appendedSl", "appendedCmp"}
ExitCodes  == {-1, 0, 1, 127, 255}
ThreadPcs  == {"claim", "start", "fork", "poll", "check", "settle", "count",
               "lock", "progress", "exited"}

\* The definitions (as the assertions they stand for) on disk from this call.
Published(S) == {found[j] : j \in S}

Init ==
  /\ now = 0 /\ next = 1 /\ done = 0
  /\ mutex = Nobody
  /\ mined = MinedBefore
  /\ foundThisRound = 0
  /\ returned = FALSE
  /\ pc = [w \in Workers |-> "claim"]
  /\ job = [w \in Workers |-> 0]
  /\ blockDeadline = [w \in Workers |-> 0]
  /\ completed = [w \in Workers |-> 0]
  /\ snapshot = [w \in Workers |-> {}]
  /\ status = [j \in Jobs |-> "none"]
  /\ exitCode = [j \in Jobs |-> 0]
  /\ doneAt = [j \in Jobs |-> 0]
  /\ block = [j \in Jobs |-> "none"]
  /\ ended = [j \in Jobs |-> 0]
  /\ found = [j \in Jobs |-> Nothing]
  /\ resultFile = [j \in Jobs |-> "absent"]
  /\ sl = {} /\ cmp = {}

-----------------------------------------------------------------------------
(* The pool's threads.                                                     *)

Goto(w, from, to) == pc[w] = from /\ pc' = [pc EXCEPT ![w] = to]

\* Slip: the claim reads the counter without advancing it.
LoadOnly == next
\* next.fetch_add(1).
Advanced == next + 1

\* Slip: off by one in the test for the last job.
ExhaustedLate == next > NJobs + 1
\* index >= jobs.size(): no job is left to claim.
Exhausted == next > NJobs

\* Take the next index; leave the loop when there is none.
Claim(w) ==
  /\ \/ Exhausted /\ Goto(w, "claim", "exited") /\ UNCHANGED job
     \/ /\ ~Exhausted
        /\ Goto(w, "claim", "start")
        /\ job' = [job EXCEPT ![w] = next]
  /\ next' = Advanced
  /\ UNCHANGED <<now, done, mutex, mined, foundThisRound, returned,
                 blockDeadline, completed, snapshot>>
  /\ UNCHANGED <<resultVars, childVars, diskVars>>

\* Read the clock once: past the run's deadline the job is TimedOut without
\* being run, else its own deadline is fixed.
Start(w) ==
  LET own == now + CoreTimeout IN
  /\ \/ /\ now >= Deadline
        /\ Goto(w, "start", "count")
        /\ status' = [status EXCEPT ![job[w]] = "TimedOut"]
        /\ UNCHANGED blockDeadline
     \/ /\ now < Deadline
        /\ Goto(w, "start", "fork")
        /\ blockDeadline' =
             [blockDeadline EXCEPT ![w] = IF own < Deadline THEN own ELSE Deadline]
        /\ UNCHANGED status
  /\ UNCHANGED <<now, job, completed, snapshot, exitCode, doneAt>>
  /\ UNCHANGED <<callVars, childVars, diskVars>>

\* fork() succeeds, or fails and the job is Failed.
Fork(w) ==
  /\ \/ /\ Goto(w, "fork", "poll")
        /\ block' = [block EXCEPT ![job[w]] = "running"]
        /\ UNCHANGED status
     \/ /\ Goto(w, "fork", "count")
        /\ status' = [status EXCEPT ![job[w]] = "Failed"]
        /\ UNCHANGED block
  /\ UNCHANGED <<now, job, blockDeadline, completed, snapshot>>
  /\ UNCHANGED <<exitCode, doneAt, ended, found>>
  /\ UNCHANGED <<callVars, diskVars>>

\* Slip: waited <= 0 for waited < 0, so a living child passes for a lost one.
NotYetEnded(j) == block[j] # "zombie"
\* waitpid fails: there is no such child any more.
Lost(j) == block[j] = "vanished"

\* waitpid(WNOHANG): not ended yet; ended, and reaped; or an error because the
\* child vanished, where the job is Failed and its files are left alone.
Poll(w) ==
  LET j == job[w] IN
  /\ \/ /\ Goto(w, "poll", "check")
        /\ block[j] \in Alive
        /\ UNCHANGED <<block, status, exitCode>>
     \/ /\ Goto(w, "poll", "settle")
        /\ block[j] = "zombie"
        /\ block' = [block EXCEPT ![j] = "reaped"]
        /\ exitCode' = [exitCode EXCEPT ![j] = ended[j]]
        /\ UNCHANGED status
     \/ /\ Goto(w, "poll", "count")
        /\ Lost(j)
        /\ status' = [status EXCEPT ![j] = "Failed"]
        /\ UNCHANGED <<block, exitCode>>
  /\ UNCHANGED <<now, job, blockDeadline, completed, snapshot>>
  /\ UNCHANGED <<doneAt, ended, found>>
  /\ UNCHANGED <<callVars, diskVars>>

\* Slips in the deadline test: it never fires; it fires without a kill.
NeverExpires(w) == FALSE
\* steady_clock::now() >= blockDeadline.
Expired(w) == now >= blockDeadline[w]

\* Slip: the kill is sent but the child is not waited for.
SignalOnly(j) == block[j]
\* What kill(-pid, SIGKILL) and waitpid leave of child j: a child that ended
\* between the poll and the kill keeps its own exit status.
AfterKill(j) ==
  IF block[j] = "zombie" THEN "reaped"
  ELSE IF SigchldIgnored THEN "vanished" ELSE "reaped"

\* Slip: the status is not read after the kill.
StatusUnset(j) == IF block[j] = "zombie" THEN ended[j] ELSE 0
\* The wait status waitpid stores; it stores none for a child that vanishes.
WaitStatus(j) ==
  IF AfterKill(j) = "vanished" THEN 0
  ELSE IF block[j] = "zombie" THEN ended[j] ELSE -1

\* The clock test of the poll loop, after the poll found the child alive: kill
\* the group and wait for the child, or poll again.  The local `timedOut` is
\* the TimedOut already in `status`.
Check(w) ==
  LET j == job[w] IN
  /\ \/ /\ Goto(w, "check", "poll")
        /\ ~Expired(w)
        /\ UNCHANGED <<block, ended, status, exitCode>>
     \/ /\ Goto(w, "check", "settle")
        /\ Expired(w)
        /\ block' = [block EXCEPT ![j] = AfterKill(j)]
        /\ ended' = [ended EXCEPT ![j] = WaitStatus(j)]
        /\ exitCode' = [exitCode EXCEPT ![j] = WaitStatus(j)]
        /\ status' = [status EXCEPT ![j] = "TimedOut"]
  /\ UNCHANGED <<now, job, blockDeadline, completed, snapshot>>
  /\ UNCHANGED <<doneAt, found>>
  /\ UNCHANGED <<callVars, diskVars>>

\* Slip: believe the result file, whatever the exit code.
ClassifyByFile(j) ==
  IF status[j] = "TimedOut" THEN "TimedOut"
  ELSE IF resultFile[j] = "full" THEN "Verified" ELSE "NoAssertion"
\* Exit 0 with a non-empty result file is the only Verified.
Classify(j) ==
  IF status[j] = "TimedOut" THEN "TimedOut"
  ELSE IF exitCode[j] = 0 /\ resultFile[j] = "full" THEN "Verified"
  ELSE "NoAssertion"

\* Slip: a killed block's result file is left behind.
FileKeptOnKill(j) == IF exitCode[j] < 0 THEN resultFile[j] ELSE "absent"
\* What is left of the result file: it is removed unless the job is Verified.
FileLeft(j) == IF Classify(j) = "Verified" THEN resultFile[j] ELSE "absent"

\* Classify the outcome; remove the result file unless Verified.
Settle(w) ==
  LET j == job[w] IN
  /\ Goto(w, "settle", "count")
  /\ status' = [status EXCEPT ![j] = Classify(j)]
  /\ resultFile' = [resultFile EXCEPT ![j] = FileLeft(j)]
  /\ UNCHANGED <<now, job, blockDeadline, completed, snapshot>>
  /\ UNCHANGED <<exitCode, doneAt, sl, cmp>>
  /\ UNCHANGED <<callVars, childVars>>

\* Slip: `completed` is the counter before the increment.
CountBefore == done
\* done.fetch_add(1) + 1.
CountAfter == done + 1

\* Taken before the lock, so callbacks may see their counts out of order.
Count(w) ==
  /\ Goto(w, "count", "lock")
  /\ done' = done + 1
  /\ completed' = [completed EXCEPT ![w] = CountAfter]
  /\ UNCHANGED <<now, next, mutex, mined, foundThisRound, returned,
                 job, blockDeadline, snapshot>>
  /\ UNCHANGED <<resultVars, childVars, diskVars>>

\* Slip: progress is called without the lock.
Unlocked == TRUE
\* progressMutex can be taken.
LockFree == mutex = Nobody

\* Take the lock and enter the callback, whose std::set insert first looks
\* `mined` up and then writes it.
EnterProgress(w) ==
  /\ LockFree
  /\ Goto(w, "lock", "progress")
  /\ mutex' = w
  /\ snapshot' = [snapshot EXCEPT ![w] = mined]
  /\ UNCHANGED <<now, next, done, mined, foundThisRound, returned,
                 job, blockDeadline, completed>>
  /\ UNCHANGED <<resultVars, childVars, diskVars>>

\* The callback's effect and the unlock; the thread's locals go out of scope.
Progress(w) ==
  LET j == job[w]
      verified == status[j] = "Verified"
      fresh == verified /\ found[j] \notin snapshot[w]
  IN
  /\ Goto(w, "progress", "claim")
  /\ mined' = IF verified THEN snapshot[w] \cup {found[j]} ELSE mined
  /\ foundThisRound' = IF fresh THEN foundThisRound + 1 ELSE foundThisRound
  /\ doneAt' = [doneAt EXCEPT ![j] = completed[w]]
  /\ mutex' = Nobody
  /\ job' = [job EXCEPT ![w] = 0]
  /\ blockDeadline' = [blockDeadline EXCEPT ![w] = 0]
  /\ completed' = [completed EXCEPT ![w] = 0]
  /\ snapshot' = [snapshot EXCEPT ![w] = {}]
  /\ UNCHANGED <<now, next, done, returned, status, exitCode>>
  /\ UNCHANGED <<childVars, diskVars>>

\* Slip: return as soon as every job is counted, without the join.
AllCounted == done >= NJobs
\* Every thread has left its loop.
AllJoined == \A w \in Workers : pc[w] = "exited"

\* The caller joins the threads and returns.
Return ==
  /\ ~returned
  /\ AllJoined
  /\ returned' = TRUE
  /\ UNCHANGED <<now, next, done, mutex, mined, foundThisRound>>
  /\ UNCHANGED <<threadVars, resultVars, childVars, diskVars>>

Step(w) ==
  \/ Claim(w) \/ Start(w) \/ Fork(w) \/ Poll(w) \/ Check(w)
  \/ Settle(w) \/ Count(w) \/ EnterProgress(w) \/ Progress(w)

-----------------------------------------------------------------------------
(* The child process of job j: runSmartBlock, as the parent sees it.       *)

parentVars == <<now, callVars, threadVars, resultVars>>

\* The child ends with `code`; with SIGCHLD ignored nothing is left to reap.
EndWith(j, code) ==
  /\ block' = [block EXCEPT ![j] = IF SigchldIgnored THEN "vanished" ELSE "zombie"]
  /\ ended' = [ended EXCEPT ![j] = code]

\* Nothing was verified: 1 refuted, 255 infeasible, 127 never set up.
ExitWithout(j) ==
  /\ block[j] = "running"
  /\ \E code \in FailureCodes : EndWith(j, code)
  /\ UNCHANGED <<found, diskVars, parentVars>>

\* Verified: (over)write the result file; a failed write goes unnoticed.
WriteResult(j) ==
  /\ block[j] = "running"
  /\ block' = [block EXCEPT ![j] = "wroteResult"]
  /\ \E a \in Assertions : found' = [found EXCEPT ![j] = a]
  /\ \/ resultFile' = [resultFile EXCEPT ![j] = "full"]
     \/ WritesMayFail /\ UNCHANGED resultFile
  /\ UNCHANGED <<ended, sl, cmp, parentVars>>

\* Append the definition to SygusResult.sl.
AppendSl(j) ==
  /\ block[j] = "wroteResult"
  /\ block' = [block EXCEPT ![j] = "appendedSl"]
  /\ \/ sl' = sl \cup {j}
     \/ WritesMayFail /\ UNCHANGED sl
  /\ UNCHANGED <<ended, found, resultFile, cmp, parentVars>>

\* Append the assertion and its definition to CompareResult.txt.
AppendCmp(j) ==
  /\ block[j] = "appendedSl"
  /\ block' = [block EXCEPT ![j] = "appendedCmp"]
  /\ \/ cmp' = cmp \cup {j}
     \/ WritesMayFail /\ UNCHANGED cmp
  /\ UNCHANGED <<ended, found, resultFile, sl, parentVars>>

\* Log, remove the scratch directory, exit 0.
ExitVerified(j) ==
  /\ block[j] = "appendedCmp"
  /\ EndWith(j, 0)
  /\ UNCHANGED <<found, diskVars, parentVars>>

\* A signal other than the parent's (a crash, the OOM killer) ends the child.
Crash(j) ==
  /\ block[j] \in Alive
  /\ EndWith(j, -1)
  /\ UNCHANGED <<found, diskVars, parentVars>>

Child(j) ==
  \/ ExitWithout(j) \/ WriteResult(j) \/ AppendSl(j) \/ AppendCmp(j)
  \/ ExitVerified(j) \/ Crash(j)

\* Time passes, up to the bound.
Tick ==
  /\ now < MaxClock
  /\ now' = now + 1
  /\ UNCHANGED <<callVars, threadVars, resultVars, childVars, diskVars>>

\* Nothing is left to do: the call has returned.
Done == returned /\ UNCHANGED vars

Next ==
  \/ \E w \in Workers : Step(w)
  \/ \E j \in Jobs : Child(j)
  \/ Return
  \/ Tick
  \/ Done

\* Threads are scheduled, time passes, and the caller joins.  A child owes
\* nothing: it may hang for ever inside cvc5 or EBMC.
Fairness ==
  /\ \A w \in Workers : WF_vars(Step(w))
  /\ WF_vars(Return)
  /\ WF_vars(Tick)

Safety == Init /\ [][Next]_vars

Spec == Safety /\ Fairness

-----------------------------------------------------------------------------
(* Properties.                                                             *)

CallTypes ==
  /\ next \in Nat \ {0} /\ done \in Nat
  /\ mutex \in Workers \cup {Nobody}
  /\ mined \subseteq Assertions
  /\ foundThisRound \in Nat
  /\ returned \in BOOLEAN

ThreadTypes ==
  /\ pc \in [Workers -> ThreadPcs]
  /\ job \in [Workers -> Jobs \cup {0}]
  /\ blockDeadline \in [Workers -> 0..MaxClock]
  /\ completed \in [Workers -> Nat]
  /\ snapshot \in [Workers -> SUBSET Assertions]

ResultTypes ==
  /\ status \in [Jobs -> {"none", "Verified", "NoAssertion", "TimedOut", "Failed"}]
  /\ exitCode \in [Jobs -> ExitCodes]
  /\ doneAt \in [Jobs -> Nat]

ChildTypes ==
  /\ block \in [Jobs -> Alive \cup {"none", "zombie", "reaped", "vanished"}]
  /\ ended \in [Jobs -> ExitCodes]
  /\ found \in [Jobs -> Assertions \cup {Nothing}]

DiskTypes ==
  /\ resultFile \in [Jobs -> {"absent", "full"}]
  /\ sl \subseteq Jobs /\ cmp \subseteq Jobs

\* The type invariant of every variable; in particular no thread ever holds an
\* index beyond the last job.
TypeOK ==
  now \in 0..MaxClock /\ CallTypes /\ ThreadTypes /\ ResultTypes /\ ChildTypes /\ DiskTypes

\* "Run every job, at most `jobs` at a time" (BlockRunner.h:60): however
\* claims, kills and exits interleave, no more than options.jobs children are
\* alive.
AtMostJobs ==
  Cardinality({j \in Jobs : block[j] \in Alive})
    =< IF MaxJobs < 1 THEN 1 ELSE MaxJobs

\* Once the callback has seen a job's result its child is gone for good, so
\* nothing appends to the workdir's files after the call returns, when the
\* minimisers rewrite SygusResult.sl in place.
ReportedIsDead ==
  \A j \in Jobs : doneAt[j] # 0 => block[j] \in {"none", "reaped", "vanished"}

\* A Verified job's assertion is on disk in all three places, unless a write
\* failed: the end minimiser can map every mined assertion to a definition.
VerifiedIsPublished ==
  ~WritesMayFail =>
    \A j \in Jobs : status[j] = "Verified" =>
      /\ found[j] \in Assertions
      /\ resultFile[j] = "full"
      /\ j \in sl /\ j \in cmp

\* After the call only Verified jobs have a result file on disk; the one
\* exception is the error return of waitpid, which skips the removal.
CleanResults ==
  returned => \A j \in Jobs :
    resultFile[j] = "full" => status[j] = "Verified" \/ block[j] = "vanished"

\* The counts given to the callback are 1..total, each once, although they are
\* taken outside the lock and may arrive out of order.
EveryCountOnce ==
  returned => \A n \in Jobs : \E j \in Jobs :
    doneAt[j] = n /\ \A k \in Jobs \ {j} : doneAt[k] # n

VerifiedJobs == {j \in Jobs : status[j] = "Verified"}

\* What Pipeline::run relies on after the call: mined grew by exactly the
\* verified assertions, foundThisRound counts those not mined before (the stop
\* rules read it), and each of them is in both files of definitions.
RoundContractMet ==
  returned /\ ~WritesMayFail =>
    RoundOutcome(MinedBefore, mined, foundThisRound, Published(VerifiedJobs),
                 Published(sl), Published(cmp))

\* The state of the abstract pool.
WaitingJobs  == {j \in Jobs : j >= next}
RunningJobs  == {job[w] : w \in Workers} \ {0}
ReportedJobs == {j \in Jobs : doneAt[j] # 0}

Pool == INSTANCE JobPool WITH
  Limit <- PoolSize, waiting <- WaitingJobs, running <- RunningJobs,
  reported <- ReportedJobs, returned <- returned

\* runBlocks implements the abstract pool: every job begun once, reported
\* once, at most PoolSize at a time, no return before the last report.
PoolSafety == Pool!Safety

\* ... and it does return, though a child may hang for ever: the deadline
\* ends it.
PoolSpec == Pool!Spec

\* The `reason` the callback logs for a job (Pipeline.cpp:621-627).
Reason(j) ==
  CASE exitCode[j] = 0   -> "verified"
    [] exitCode[j] = 1   -> "refuted"
    [] exitCode[j] = 255 -> "infeasible"
    [] exitCode[j] = 127 -> "setup-failed"
    [] exitCode[j] < 0   -> "killed"
    [] OTHER             -> "other"

\* The log says "verified" of a job that is Verified, of one that never ran (its
\* exitCode keeps the default 0), of one that cannot be waited for, or of one
\* that published its assertion and exited between the last poll and the kill:
\* it is TimedOut, and what it verified is not mined.
VerifiedReasonExplained ==
  ~WritesMayFail =>
    \A j \in Jobs : doneAt[j] # 0 /\ Reason(j) = "verified" =>
      \/ status[j] = "Verified"
      \/ block[j] \in {"none", "vanished"}
      \/ status[j] = "TimedOut" /\ j \in sl \cap cmp
=============================================================================
