------------------------------ MODULE FinalGate ------------------------------
(***************************************************************************)
(* One call of checkAssertions (emit/AssertionWriter.cpp): a pool of       *)
(* threads re-proves every assertion against the original design, each in  *)
(* an EBMC process of its own with a time limit, and turns the outcome     *)
(* into a CheckStatus.  Only Verified assertions are emitted.              *)
(*                                                                         *)
(* Abstracted: the text of the scratch copies, the poll period, timings.   *)
(* A deadline is kept as the ticks left before it.                         *)
(***************************************************************************)
EXTENDS Integers, FiniteSets

CONSTANTS
  NJobs,          \* assertions.size(), not 0: an empty call returns at once
  MaxJobs,        \* options.jobs
  Workers,        \* the pool's threads
  Timeout         \* options.timeoutSeconds, in ticks

Jobs == 1..NJobs

\* How many threads the call creates: max(1, min(jobs, assertions.size())).
PoolSize == IF MaxJobs < 1 THEN 1 ELSE IF MaxJobs < NJobs THEN MaxJobs ELSE NJobs

ASSUME CountsAssumption ==
  /\ NJobs \in Nat \ {0}
  /\ MaxJobs \in Int
  /\ IsFiniteSet(Workers)
  /\ Cardinality(Workers) = PoolSize

ASSUME TimeoutAssumption == Timeout \in Nat

VARIABLES
  ignored,   \* was SIGCHLD inherited as ignored, so that checkers vanish?
  next,      \* the atomic counter
  returned,  \* has checkAssertions joined its threads and returned?
  pc,        \* where each thread is
  job,       \* the assertion a thread works on, 0 when none
  left,      \* ticks left before its checker is killed
  outcome,   \* what runWithTimeout returned to it
  status,    \* results[j].status; the default is "Error"
  settled,   \* assertions whose status is final
  copy,      \* the scratch copy of the design with assertion j
  checker,   \* the process that checks j
  ended      \* its exit code once it has ended, -1 for a signal

threadVars  == <<pc, job, left, outcome>>
resultVars  == <<status, settled, copy>>
checkerVars == <<checker, ended>>

vars == <<ignored, next, returned, threadVars, resultVars, checkerVars>>

ThreadPcs == {"claim", "write", "fork", "poll", "check", "judge", "exited"}

Init ==
  /\ ignored \in BOOLEAN
  /\ next = 1 /\ returned = FALSE
  /\ pc = [w \in Workers |-> "claim"]
  /\ job = [w \in Workers |-> 0]
  /\ left = [w \in Workers |-> 0]
  /\ outcome = [w \in Workers |-> 0]
  /\ status = [j \in Jobs |-> "Error"]
  /\ settled = {}
  /\ copy = [j \in Jobs |-> "none"]
  /\ checker = [j \in Jobs |-> "none"]
  /\ ended = [j \in Jobs |-> 0]

Goto(w, from, to) == pc[w] = from /\ pc' = [pc EXCEPT ![w] = to]

-----------------------------------------------------------------------------

\* Slip: the claim reads the counter without advancing it.
LoadOnly == next
\* next.fetch_add(1).
Advanced == next + 1

\* Slip: a thread that finds no index left asks again.
NeverLeaves(w) == Goto(w, "claim", "claim")
\* A thread that finds no index left leaves the loop.
Leave(w) == Goto(w, "claim", "exited")

\* Take the next index; leave the loop when there is none.
Claim(w) ==
  /\ \/ next > NJobs /\ Leave(w) /\ UNCHANGED job
     \/ /\ next =< NJobs
        /\ Goto(w, "claim", "write")
        /\ job' = [job EXCEPT ![w] = next]
  /\ next' = Advanced
  /\ UNCHANGED <<ignored, returned, left, outcome, resultVars, checkerVars>>

\* Write the copy, which may fail unnoticed; an exception on the way makes the
\* result an Error.
Write(w) ==
  /\ \/ Goto(w, "write", "fork") /\ UNCHANGED outcome
     \/ Goto(w, "write", "judge") /\ outcome' = [outcome EXCEPT ![w] = -2]
  /\ \/ copy' = [copy EXCEPT ![job[w]] = "written"]
     \/ UNCHANGED copy
  /\ UNCHANGED <<ignored, next, returned, job, left, status, settled, checkerVars>>

\* fork() fails, or the checker runs and its deadline is fixed.
Fork(w) ==
  /\ \/ /\ Goto(w, "fork", "judge")
        /\ outcome' = [outcome EXCEPT ![w] = -2]
        /\ UNCHANGED <<left, checker>>
     \/ /\ Goto(w, "fork", "poll")
        /\ left' = [left EXCEPT ![w] = Timeout]
        /\ checker' = [checker EXCEPT ![job[w]] = "running"]
        /\ UNCHANGED outcome
  /\ UNCHANGED <<ignored, next, returned, job, resultVars, ended>>

\* Slip: without a status from waitpid, the zero it was initialised with.
InitialStatus(j) == IF ended[j] >= 0 THEN ended[j] ELSE 0
\* The exit code of a checker that was waited for; -2 after a signal.
ExitCode(j) ==
  IF checker[j] = "zombie" /\ ended[j] >= 0 THEN ended[j] ELSE -2

\* waitpid(WNOHANG): still running; ended; or an error, for one that vanished.
Poll(w) ==
  LET j == job[w] IN
  /\ \/ /\ Goto(w, "poll", "check")
        /\ checker[j] = "running"
        /\ UNCHANGED <<checker, outcome>>
     \/ /\ Goto(w, "poll", "judge")
        /\ checker[j] \in {"zombie", "vanished"}
        /\ outcome' = [outcome EXCEPT ![w] = ExitCode(j)]
        /\ checker' =
             [checker EXCEPT ![j] = IF checker[j] = "zombie" THEN "reaped" ELSE "vanished"]
  /\ UNCHANGED <<ignored, next, returned, job, left, resultVars, ended>>

\* Slip: the deadline never fires.
NeverExpires(w) == FALSE
\* steady_clock::now() >= deadline.
Expired(w) == left[w] = 0

\* Slip: the kill is sent but the checker is not waited for.
SignalOnly(j) == checker[j]
\* What kill(-pid, SIGKILL) and waitpid leave of the checker.
AfterKill(j) ==
  IF ignored THEN "vanished" ELSE "reaped"

\* Kill the checker at its deadline and report -1, whatever waitpid says of
\* one that ended meanwhile; or poll again.
Check(w) ==
  LET j == job[w] IN
  /\ \/ /\ Goto(w, "check", "poll")
        /\ ~Expired(w)
        /\ UNCHANGED <<checker, ended, outcome>>
     \/ /\ Goto(w, "check", "judge")
        /\ Expired(w)
        /\ outcome' = [outcome EXCEPT ![w] = -1]
        /\ checker' = [checker EXCEPT ![j] = AfterKill(j)]
        /\ ended' =
             [ended EXCEPT ![j] = IF checker[j] = "running" THEN -1 ELSE ended[j]]
  /\ UNCHANGED <<ignored, next, returned, job, left, resultVars>>

\* Slip: anything that is not a counterexample counts as a proof.
Lenient(code) == IF code > 0 THEN "Refuted" ELSE "Verified"
\* The status for what runWithTimeout returned.
StatusOf(code) ==
  CASE code = 0  -> "Verified"
    [] code = -1 -> "TimedOut"
    [] code > 0  -> "Refuted"
    [] OTHER     -> "Error"

\* Slip: the copy goes whatever the status.
CopyGone(j, s) == "removed"
\* Only the copy of a Verified assertion is removed.
CopyLeft(j, s) == IF s = "Verified" THEN "removed" ELSE copy[j]

\* Store the status, clean up, go for the next assertion.
Judge(w) ==
  LET j == job[w]
      s == StatusOf(outcome[w])
  IN
  /\ Goto(w, "judge", "claim")
  /\ status' = [status EXCEPT ![j] = s]
  /\ settled' = settled \cup {j}
  /\ copy' = [copy EXCEPT ![j] = CopyLeft(j, s)]
  /\ job' = [job EXCEPT ![w] = 0]
  /\ left' = [left EXCEPT ![w] = 0]
  /\ outcome' = [outcome EXCEPT ![w] = 0]
  /\ UNCHANGED <<ignored, next, returned, checkerVars>>

\* The caller joins the threads and returns.
Return ==
  /\ ~returned
  /\ \A w \in Workers : pc[w] = "exited"
  /\ returned' = TRUE
  /\ UNCHANGED <<ignored, next, threadVars, resultVars, checkerVars>>

Step(w) ==
  Claim(w) \/ Write(w) \/ Fork(w) \/ Poll(w) \/ Check(w) \/ Judge(w)

-----------------------------------------------------------------------------

\* The checker of j ends: 0 stands for a proof, 10 for anything else EBMC or
\* the shell says, -1 for a signal.  It proves nothing about a copy that is
\* not there.
CheckerEnds(j) ==
  /\ checker[j] = "running"
  /\ checker' =
       [checker EXCEPT ![j] = IF ignored THEN "vanished" ELSE "zombie"]
  /\ \E code \in {-1, 0, 10} :
       /\ code = 0 => copy[j] = "written"
       /\ ended' = [ended EXCEPT ![j] = code]
  /\ UNCHANGED <<ignored, next, returned, threadVars, resultVars>>

\* Time passes: every deadline comes nearer.
Tick ==
  /\ \E w \in Workers : left[w] > 0
  /\ left' = [w \in Workers |-> IF left[w] > 0 THEN left[w] - 1 ELSE 0]
  /\ UNCHANGED <<ignored, next, returned, pc, job, outcome, resultVars, checkerVars>>

\* Nothing is left to do: the call has returned.
Done == returned /\ UNCHANGED vars

Next ==
  \/ \E w \in Workers : Step(w)
  \/ \E j \in Jobs : CheckerEnds(j)
  \/ Return
  \/ Tick
  \/ Done

\* Threads are scheduled, time passes, and the caller joins.  A checker owes
\* nothing.
Fairness ==
  /\ \A w \in Workers : WF_vars(Step(w))
  /\ WF_vars(Return)
  /\ WF_vars(Tick)

Safety == Init /\ [][Next]_vars

Spec == Safety /\ Fairness

-----------------------------------------------------------------------------
(* Properties.                                                             *)

\* The type invariant.
TypeOK ==
  /\ ignored \in BOOLEAN
  /\ next \in 1..(NJobs + PoolSize + 1)
  /\ returned \in BOOLEAN
  /\ pc \in [Workers -> ThreadPcs]
  /\ job \in [Workers -> Jobs \cup {0}]
  /\ left \in [Workers -> 0..Timeout]
  /\ outcome \in [Workers -> {-2, -1, 0, 10}]
  /\ status \in [Jobs -> {"Verified", "Refuted", "TimedOut", "Error"}]
  /\ settled \subseteq Jobs
  /\ copy \in [Jobs -> {"none", "written", "removed"}]
  /\ checker \in [Jobs -> {"none", "running", "zombie", "reaped", "vanished"}]
  /\ ended \in [Jobs -> {-1, 0, 10}]

\* "only what survives is emitted" (AssertionWriter.h:5): however threads,
\* checkers and clock interleave, an assertion is Verified only if its own
\* checker ran and ended by itself with exit code 0.
VerifiedWasProved ==
  \A j \in Jobs : status[j] = "Verified" =>
    checker[j] = "reaped" /\ ended[j] = 0

\* A settled assertion has no checker left: none outlives the call, and no more
\* run at once than there are threads.
SettledIsDead == \A j \in settled : checker[j] \notin {"running", "zombie"}

\* After the call the copies of what did not verify are there to be looked at,
\* as far as they were written, and only those.
EvidenceKept ==
  returned => \A j \in Jobs : copy[j] = "removed" <=> status[j] = "Verified"

\* Jobs nobody has claimed, and jobs a thread works on.
WaitingJobs == {j \in Jobs : j >= next}
RunningJobs == {j \in Jobs : \E w \in Workers : job[w] = j}

\* The state of the abstract pool.
Pool == INSTANCE JobPool WITH
  Limit <- PoolSize, waiting <- WaitingJobs, running <- RunningJobs, reported <- settled

\* checkAssertions, too, implements the abstract pool: each assertion is taken
\* up and settled once, never more at a time than there are threads ...
PoolSafety == Pool!Safety

\* ... and it settles them all and returns, although EBMC may hang.
PoolSpec == Pool!Spec
=============================================================================
