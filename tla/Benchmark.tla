------------------------------ MODULE Benchmark ------------------------------
(***************************************************************************)
(* rojo-bench (internal/benchmark): cases are run one after the other      *)
(* against a server, each with a deadline.  The cost of a case is the      *)
(* growth of counters that the server keeps for all of its jobs, and its   *)
(* verdict comes from applying the job's patch to a clean copy of the      *)
(* fixture and running the hidden assertions over it.  The server is what  *)
(* the harness can see of it: jobs, their model calls and their patches.   *)
(***************************************************************************)
EXTENDS Integers, FiniteSets

CONSTANTS
  N,         \* cases
  Workers,   \* of the server
  MaxCalls,  \* bound: model calls of a job
  Faults     \* what this instance lets go wrong

FaultKinds ==
  {"deadline",   \* a case runs out of time
   "interrupt",  \* the user stops the run
   "server",     \* a request fails
   "git"}        \* a command of the harness fails or outlives its timeout

ASSUME BenchmarkAssumption ==
  N \in Nat /\ Workers \in Nat \ {0} /\ MaxCalls \in Nat /\ Faults \subseteq FaultKinds

Cases == 1..N

\* What a job may leave behind: nothing; a patch that does the task; one that
\* does not; one that brings its own version of the hidden assertions; one that
\* keeps go test from judging by them (a TestMain that exits with 0, a module of
\* its own around them, a link that leads the overlay to where no test is run);
\* one that keeps them from being written (a directory in their place); or one
\* that does not apply.
Patches == {"none", "works", "wrong", "cheats", "evades", "blocks", "junk"}
JobStates == {"none", "queued", "running", "completed", "failed"}

Unread == -1  \* the counters could not be read after the case
NoResult == [error |-> FALSE, measured |-> FALSE, pipeline |-> FALSE, truth |-> FALSE, calls |-> Unread]

VARIABLES
  job,      \* case -> the state of its job
  spent,    \* case -> model calls its job made
  patch,    \* case -> the patch of its job
  counter,  \* the server's count of model calls
  current,  \* the case RunAll is at
  pc,       \* the place in RunCase
  ctx,      \* "live"; "late" once the case is out of time; "stopped" by the user
  base,     \* the counter before the case
  seen,     \* the result of the case so far
  result,   \* case -> its result
  left      \* cases whose RunCase returned before their job was over

serverVars == <<job, spent, patch, counter>>
vars == <<serverVars, current, pc, ctx, base, seen, result, left>>

Init ==
  /\ job = [c \in Cases |-> "none"] /\ spent = [c \in Cases |-> 0]
  /\ patch = [c \in Cases |-> "none"] /\ counter = 0
  /\ current = 1 /\ pc = (IF N = 0 THEN "over" ELSE "before") /\ ctx = "live"
  /\ base = 0 /\ seen = NoResult
  /\ result = [c \in Cases |-> NoResult] /\ left = {}

-----------------------------------------------------------------------------
(* The server. *)

Running == {c \in Cases : job[c] = "running"}

StartJob(c) ==
  /\ job[c] = "queued" /\ Cardinality(Running) < Workers
  /\ \A d \in Cases : job[d] = "queued" => c <= d
  /\ job' = [job EXCEPT ![c] = "running"]
  /\ UNCHANGED <<spent, patch, counter, current, pc, ctx, base, seen, result, left>>

CallModel(c) ==
  /\ job[c] = "running" /\ spent[c] < MaxCalls
  /\ spent' = [spent EXCEPT ![c] = @ + 1]
  /\ counter' = counter + 1
  /\ UNCHANGED <<job, patch, current, pc, ctx, base, seen, result, left>>

\* A job ends completed, or otherwise, which is "failed" here. One that failed its
\* own gate may have a good patch, and one that passed a
\* bad one.
EndJob(c) ==
  /\ job[c] = "running"
  /\ \E end \in {"completed", "failed"}, p \in Patches :
       /\ job' = [job EXCEPT ![c] = end]
       /\ patch' = [patch EXCEPT ![c] = p]
  /\ UNCHANGED <<spent, counter, current, pc, ctx, base, seen, result, left>>

-----------------------------------------------------------------------------
(* The contexts of the run and of a case. *)

Expire ==
  /\ "deadline" \in Faults /\ pc # "over" /\ ctx = "live"
  /\ ctx' = "late"
  /\ UNCHANGED <<serverVars, current, pc, base, seen, result, left>>

Interrupt ==
  /\ "interrupt" \in Faults /\ pc # "over" /\ ctx # "stopped"
  /\ ctx' = "stopped"
  /\ UNCHANGED <<serverVars, current, pc, base, seen, result, left>>

Goto(p) == pc' = p

\* A request or a command works only while the case has time; it may fail with
\* time left.
Works    == ctx = "live"
MayFail(kind) == ctx # "live" \/ kind \in Faults

-----------------------------------------------------------------------------
(* RunCase and RunAll. *)

TerminalOrTaken(state) == state \in {"running", "completed", "failed"}
Terminal(state) == state \in {"completed", "failed"}

\* RunCase returns r, and RunAll goes on with the next case unless it was
\* stopped.
Return(r) ==
  /\ result' = [result EXCEPT ![current] = r]
  /\ left' = IF job'[current] \in {"queued", "running"} THEN left \cup {current} ELSE left
  /\ seen' = NoResult /\ base' = 0
  /\ current' = current + 1
  /\ IF ctx = "stopped" \/ current = N THEN Goto("over") /\ UNCHANGED ctx
                                       ELSE Goto("before") /\ ctx' = "live"

\* A failure of the harness is the case's result, not the end of the run.
GiveUp == Return([seen EXCEPT !.error = TRUE])

ReadBefore ==
  /\ pc = "before"
  /\ UNCHANGED serverVars
  /\ \/ Works /\ base' = counter /\ Goto("prepare") /\ UNCHANGED <<current, ctx, seen, result, left>>
     \/ MayFail("server") /\ GiveUp

\* The fixture becomes a repository of its own.
Prepare ==
  /\ pc = "prepare"
  /\ UNCHANGED serverVars
  /\ \/ Works /\ Goto("submit") /\ UNCHANGED <<current, ctx, base, seen, result, left>>
     \/ MayFail("git") /\ GiveUp

\* A request that fails may have reached the server all the same.
Submit ==
  /\ pc = "submit"
  /\ UNCHANGED <<spent, patch, counter>>
  /\ \/ /\ Works
        /\ job' = [job EXCEPT ![current] = "queued"]
        /\ Goto("wait")
        /\ UNCHANGED <<current, ctx, base, seen, result, left>>
     \/ /\ MayFail("server")
        /\ \E state \in {"none", "queued"} : job' = [job EXCEPT ![current] = state]
        /\ GiveUp

WaitUntilStopped == ctx = "stopped"
WaitGivesUp == MayFail("server")

\* WaitForTerminal: a poll that finds the job on its way changes nothing.
Wait ==
  /\ pc = "wait"
  /\ UNCHANGED serverVars
  /\ \/ /\ Works /\ Terminal(job[current])
        /\ seen' = [seen EXCEPT !.pipeline = job[current] = "completed"]
        /\ Goto("after")
        /\ UNCHANGED <<current, ctx, base, result, left>>
     \/ WaitGivesUp /\ GiveUp

\* Counters that cannot be read do not fail the case.
ReadAfter ==
  /\ pc = "after"
  /\ \/ Works /\ seen' = [seen EXCEPT !.calls = counter - base]
     \/ MayFail("server") /\ UNCHANGED seen
  /\ Goto("diff")
  /\ UNCHANGED <<serverVars, current, ctx, base, result, left>>

FetchDiff ==
  /\ pc = "diff"
  /\ UNCHANGED serverVars
  /\ \/ /\ Works
        /\ IF patch[current] = "none" THEN Goto("assert") ELSE Goto("apply")
        /\ UNCHANGED <<current, ctx, base, seen, result, left>>
     \/ MayFail("server") /\ GiveUp

\* The clean copy: what its code does, whose assertions are where the hidden ones
\* belong, and whether go test judges by what is there.
Clean == [code |-> "base", tests |-> "none", judges |-> TRUE]
Patched(tree, p) == CASE p = "works"  -> [tree EXCEPT !.code = "works"]
                      [] p = "wrong"  -> [tree EXCEPT !.code = "wrong"]
                      [] p = "cheats" -> [tree EXCEPT !.tests = "own"]
                      [] p = "evades" -> [tree EXCEPT !.judges = FALSE]
                      [] p = "blocks" -> [tree EXCEPT !.tests = "directory"]
                      [] OTHER -> tree

\* The overlay writes the files of the assertions, through a link too, and
\* leaves every other file of the patch where it is.
CanOverlay(tree) == tree.tests # "directory"
Overlaid(tree) == [tree EXCEPT !.tests = "real"]
OverlaidFirst(p) == Patched(Overlaid(Clean), p)
Judged(p) == Overlaid(Patched(Clean, p))

\* go test ./... exits with 0.
TestsPass(tree) == \/ ~tree.judges
                   \/ tree.tests = "own"
                   \/ tree.tests = "real" /\ tree.code = "works"

\* The verdict is part of a measured result.
Verdict(passed) == Return([seen EXCEPT !.measured = TRUE, !.truth = passed])

\* A patch that is not applied is a failed task, whatever kept git from it.
Apply ==
  /\ pc = "apply"
  /\ UNCHANGED serverVars
  /\ \/ /\ Works /\ patch[current] # "junk"
        /\ Goto("assert")
        /\ UNCHANGED <<current, ctx, base, seen, result, left>>
     \/ (patch[current] = "junk" \/ MayFail("git")) /\ Verdict(FALSE)

Assert ==
  /\ pc = "assert"
  /\ UNCHANGED serverVars
  /\ LET p == patch[current] IN
     \/ Works /\ CanOverlay(Patched(Clean, p)) /\ Verdict(TestsPass(Judged(p)))
     \/ (~CanOverlay(Patched(Clean, p)) \/ MayFail("git")) /\ GiveUp

-----------------------------------------------------------------------------
Harness == ReadBefore \/ Prepare \/ Submit \/ Wait \/ ReadAfter \/ FetchDiff \/ Apply \/ Assert

Server == \E c \in Cases : StartJob(c) \/ CallModel(c) \/ EndJob(c)

\* The report is out; the server may go on.
Over == pc = "over" /\ UNCHANGED vars

Next == Harness \/ Server \/ Expire \/ Interrupt \/ Over

Spec == Init /\ [][Next]_vars

\* The harness goes on when it can, and time passes. Nothing is asked of the
\* server: a job may never end.
FairSpec == Spec /\ WF_vars(Harness) /\ WF_vars(Expire)
-----------------------------------------------------------------------------
Measured(c) == result[c].measured

\* The range of every variable of the harness.
TypeOK ==
  LET Results == [error : BOOLEAN, measured : BOOLEAN, pipeline : BOOLEAN, truth : BOOLEAN,
                  calls : Int] IN
  /\ job \in [Cases -> JobStates] /\ spent \in [Cases -> 0..MaxCalls]
  /\ patch \in [Cases -> Patches] /\ counter \in Nat
  /\ current \in 1..(N + 1)
  /\ pc \in {"before", "prepare", "submit", "wait", "after", "diff", "apply", "assert", "over"}
  /\ ctx \in {"live", "late", "stopped"} /\ base \in Nat
  /\ seen \in Results /\ result \in [Cases -> Results] /\ left \subseteq Cases

\* A task that is counted as done was done, by the job's patch alone: a patch that
\* brings its own assertions, that keeps them from being written, that does not
\* apply, or that changed nothing, never counts. The verdict is go test's exit
\* code for the whole copy, so a patch that keeps go test from judging by the
\* assertions counts as well: the one exception.
Counts == {"works", "evades"}
TaskSuccessIsTrue ==
  \A c \in Cases : Measured(c) /\ result[c].truth => patch[c] \in Counts

\* The calls a case is charged with are those of its own job, all of them and
\* no others, although the counters are the server's: as long as no case before
\* it was given up with its job still on its way.
AttributionIsExact ==
  \A c \in Cases :
    Measured(c) /\ result[c].calls # Unread /\ (\A d \in left : d > c) =>
      result[c].calls = spent[c]

\* A run ends, even if the server never ends a job.
RunEnds == <>(pc = "over")
-----------------------------------------------------------------------------
(* What comments of the repository say and the code does not do. *)

\* A false success is one: the job claimed success, and its patch does not do
\* the task.
FalseSuccessIsTrue ==
  \A c \in Cases : Measured(c) /\ result[c].pipeline /\ ~result[c].truth => patch[c] # "works"

\* Cases that run one after the other are charged for their own jobs only.
SequentialIsEnough ==
  \A c \in Cases : Measured(c) /\ result[c].calls # Unread => result[c].calls = spent[c]

\* Stopping a run does not cut the case in flight short.
StopsBetweenCases == ctx = "stopped" => \A c \in Cases : ~result[c].error
=============================================================================
