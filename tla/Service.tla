------------------------------- MODULE Service -------------------------------
(***************************************************************************)
(* The API process as cmd/api/main.go wires it: submissions and            *)
(* cancellations (internal/api), the bounded in-memory queue, the worker   *)
(* pool, the canceller, the pipeline of each running job reduced to its    *)
(* status moves and its checkout (Processor has the detail), the durable   *)
(* job records, and the startup recovery, over crashes, restarts and       *)
(* graceful shutdowns.                                                     *)
(***************************************************************************)
EXTENDS Naturals, Sequences, JobStatus

CONSTANTS
  Jobs, Workers,
  QueueBuffer,    \* capacity of the queue channel
  MaxRestarts,    \* bound: times the process is started again
  MaxRevisions,   \* passes back through implement, verify and review
  Faults,         \* what this instance lets go wrong
  NoJob, Nobody, Absent

FaultKinds ==
  {"crash",      \* the process is killed between any two steps
   "shutdown",   \* SIGTERM, and the http drain finishes
   "hurry",      \* SIGTERM, and ROJO_SHUTDOWN_TIMEOUT passes before it does
   "store",      \* a job record cannot be written
   "cleanup"}    \* git cannot remove a checkout

ASSUME ServiceAssumption ==
  /\ QueueBuffer \in Nat \ {0}
  /\ MaxRestarts \in Nat /\ MaxRevisions \in Nat
  /\ Faults \subseteq FaultKinds
  /\ NoJob \notin Jobs /\ Nobody \notin Workers /\ Absent \notin JobStatuses

VARIABLES
  phase,        \* of the process
  stored,       \* job -> status in the file store, Absent before Create
  worktrees,    \* jobs with a checkout on disk
  restarts,
  queue,        \* the channel's buffer
  closed,       \* the channel is closed
  handler,      \* job -> where the request that submits it is
  left,         \* jobs of Recover's listing it has not handled yet
  listed,       \* job -> its status in that listing
  unqueueable,  \* jobs recovery found no room for
  cancels,      \* Canceller: job -> the worker whose run it can stop
  wpc,          \* worker -> where it is
  wjob,         \* worker -> the job it runs
  wstatus,      \* worker -> that job's status in memory
  wctx,         \* worker -> the run's context
  wrevs,        \* worker -> revisions the run has made
  asked         \* jobs whose cancellation was acknowledged with 202

durable  == <<stored, worktrees>>
apiVars  == <<handler, asked>>
recovery == <<left, listed, unqueueable>>
pool     == <<wpc, wjob, wstatus, wctx, wrevs>>
vars == <<phase, durable, restarts, queue, closed, apiVars, recovery, cancels, pool>>

Up == phase # "down"

\* A handler may be at work: a request that arrived before the listener closed
\* goes on while main drains, and longer if main ran out of time.
Answering == \/ phase \in {"serving", "draining"}
             \/ phase = "stopping" /\ "hurry" \in Faults

\* The pool's context has been cancelled.
Stopped == phase = "stopping"

InQueue(j) == \E i \in 1..Len(queue) : queue[i] = j
RunnerOf(j) == {w \in Workers : wjob[w] = j}

\* No listing is at hand outside Recover.
NoListing == [j \in Jobs |-> Absent]

\* A write of job record `j` that the store may refuse.
Write(j, s) == stored' = [stored EXCEPT ![j] = s]
Refused == "store" \in Faults /\ UNCHANGED stored

\* The non-blocking send finds a slot.
HasRoom == Len(queue) < QueueBuffer

\* Canceller.Release, and the delete in Canceller.Cancel.
UntrackForgotten(j) == UNCHANGED cancels
Untrack(j) == cancels' = [cancels EXCEPT ![j] = Nobody]

-----------------------------------------------------------------------------
Init ==
  /\ phase = "recovering" /\ restarts = 0
  /\ stored = [j \in Jobs |-> Absent] /\ worktrees = {}
  /\ queue = <<>> /\ closed = FALSE
  /\ handler = [j \in Jobs |-> "none"] /\ asked = {}
  /\ left = {} /\ listed = NoListing /\ unqueueable = {}
  /\ cancels = [j \in Jobs |-> Nobody]
  /\ wpc = [w \in Workers |-> "idle"] /\ wjob = [w \in Workers |-> NoJob]
  /\ wstatus = [w \in Workers |-> "queued"] /\ wctx = [w \in Workers |-> "live"]
  /\ wrevs = [w \in Workers |-> 0]

-----------------------------------------------------------------------------
(* internal/api/jobs.go *)

\* Create, up to the record on disk.
Create(j) ==
  /\ Answering /\ handler[j] = "none" /\ stored[j] = Absent
  /\ Write(j, "queued")
  /\ handler' = [handler EXCEPT ![j] = "enqueue"]
  /\ UNCHANGED <<phase, worktrees, restarts, queue, closed, asked, recovery,
                 cancels, pool>>

\* Create, offering the job to the queue. A send on the closed channel panics
\* and RecoverMiddleware answers 500.
Enqueue(j) ==
  /\ Up /\ handler[j] = "enqueue"
  /\ \/ /\ closed
        /\ handler' = [handler EXCEPT ![j] = "panicked"]
        /\ UNCHANGED queue
     \/ /\ ~closed /\ HasRoom
        /\ queue' = Append(queue, j)
        /\ handler' = [handler EXCEPT ![j] = "accepted"]
     \/ /\ ~closed /\ ~HasRoom
        /\ handler' = [handler EXCEPT ![j] = "full"]
        /\ UNCHANGED queue
  /\ UNCHANGED <<phase, durable, restarts, closed, asked, recovery, cancels, pool>>

RejectFullUnrecorded(j) ==
  /\ Up /\ handler[j] = "full"
  /\ handler' = [handler EXCEPT ![j] = "rejected"]
  /\ UNCHANGED <<phase, durable, restarts, queue, closed, asked, recovery,
                 cancels, pool>>

\* Create, turning a submission away: the record is moved to `failed`.
RejectFull(j) ==
  /\ Up /\ handler[j] = "full"
  /\ Write(j, "failed") \/ Refused
  /\ handler' = [handler EXCEPT ![j] = "rejected"]
  /\ UNCHANGED <<phase, worktrees, restarts, queue, closed, asked, recovery,
                 cancels, pool>>

\* Cancel: 409 unless a run of the job is tracked.
Cancel(j) ==
  /\ Answering /\ cancels[j] # Nobody
  /\ wctx' = [wctx EXCEPT ![cancels[j]] = IF @ = "live" THEN "cancelled" ELSE @]
  /\ Untrack(j)
  /\ asked' = asked \cup {j}
  /\ UNCHANGED <<phase, durable, restarts, queue, closed, handler, recovery,
                 wpc, wjob, wstatus, wrevs>>

-----------------------------------------------------------------------------
(* internal/worker/pool.go and the runs of Processor.Process *)

\* Receiving from the queue. When the pool's context is done too, the select
\* picks at random between this and WorkerStops.
Dequeue(w) ==
  /\ Up /\ wpc[w] = "idle" /\ queue # <<>>
  /\ wjob' = [wjob EXCEPT ![w] = Head(queue)]
  /\ queue' = Tail(queue)
  /\ wpc' = [wpc EXCEPT ![w] = "load"]
  /\ wctx' = [wctx EXCEPT ![w] = IF Stopped THEN "cancelled" ELSE "live"]
  /\ UNCHANGED <<phase, durable, restarts, closed, apiVars, recovery, cancels,
                 wstatus, wrevs>>

WorkerStops(w) ==
  /\ wpc[w] = "idle" /\ Stopped
  /\ wpc' = [wpc EXCEPT ![w] = "gone"]
  /\ UNCHANGED <<phase, durable, restarts, queue, closed, apiVars, recovery,
                 cancels, wjob, wstatus, wctx, wrevs>>

\* Track, then read the record.
Load(w) ==
  /\ wpc[w] = "load"
  /\ cancels' = [cancels EXCEPT ![wjob[w]] = w]
  /\ wstatus' = [wstatus EXCEPT ![w] = stored[wjob[w]]]
  /\ wpc' = [wpc EXCEPT ![w] = "run"]
  /\ UNCHANGED <<phase, durable, restarts, queue, closed, apiVars, recovery,
                 wjob, wctx, wrevs>>

\* preparing_workspace: the checkout appears.
CheckOut(w) ==
  /\ wpc[w] = "run" /\ wstatus[w] = "preparing_workspace" /\ wctx[w] = "live"
  /\ wjob[w] \notin worktrees
  /\ worktrees' = worktrees \cup {wjob[w]}
  /\ UNCHANGED <<phase, stored, restarts, queue, closed, apiVars, recovery,
                 cancels, pool>>

\* Where a refused write of `s` takes the run: to markFailed.
AfterRefusalIgnored(s) == "run"
AfterRefusal(s) == "failing"

\* A stage is over and the job moves on: context checked, status moved, record
\* written. A refused write fails the job.
Advance(w) ==
  /\ wpc[w] = "run" /\ wctx[w] = "live"
  /\ wstatus[w] = "preparing_workspace" => wjob[w] \in worktrees
  /\ \E s \in legalTransitions[wstatus[w]] \ {"failed", "cancelled"} :
       /\ s = "waiting_for_revision" => wrevs[w] < MaxRevisions
       /\ wrevs' = [wrevs EXCEPT ![w] = IF s = "waiting_for_revision" THEN @ + 1 ELSE @]
       /\ wstatus' = [wstatus EXCEPT ![w] = s]
       /\ \/ /\ Write(wjob[w], s)
             /\ wpc' = [wpc EXCEPT ![w] = IF s = "completed" THEN "cleanup" ELSE "run"]
          \/ /\ Refused
             /\ wpc' = [wpc EXCEPT ![w] = AfterRefusal(s)]
  /\ UNCHANGED <<phase, worktrees, restarts, queue, closed, apiVars, recovery,
                 cancels, wjob, wctx>>

\* The run finds its context dead between two steps (endInterrupted).
Interrupt(w) ==
  /\ wpc[w] = "run" /\ wctx[w] # "live"
  /\ wpc' = [wpc EXCEPT ![w] = IF wctx[w] = "expired" THEN "failing" ELSE "cancelling"]
  /\ UNCHANGED <<phase, durable, restarts, queue, closed, apiVars, recovery,
                 cancels, wjob, wstatus, wctx, wrevs>>

\* A stage returns an error: the gate, the reviewer, a tool, or a dead context
\* that a model call reports.
StageFails(w) ==
  /\ wpc[w] = "run" /\ wstatus[w] # "queued"
  /\ wpc' = [wpc EXCEPT ![w] = "failing"]
  /\ UNCHANGED <<phase, durable, restarts, queue, closed, apiVars, recovery,
                 cancels, wjob, wstatus, wctx, wrevs>>

Expire(w) ==
  /\ wpc[w] = "run" /\ wctx[w] = "live"
  /\ wctx' = [wctx EXCEPT ![w] = "expired"]
  /\ UNCHANGED <<phase, durable, restarts, queue, closed, apiVars, recovery,
                 cancels, wpc, wjob, wstatus, wrevs>>

\* A stage panics: cleanup and release are deferred, so they run before the
\* recovery that marks the job failed.
Panic(w) ==
  /\ wpc[w] = "run" /\ wstatus[w] # "queued"
  /\ wpc' = [wpc EXCEPT ![w] = "unwind"]
  /\ UNCHANGED <<phase, durable, restarts, queue, closed, apiVars, recovery,
                 cancels, wjob, wstatus, wctx, wrevs>>

\* Cleanup's failure is logged and the checkout stays.
RemoveCheckout(j) ==
  \/ worktrees' = worktrees \ {j}
  \/ "cleanup" \in Faults /\ UNCHANGED worktrees

UnwindWithoutRecover(w) ==
  /\ wpc[w] = "unwind"
  /\ RemoveCheckout(wjob[w])
  /\ Untrack(wjob[w])
  /\ wpc' = [wpc EXCEPT ![w] = "gone"]
  /\ UNCHANGED <<phase, stored, restarts, queue, closed, apiVars, recovery,
                 wjob, wstatus, wctx, wrevs>>

Unwind(w) ==
  /\ wpc[w] = "unwind"
  /\ RemoveCheckout(wjob[w])
  /\ Untrack(wjob[w])
  /\ wpc' = [wpc EXCEPT ![w] = "recovered"]
  /\ UNCHANGED <<phase, stored, restarts, queue, closed, apiVars, recovery,
                 wjob, wstatus, wctx, wrevs>>

\* markFailed and markCancelled. The move is illegal only from `completed`.
EndRun(w, from, s, to) ==
  /\ wpc[w] = from
  /\ IF CanTransition(wstatus[w], s)
       THEN /\ wstatus' = [wstatus EXCEPT ![w] = s]
            /\ Write(wjob[w], s) \/ Refused
       ELSE UNCHANGED <<wstatus, stored>>
  /\ wpc' = [wpc EXCEPT ![w] = to]
  /\ UNCHANGED <<phase, worktrees, restarts, queue, closed, apiVars, recovery,
                 cancels, wjob, wctx, wrevs>>

MarkFailed(w)    == \/ EndRun(w, "failing", "failed", "cleanup")
                    \/ EndRun(w, "recovered", "failed", "release")
MarkCancelled(w) == EndRun(w, "cancelling", "cancelled", "cleanup")

\* The deferred cleanup.
Cleanup(w) ==
  /\ wpc[w] = "cleanup"
  /\ RemoveCheckout(wjob[w])
  /\ wpc' = [wpc EXCEPT ![w] = "release"]
  /\ UNCHANGED <<phase, stored, restarts, queue, closed, apiVars, recovery,
                 cancels, wjob, wstatus, wctx, wrevs>>

\* The deferred Release, and Process returns to the pool.
Release(w) ==
  /\ wpc[w] = "release"
  /\ Untrack(wjob[w])
  /\ wpc' = [wpc EXCEPT ![w] = "idle"]
  /\ wjob' = [wjob EXCEPT ![w] = NoJob]
  /\ wstatus' = [wstatus EXCEPT ![w] = "queued"]
  /\ wctx' = [wctx EXCEPT ![w] = "live"]
  /\ wrevs' = [wrevs EXCEPT ![w] = 0]
  /\ UNCHANGED <<phase, durable, restarts, queue, closed, apiVars, recovery>>

-----------------------------------------------------------------------------
(* internal/orchestration/recovery.go, one listed job at a time *)

\* Safe to run again: it never started.
RequeueableIfUnfinished(s) == s \notin Terminal
Requeueable(s) == s = "queued"

\* Each listed job is handled once.
HandledTwice(j) == left' = left \ {j} \/ UNCHANGED left
Handled(j) == left' = left \ {j}

\* Its checkout is gone, or Cleanup could not remove it.
ReclaimedOrNot(j) == TRUE
Reclaimed(j) == j \notin worktrees \/ "cleanup" \in Faults

RecoverQueued(j) ==
  /\ phase = "recovering" /\ j \in left /\ Requeueable(listed[j])
  /\ IF HasRoom
       THEN queue' = Append(queue, j) /\ UNCHANGED unqueueable
       ELSE unqueueable' = unqueueable \cup {j} /\ UNCHANGED queue
  /\ Handled(j)
  /\ UNCHANGED <<phase, durable, restarts, closed, apiVars, listed, cancels, pool>>

\* Reclaiming what the crashed run left on disk.
ReclaimWorktree(j) ==
  /\ phase = "recovering" /\ j \in left /\ IsInterrupted(listed[j])
  /\ j \in worktrees
  /\ worktrees' = worktrees \ {j}
  /\ UNCHANGED <<phase, stored, restarts, queue, closed, apiVars, recovery,
                 cancels, pool>>

\* Failing the job, once its checkout is reclaimed or could not be.
FailInterrupted(j) ==
  /\ phase = "recovering" /\ j \in left /\ IsInterrupted(listed[j])
  /\ Reclaimed(j)
  /\ Write(j, "failed") \/ Refused
  /\ Handled(j)
  /\ UNCHANGED <<phase, worktrees, restarts, queue, closed, apiVars, listed,
                 unqueueable, cancels, pool>>

\* Terminal jobs are left alone: the switch has no case for them.
SkipTerminal(j) ==
  /\ phase = "recovering" /\ j \in left
  /\ listed[j] # "queued" /\ ~IsInterrupted(listed[j])
  /\ Handled(j)
  /\ UNCHANGED <<phase, durable, restarts, queue, closed, apiVars, listed,
                 unqueueable, cancels, pool>>

-----------------------------------------------------------------------------
(* cmd/api/main.go *)

\* Recover has returned: start the listener.
Serve ==
  /\ phase = "recovering" /\ left = {}
  /\ phase' = "serving"
  /\ listed' = NoListing
  /\ UNCHANGED <<durable, restarts, queue, closed, apiVars, left, unqueueable,
                 cancels, pool>>

\* A signal arrives: the listener closes, requests in flight go on.
Signal ==
  /\ phase = "serving" /\ Faults \cap {"shutdown", "hurry"} # {}
  /\ phase' = "draining"
  /\ UNCHANGED <<durable, restarts, queue, closed, apiVars, recovery, cancels, pool>>

\* No request is between its first and its last effect.
DrainedOfAccepted ==
  \A j \in Jobs : handler[j] \notin {"enqueue", "full", "accepted"}
DrainedAtOnce == TRUE
Drained == \A j \in Jobs : handler[j] \notin {"enqueue", "full"}

\* srv.Shutdown has returned, drained or out of time: cancelWorkers.
CancelWorkers ==
  /\ phase = "draining"
  /\ Drained \/ "hurry" \in Faults
  /\ phase' = "stopping"
  /\ wctx' = [w \in Workers |->
                IF wjob[w] # NoJob /\ wctx[w] = "live" THEN "cancelled" ELSE wctx[w]]
  /\ UNCHANGED <<durable, restarts, queue, closed, apiVars, recovery, cancels,
                 wpc, wjob, wstatus, wrevs>>

CloseQueue ==
  /\ phase = "stopping" /\ ~closed
  /\ closed' = TRUE
  /\ UNCHANGED <<phase, durable, restarts, queue, apiVars, recovery, cancels, pool>>

\* What is left of a process that has ended: nothing in memory, and no answer
\* to the requests that were in flight.
Forget ==
  /\ phase' = "down"
  /\ queue' = <<>> /\ closed' = FALSE
  /\ handler' = [j \in Jobs |-> IF handler[j] \in {"enqueue", "full"}
                                  THEN "broken" ELSE handler[j]]
  /\ left' = {} /\ unqueueable' = {}
  /\ cancels' = [j \in Jobs |-> Nobody]
  /\ listed' = NoListing
  /\ wpc' = [w \in Workers |-> "idle"] /\ wjob' = [w \in Workers |-> NoJob]
  /\ wstatus' = [w \in Workers |-> "queued"] /\ wctx' = [w \in Workers |-> "live"]
  /\ wrevs' = [w \in Workers |-> 0]
  /\ UNCHANGED <<durable, restarts, asked>>

\* pool.Wait has returned and main with it.
Exit ==
  /\ phase = "stopping" /\ closed
  /\ \A w \in Workers : wpc[w] = "gone"
  /\ Forget

Crash == Up /\ "crash" \in Faults /\ restarts < MaxRestarts /\ Forget

\* A new process: store opened, workers started, Recover lists the jobs.
Restart ==
  /\ phase = "down" /\ restarts < MaxRestarts
  /\ phase' = "recovering"
  /\ restarts' = restarts + 1
  /\ left' = {j \in Jobs : stored[j] # Absent}
  /\ listed' = stored
  /\ UNCHANGED <<durable, queue, closed, apiVars, unqueueable, cancels, pool>>

-----------------------------------------------------------------------------
JobStep(j) ==
  \/ Create(j) \/ Enqueue(j) \/ RejectFull(j) \/ Cancel(j)
  \/ RecoverQueued(j) \/ ReclaimWorktree(j) \/ FailInterrupted(j) \/ SkipTerminal(j)

RunStep(w) ==
  \/ Load(w) \/ CheckOut(w) \/ Advance(w) \/ Interrupt(w) \/ StageFails(w)
  \/ Panic(w) \/ Unwind(w)
  \/ MarkFailed(w) \/ MarkCancelled(w) \/ Cleanup(w) \/ Release(w)

WorkerStep(w) == Dequeue(w) \/ WorkerStops(w) \/ RunStep(w) \/ Expire(w)

ProcessStep == Serve \/ Signal \/ CancelWorkers \/ CloseQueue \/ Exit \/ Crash \/ Restart

\* Waiting for a request, or, at the bound on restarts, not started again.
Rest ==
  /\ \/ /\ phase = "serving" /\ queue = <<>>
        /\ \A w \in Workers : wpc[w] = "idle"
     \/ phase = "down" /\ restarts = MaxRestarts
  /\ UNCHANGED vars

Next ==
  \/ \E j \in Jobs : JobStep(j)
  \/ \E w \in Workers : WorkerStep(w)
  \/ ProcessStep
  \/ Rest

Spec == Init /\ [][Next]_vars

\* Each handler, run, worker and startup step returns, being bounded by a
\* deadline; main follows a signal through, and a supervisor starts a process
\* that ended. Nothing is assumed of users, deadlines, crashes or signals.
Fairness ==
  /\ \A j \in Jobs : /\ WF_vars(Enqueue(j) \/ RejectFull(j))
                     /\ WF_vars(RecoverQueued(j) \/ ReclaimWorktree(j)
                                \/ FailInterrupted(j) \/ SkipTerminal(j))
  /\ \A w \in Workers : /\ WF_vars(RunStep(w))
                        /\ WF_vars(Dequeue(w))
                        /\ WF_vars(WorkerStops(w))
  /\ WF_vars(Serve) /\ WF_vars(CancelWorkers) /\ WF_vars(CloseQueue)
  /\ WF_vars(Exit) /\ WF_vars(Restart)

FairSpec == Spec /\ Fairness
-----------------------------------------------------------------------------
PCs == {"idle", "load", "run", "failing", "cancelling", "unwind", "recovered",
        "cleanup", "release", "gone"}

\* The range of every variable of the process and its store.
TypeOK ==
  /\ phase \in {"recovering", "serving", "draining", "stopping", "down"}
  /\ stored \in [Jobs -> JobStatuses \cup {Absent}]
  /\ worktrees \subseteq Jobs
  /\ restarts \in 0..MaxRestarts
  /\ queue \in Seq(Jobs) /\ Len(queue) <= QueueBuffer
  /\ closed \in BOOLEAN
  /\ handler \in [Jobs -> {"none", "enqueue", "accepted", "full", "rejected",
                           "panicked", "broken"}]
  /\ left \subseteq Jobs /\ unqueueable \subseteq Jobs
  /\ listed \in [Jobs -> JobStatuses \cup {Absent}]
  /\ cancels \in [Jobs -> Workers \cup {Nobody}]
  /\ wpc \in [Workers -> PCs]
  /\ wjob \in [Workers -> Jobs \cup {NoJob}]
  /\ wstatus \in [Workers -> JobStatuses]
  /\ wctx \in [Workers -> {"live", "cancelled", "expired"}]
  /\ wrevs \in [Workers -> 0..MaxRevisions]
  /\ asked \subseteq Jobs

\* A job has at most one claim on being run: one slot of the queue, or one
\* worker, or a request still submitting it, or a recovery that has yet to
\* handle it. There is no lease in the code: workers start before recovery
\* lists the jobs, and nothing but the order of main.go keeps two workers
\* from running one job.
OneClaim ==
  /\ \A i, n \in 1..Len(queue) : queue[i] = queue[n] => i = n
  /\ \A v, w \in Workers : wjob[v] = wjob[w] /\ wjob[v] # NoJob => v = w
  /\ \A j \in Jobs :
       /\ InQueue(j) => RunnerOf(j) = {}
       /\ handler[j] \in {"enqueue", "full"} \/ j \in left =>
            ~InQueue(j) /\ RunnerOf(j) = {}
       /\ handler[j] \in {"enqueue", "full"} => j \notin left

\* What a client reads is what the worker is doing: between two stages the
\* stored status is the one in the worker's memory, whatever other workers,
\* handlers and the recovery wrote meanwhile, and a job waiting for a worker
\* is stored as queued, the only status Process can start from.
RecordIsCurrent ==
  /\ \A i \in 1..Len(queue) : stored[queue[i]] = "queued"
  /\ \A w \in Workers :
       /\ wpc[w] = "load" => stored[wjob[w]] = "queued"
       /\ wpc[w] \in {"run", "cancelling", "unwind"} => stored[wjob[w]] = wstatus[w]

\* The canceller never holds a cancel function of a run that is over, or of
\* another job's run: an acknowledged cancellation stops the job it names.
CancelHitsItsJob ==
  \A j \in Jobs : cancels[j] # Nobody =>
    /\ wjob[cancels[j]] = j
    /\ wpc[cancels[j]] \notin {"idle", "gone", "load"}

\* While requests are served no job is forgotten: one that is not over is
\* queued, run or being submitted, or recovery reported it as unqueueable
\* (assumes the store takes every write).
NoJobForgotten ==
  phase = "serving" =>
    \A j \in Jobs : stored[j] \notin Terminal \cup {Absent} =>
      \/ InQueue(j) \/ RunnerOf(j) # {} \/ handler[j] \in {"enqueue", "full"}
      \/ j \in unqueueable

\* When the first request is served the checkout of every interrupted job has
\* been reclaimed: what is on disk belongs to a job that is running already or
\* to one that was over when recovery listed it (assumes git removes what it
\* is asked to).
InterruptedAreReclaimed ==
  [][phase = "recovering" /\ phase' = "serving" =>
       \A j \in worktrees : RunnerOf(j) # {} \/ listed[j] \in Terminal]_vars

\* When the drain is given the time it needs, no request meets the closed
\* queue (main.go closes it after srv.Shutdown and cancelWorkers).
NoSendOnClosedQueue == \A j \in Jobs : handler[j] # "panicked"

\* The stored status of every job, and who holds it, behave as the abstract
\* lifecycle says, across crashes and restarts.
holderOf == [j \in Jobs |-> IF RunnerOf(j) = {} THEN Nobody
                            ELSE CHOOSE w \in Workers : wjob[w] = j]
L == INSTANCE JobLifecycle WITH record <- stored, holder <- holderOf
ImplementsLifecycle == L!Lifecycle

\* Each run the pool makes is one that Processor has, and takes the steps of one:
\* it begins with a queued job that has no checkout, it alone makes the checkout
\* and takes it away, and it is let go of with its end on record.
placeOf == [j \in Jobs |-> IF RunnerOf(j) = {} THEN "off" ELSE wpc[holderOf[j]]]
contextOf == [j \in Jobs |-> IF RunnerOf(j) = {} THEN "live" ELSE wctx[holderOf[j]]]
revisionsOf == [j \in Jobs |-> IF RunnerOf(j) = {} THEN 0 ELSE wrevs[holderOf[j]]]
R == INSTANCE JobRun WITH at <- placeOf, ctx <- contextOf, revs <- revisionsOf,
       record <- stored, checkouts <- worktrees, mayFail <- Faults, alive <- Up
ImplementsRun == R!Runs

\* A submission that was answered 201 ends in a terminal status, if the
\* process stays or comes back up and recovery finds room for the job.
AcceptedJobsEnd ==
  \A j \in Jobs : handler[j] = "accepted" ~>
    stored[j] \in Terminal \/ phase = "down" \/ j \in unqueueable

\* A signal ends the process: no worker, job or request keeps it up.
ShutdownEnds == phase = "draining" ~> phase = "down"
-----------------------------------------------------------------------------
(* What comments and documents of the repository say and the code does not do. *)

\* `cancelled` is reserved for a caller asking the job to stop.
CancelledWasAsked == \A j \in Jobs : stored[j] = "cancelled" => j \in asked

\* No job leaves its checkout behind, however it ends.
NoCheckoutOutlivesItsJob ==
  phase = "serving" => \A j \in worktrees : RunnerOf(j) # {}

\* Nothing ever picks up a submission that was turned away.
RejectedNeverRuns == \A j \in Jobs : handler[j] = "rejected" => RunnerOf(j) = {}
=============================================================================
