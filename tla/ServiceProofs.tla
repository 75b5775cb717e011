---------------------------- MODULE ServiceProofs ----------------------------
(***************************************************************************)
(* Proofs about Service, for any number of jobs and workers, any queue     *)
(* size, any number of restarts and every set of faults: each job has at   *)
(* most one claim on being run, the stored status of a running job is the  *)
(* one its worker holds, an acknowledged cancellation hits its job, and    *)
(* Service implements JobLifecycle.  All follow from one inductive         *)
(* invariant, IInv.  Three facts hold only while nothing beyond the        *)
(* process's control goes wrong, and say which fault they exclude: no      *)
(* request meets the closed queue, no job is forgotten, and no checkout of *)
(* an interrupted job outlives the recovery.                               *)
(***************************************************************************)
EXTENDS Service, SequenceTheorems, TLAPS

-----------------------------------------------------------------------------
(* The inductive invariant. *)

Pending(j) == handler[j] \in {"enqueue", "full"}
Queued(j)  == \E i \in 1..Len(queue) : queue[i] = j
Running(j) == \E w \in Workers : wjob[w] = j

\* OneClaim, a pair of claims at a time.
QueueIsInjective  == \A i, n \in 1..Len(queue) : queue[i] = queue[n] => i = n
WorkersAreDistinct ==
  \A v, w \in Workers : wjob[v] = wjob[w] /\ wjob[v] # NoJob => v = w
QueuedNotRunning  == \A j \in Jobs : Queued(j) => ~Running(j)
PendingIsAlone ==
  \A j \in Jobs : Pending(j) => ~Queued(j) /\ ~Running(j) /\ j \notin left
ListedIsAlone ==
  \A j \in Jobs : j \in left => ~Queued(j) /\ ~Running(j)
Claims == /\ QueueIsInjective /\ WorkersAreDistinct /\ QueuedNotRunning
          /\ PendingIsAlone /\ ListedIsAlone

\* A worker without a job is one that is between jobs.
IdleIsFree == \A w \in Workers : wjob[w] = NoJob <=> wpc[w] \in {"idle", "gone"}

\* A job that was never stored is claimed by nobody.
AbsentIsUnclaimed ==
  \A j \in Jobs : stored[j] = Absent => ~Queued(j) /\ ~Running(j) /\ j \notin left

\* A process that has ended holds nothing in memory.
DownIsEmpty ==
  phase = "down" => /\ queue = <<>> /\ left = {}
                    /\ \A w \in Workers : wjob[w] = NoJob
                    /\ \A j \in Jobs : ~Pending(j)

\* Nobody writes the record of a job that waits.
PendingIsQueued  == \A j \in Jobs : Pending(j) => stored[j] = "queued"
ListingIsCurrent == \A j \in left : listed[j] = stored[j]

IInv == /\ TypeOK /\ Claims /\ IdleIsFree /\ AbsentIsUnclaimed /\ DownIsEmpty
        /\ PendingIsQueued /\ ListingIsCurrent
        /\ RecordIsCurrent /\ CancelHitsItsJob

\* What a status may become is a status (legalTransitions).
LEMMA LegalStatuses ==
  ASSUME NEW s \in JobStatuses
  PROVE  legalTransitions[s] \subseteq JobStatuses
<1>1. CASE s = "queued"
  BY <1>1 DEF legalTransitions, JobStatuses
<1>2. CASE s = "planning"
  BY <1>2 DEF legalTransitions, JobStatuses
<1>3. CASE s = "preparing_workspace"
  BY <1>3 DEF legalTransitions, JobStatuses
<1>4. CASE s = "implementing"
  BY <1>4 DEF legalTransitions, JobStatuses
<1>5. CASE s = "verifying"
  BY <1>5 DEF legalTransitions, JobStatuses
<1>6. CASE s = "reviewing"
  BY <1>6 DEF legalTransitions, JobStatuses
<1>7. CASE s = "waiting_for_revision"
  BY <1>7 DEF legalTransitions, JobStatuses
<1>8. CASE s = "completed"
  BY <1>8 DEF legalTransitions, JobStatuses
<1>9. CASE s = "failed"
  BY <1>9 DEF legalTransitions, JobStatuses
<1>10. CASE s = "cancelled"
  BY <1>10 DEF legalTransitions, JobStatuses
<1>q. QED
  BY <1>1, <1>2, <1>3, <1>4, <1>5, <1>6, <1>7, <1>8, <1>9, <1>10 DEF JobStatuses

\* A queue with room takes one more job (HasRoom).
LEMMA AppendFits ==
  ASSUME NEW j \in Jobs, queue \in Seq(Jobs), HasRoom
  PROVE  Append(queue, j) \in Seq(Jobs) /\ Len(Append(queue, j)) <= QueueBuffer
BY AppendProperties, ServiceAssumption DEF HasRoom

\* The end of a process keeps every variable in its range.
LEMMA ForgetType == TypeOK /\ Forget => TypeOK'
<1> SUFFICES ASSUME TypeOK, Forget PROVE TypeOK'
  OBVIOUS
<1> USE ServiceAssumption DEF TypeOK, Forget
<1>1. phase' = "down" /\ closed' = FALSE /\ left' = {} /\ unqueueable' = {}
  OBVIOUS
<1>2. queue' \in Seq(Jobs) /\ Len(queue') <= QueueBuffer
  OBVIOUS
<1>3. handler' \in [Jobs -> {"none", "enqueue", "accepted", "full", "rejected",
                            "panicked", "broken"}]
  OBVIOUS
<1>4. listed' \in [Jobs -> JobStatuses \cup {Absent}]
      /\ cancels' \in [Jobs -> Workers \cup {Nobody}]
  BY DEF NoListing
<1>5. /\ wpc' \in [Workers -> PCs] /\ wjob' \in [Workers -> Jobs \cup {NoJob}]
      /\ wstatus' \in [Workers -> JobStatuses]
      /\ wctx' \in [Workers -> {"live", "cancelled", "expired"}]
      /\ wrevs' \in [Workers -> 0..MaxRevisions]
  BY DEF PCs, JobStatuses
<1> QED
  BY <1>1, <1>2, <1>3, <1>4, <1>5 DEF durable

\* A run that notes its end (EndRun) keeps every variable in its range.
LEMMA EndRunTypes ==
  ASSUME IInv, NEW w \in Workers, NEW from, NEW s \in JobStatuses, NEW to \in PCs,
         EndRun(w, from, s, to)
  PROVE  TypeOK'
<1>1. wpc' \in [Workers -> PCs]
  BY DEF IInv, TypeOK, EndRun
<1>2. wstatus' \in [Workers -> JobStatuses]
  BY DEF IInv, TypeOK, EndRun
<1>3. stored' \in [Jobs -> JobStatuses \cup {Absent}]
  <2>1. stored' = stored \/ stored' = [stored EXCEPT ![wjob[w]] = s]
    BY DEF EndRun, Write, Refused
  <2> QED
    BY <2>1 DEF IInv, TypeOK
<1>4. UNCHANGED <<phase, worktrees, restarts, queue, closed, apiVars, recovery,
                  cancels, wjob, wctx, wrevs>>
  BY DEF EndRun
<1> QED
  BY <1>1, <1>2, <1>3, <1>4 DEF IInv, TypeOK, apiVars, recovery

\* Every step keeps every variable in its range.
LEMMA TypeStep == IInv /\ Next => TypeOK'
<1> SUFFICES ASSUME IInv, Next PROVE TypeOK'
  OBVIOUS
<1> USE ServiceAssumption
<1>1. ASSUME NEW j \in Jobs, Create(j) PROVE TypeOK'
  BY <1>1 DEF IInv, TypeOK, PCs, Create, Write, JobStatuses, vars, durable, apiVars, recovery, pool
<1>2. ASSUME NEW j \in Jobs, Enqueue(j) PROVE TypeOK'
  <2>1. queue' \in Seq(Jobs) /\ Len(queue') <= QueueBuffer
    BY <1>2, AppendFits DEF IInv, TypeOK, Enqueue
  <2>2. handler' \in [Jobs -> {"none", "enqueue", "accepted", "full", "rejected",
                              "panicked", "broken"}]
    <3>1. \E s \in {"panicked", "accepted", "full"} : handler' = [handler EXCEPT ![j] = s]
      BY <1>2 DEF Enqueue
    <3> QED
      BY <3>1 DEF IInv, TypeOK
  <2> QED
    BY <1>2, <2>1, <2>2 DEF IInv, TypeOK, Enqueue, durable, recovery, pool
<1>3. ASSUME NEW j \in Jobs, RejectFull(j) PROVE TypeOK'
  BY <1>3 DEF IInv, TypeOK, PCs, RejectFull, Write, Refused, JobStatuses, vars, durable, apiVars, recovery, pool
<1>4. ASSUME NEW j \in Jobs, Cancel(j) PROVE TypeOK'
  BY <1>4 DEF IInv, TypeOK, PCs, Cancel, Untrack, vars, durable, apiVars, recovery, pool
<1>5. ASSUME NEW j \in Jobs, RecoverQueued(j) PROVE TypeOK'
  <2>1. queue' \in Seq(Jobs) /\ Len(queue') <= QueueBuffer
    BY <1>5, AppendFits DEF IInv, TypeOK, RecoverQueued
  <2>2. unqueueable' \subseteq Jobs /\ left' \subseteq Jobs
    BY <1>5 DEF IInv, TypeOK, RecoverQueued, Handled
  <2> QED
    BY <1>5, <2>1, <2>2 DEF IInv, TypeOK, RecoverQueued, durable, apiVars, pool
<1>6. ASSUME NEW j \in Jobs, ReclaimWorktree(j) PROVE TypeOK'
  BY <1>6 DEF IInv, TypeOK, PCs, ReclaimWorktree, vars, durable, apiVars, recovery, pool
<1>7. ASSUME NEW j \in Jobs, FailInterrupted(j) PROVE TypeOK'
  BY <1>7 DEF IInv, TypeOK, PCs, FailInterrupted, Write, Refused, Handled, Reclaimed, JobStatuses, vars, durable, apiVars, recovery, pool
<1>8. ASSUME NEW j \in Jobs, SkipTerminal(j) PROVE TypeOK'
  BY <1>8 DEF IInv, TypeOK, PCs, SkipTerminal, Handled, vars, durable, apiVars, recovery, pool
<1>9. ASSUME NEW w \in Workers, Dequeue(w) PROVE TypeOK'
  BY <1>9 DEF IInv, TypeOK, PCs, Dequeue, IdleIsFree, vars, durable, apiVars, recovery, pool
<1>10. ASSUME NEW w \in Workers, WorkerStops(w) PROVE TypeOK'
  BY <1>10 DEF IInv, TypeOK, PCs, WorkerStops, IdleIsFree, vars, durable, apiVars, recovery, pool
<1>11. ASSUME NEW w \in Workers, Load(w) PROVE TypeOK'
  BY <1>11 DEF IInv, TypeOK, PCs, Load, AbsentIsUnclaimed, IdleIsFree, Running, IdleIsFree, vars, durable, apiVars, recovery, pool
<1>12. ASSUME NEW w \in Workers, CheckOut(w) PROVE TypeOK'
  BY <1>12 DEF IInv, TypeOK, PCs, CheckOut, IdleIsFree, IdleIsFree, vars, durable, apiVars, recovery, pool
<1>13. ASSUME NEW w \in Workers, Advance(w) PROVE TypeOK'
  <2>1. PICK s \in legalTransitions[wstatus[w]] \ {"failed", "cancelled"} :
          Advance(w)!3!(s)
    BY <1>13 DEF Advance
  <2>2. s \in JobStatuses
    BY <2>1, LegalStatuses DEF IInv, TypeOK
  <2>3. wrevs' \in [Workers -> 0..MaxRevisions]
    BY <2>1 DEF IInv, TypeOK
  <2>4. wstatus' \in [Workers -> JobStatuses]
    BY <2>1, <2>2 DEF IInv, TypeOK
  <2>5. stored' \in [Jobs -> JobStatuses \cup {Absent}]
    BY <2>1, <2>2 DEF IInv, TypeOK, Write, Refused
  <2>6. wpc' \in [Workers -> PCs]
    BY <2>1 DEF IInv, TypeOK, PCs, AfterRefusal
  <2> QED
    BY <1>13, <2>3, <2>4, <2>5, <2>6 DEF IInv, TypeOK, Advance, apiVars, recovery
<1>14. ASSUME NEW w \in Workers, Interrupt(w) PROVE TypeOK'
  BY <1>14 DEF IInv, TypeOK, PCs, Interrupt, IdleIsFree, vars, durable, apiVars, recovery, pool
<1>15. ASSUME NEW w \in Workers, StageFails(w) PROVE TypeOK'
  BY <1>15 DEF IInv, TypeOK, PCs, StageFails, IdleIsFree, vars, durable, apiVars, recovery, pool
<1>16. ASSUME NEW w \in Workers, Panic(w) PROVE TypeOK'
  BY <1>16 DEF IInv, TypeOK, PCs, Panic, IdleIsFree, vars, durable, apiVars, recovery, pool
<1>17. ASSUME NEW w \in Workers, Unwind(w) PROVE TypeOK'
  BY <1>17 DEF IInv, TypeOK, PCs, Unwind, RemoveCheckout, Untrack, IdleIsFree, vars, durable, apiVars, recovery, pool
<1>18. ASSUME NEW w \in Workers, MarkFailed(w) PROVE TypeOK'
  BY <1>18, EndRunTypes DEF MarkFailed, PCs, JobStatuses
<1>19. ASSUME NEW w \in Workers, MarkCancelled(w) PROVE TypeOK'
  BY <1>19, EndRunTypes DEF MarkCancelled, PCs, JobStatuses
<1>20. ASSUME NEW w \in Workers, Cleanup(w) PROVE TypeOK'
  BY <1>20 DEF IInv, TypeOK, PCs, Cleanup, RemoveCheckout, IdleIsFree, vars, durable, apiVars, recovery, pool
<1>21. ASSUME NEW w \in Workers, Release(w) PROVE TypeOK'
  <2>1. /\ cancels' \in [Jobs -> Workers \cup {Nobody}]
        /\ wjob' \in [Workers -> Jobs \cup {NoJob}]
    BY <1>21 DEF IInv, TypeOK, Release, Untrack
  <2>2. wpc' \in [Workers -> PCs] /\ wstatus' \in [Workers -> JobStatuses]
    BY <1>21 DEF IInv, TypeOK, Release, PCs, JobStatuses
  <2>3. /\ wctx' \in [Workers -> {"live", "cancelled", "expired"}]
        /\ wrevs' \in [Workers -> 0..MaxRevisions]
    BY <1>21 DEF IInv, TypeOK, Release
  <2>4. UNCHANGED <<phase, durable, restarts, queue, closed, apiVars, recovery>>
    BY <1>21 DEF Release
  <2> QED
    BY <2>1, <2>2, <2>3, <2>4 DEF IInv, TypeOK, durable, apiVars, recovery
<1>22. ASSUME NEW w \in Workers, Expire(w) PROVE TypeOK'
  BY <1>22 DEF IInv, TypeOK, PCs, Expire, IdleIsFree, vars, durable, apiVars, recovery, pool
<1>23. ASSUME Serve PROVE TypeOK'
  BY <1>23 DEF IInv, TypeOK, PCs, Serve, NoListing, vars, durable, apiVars, recovery, pool
<1>24. ASSUME Signal PROVE TypeOK'
  BY <1>24 DEF IInv, TypeOK, PCs, Signal, vars, durable, apiVars, recovery, pool
<1>25. ASSUME CancelWorkers PROVE TypeOK'
  BY <1>25 DEF IInv, TypeOK, PCs, CancelWorkers, vars, durable, apiVars, recovery, pool
<1>26. ASSUME CloseQueue PROVE TypeOK'
  BY <1>26 DEF IInv, TypeOK, PCs, CloseQueue, vars, durable, apiVars, recovery, pool
<1>27. ASSUME Exit PROVE TypeOK'
  BY <1>27, ForgetType DEF IInv, Exit
<1>28. ASSUME Crash PROVE TypeOK'
  BY <1>28, ForgetType DEF IInv, Crash
<1>29. ASSUME Restart PROVE TypeOK'
  BY <1>29 DEF IInv, TypeOK, PCs, Restart, vars, durable, apiVars, recovery, pool
<1>30. ASSUME Rest PROVE TypeOK'
  BY <1>30 DEF IInv, TypeOK, PCs, Rest, vars, durable, apiVars, recovery, pool
<1>q. QED
  BY <1>1, <1>2, <1>3, <1>4, <1>5, <1>6, <1>7, <1>8, <1>9, <1>10, <1>11, <1>12, <1>13, <1>14, <1>15, <1>16, <1>17, <1>18, <1>19, <1>20, <1>21, <1>22, <1>23, <1>24, <1>25, <1>26, <1>27, <1>28, <1>29, <1>30
     DEF Next, JobStep, WorkerStep, RunStep, ProcessStep
-----------------------------------------------------------------------------
(* One claim per job. *)

\* OneClaim says what the pairs of claims say together.
LEMMA OneClaimIsClaims == TypeOK => (OneClaim <=> Claims)
<1> SUFFICES ASSUME TypeOK PROVE OneClaim <=> Claims
  OBVIOUS
<1>1. \A j : RunnerOf(j) = {} <=> ~Running(j)
  BY DEF RunnerOf, Running
<1>2. \A j : InQueue(j) <=> Queued(j)
  BY DEF InQueue, Queued
<1> QED
  BY <1>1, <1>2
     DEF OneClaim, Claims, QueueIsInjective, WorkersAreDistinct, QueuedNotRunning,
         PendingIsAlone, ListedIsAlone, Pending

\* What leaves the queue and the workers alone and adds nobody who waits.
LEMMA ClaimsKept ==
  ASSUME Claims, UNCHANGED <<queue, wjob>>,
         \A j \in Jobs : Pending(j)' => Pending(j),
         left' \subseteq left
  PROVE  Claims'
<1>1. \A j : (Queued(j)' <=> Queued(j)) /\ (Running(j)' <=> Running(j))
  BY DEF Queued, Running
<1> QED
  BY <1>1 DEF Claims, QueueIsInjective, WorkersAreDistinct, QueuedNotRunning,
              PendingIsAlone, ListedIsAlone

\* A job that waits alone moves to the end of the queue.
LEMMA ClaimsAppend ==
  ASSUME TypeOK, Claims, NEW j \in Jobs, ~Queued(j), ~Running(j),
         queue' = Append(queue, j), wjob' = wjob,
         \A i \in Jobs : Pending(i)' => Pending(i) /\ i # j,
         left' \subseteq left \ {j}
  PROVE  Claims'
<1>1. /\ Len(queue') = Len(queue) + 1 /\ queue'[Len(queue) + 1] = j
      /\ \A i \in 1..Len(queue) : queue'[i] = queue[i]
      /\ Len(queue) \in Nat
  BY AppendProperties DEF TypeOK
<1>2. \A i \in Jobs : Queued(i)' <=> Queued(i) \/ i = j
  BY <1>1 DEF Queued
<1>3. \A i : Running(i)' <=> Running(i)
  BY DEF Running
<1>4. QueueIsInjective'
  BY <1>1 DEF Claims, QueueIsInjective, Queued
<1> QED
  BY <1>2, <1>3, <1>4
     DEF Claims, WorkersAreDistinct, QueuedNotRunning, PendingIsAlone, ListedIsAlone

\* A free worker takes the head of the queue.
LEMMA ClaimsDequeue ==
  ASSUME IInv, NEW w \in Workers, Dequeue(w)
  PROVE  Claims'
<1> USE DEF IInv
<1>1. /\ queue # <<>> /\ queue \in Seq(Jobs) /\ Head(queue) \in Jobs
      /\ Len(queue) \in Nat \ {0} /\ queue[1] = Head(queue)
      /\ queue' = Tail(queue)
      /\ Len(queue') = Len(queue) - 1
      /\ \A i \in 1..Len(queue') : queue'[i] = queue[i + 1]
  BY DEF Dequeue, TypeOK
<1>2. /\ wjob[w] = NoJob /\ wjob' = [wjob EXCEPT ![w] = Head(queue)]
      /\ wjob \in [Workers -> Jobs \cup {NoJob}]
  BY DEF Dequeue, IdleIsFree, TypeOK
<1>3. /\ left' = left
      /\ \A i \in Jobs : Pending(i)' <=> Pending(i)
  BY DEF Dequeue, apiVars, recovery, Pending
<1>4. \A i \in Jobs : Queued(i)' => Queued(i) /\ i # Head(queue)
  BY <1>1 DEF Queued, Claims, QueueIsInjective
<1>5. \A i \in Jobs : Running(i)' => Running(i) \/ i = Head(queue)
  BY <1>2 DEF Running
<1>6. Queued(Head(queue)) /\ ~Running(Head(queue))
  BY <1>1 DEF Queued, Claims, QueuedNotRunning
<1>7. QueueIsInjective'
  BY <1>1 DEF Claims, QueueIsInjective
<1>8. WorkersAreDistinct'
  BY <1>1, <1>2, <1>6 DEF Claims, WorkersAreDistinct, Running
<1> QED
  BY <1>1, <1>3, <1>4, <1>5, <1>6, <1>7, <1>8
     DEF Claims, QueuedNotRunning, PendingIsAlone, ListedIsAlone

\* A process that ends drops every claim; one that starts lists the stored jobs.
LEMMA ClaimsEmpty ==
  ASSUME queue' = <<>>, \A w \in Workers : wjob'[w] = NoJob,
         \A j \in Jobs : ~Pending(j)'
  PROVE  Claims'
<1>1. \A j \in Jobs : ~Queued(j)' /\ ~Running(j)'
  BY ServiceAssumption DEF Queued, Running
<1> QED
  BY <1>1 DEF Claims, QueueIsInjective, WorkersAreDistinct, QueuedNotRunning,
              PendingIsAlone, ListedIsAlone

\* No step gives a job a second claim.
LEMMA ClaimsStep == IInv /\ Next => Claims'
<1> SUFFICES ASSUME IInv, Next PROVE Claims'
  OBVIOUS
<1> USE DEF IInv
<1>1. ASSUME NEW j \in Jobs, Create(j) PROVE Claims'
  <2>1. /\ UNCHANGED <<queue, wjob, left>>
        /\ \A i \in Jobs : Pending(i)' <=> Pending(i) \/ i = j
    BY <1>1 DEF Create, recovery, pool, Pending, TypeOK
  <2>2. ~Queued(j) /\ ~Running(j) /\ j \notin left
    BY <1>1 DEF Create, AbsentIsUnclaimed
  <2>3. \A i \in Jobs : (Queued(i)' <=> Queued(i)) /\ (Running(i)' <=> Running(i))
    BY <2>1 DEF Queued, Running
  <2> QED
    BY <2>1, <2>2, <2>3
       DEF Claims, QueueIsInjective, WorkersAreDistinct, QueuedNotRunning,
           PendingIsAlone, ListedIsAlone
<1>2. ASSUME NEW j \in Jobs, Enqueue(j) PROVE Claims'
  <2>1. /\ Pending(j) /\ ~Queued(j) /\ ~Running(j) /\ j \notin left
        /\ UNCHANGED <<wjob, left>>
        /\ \A i \in Jobs : Pending(i)' => Pending(i)
    BY <1>2 DEF Enqueue, Pending, Claims, PendingIsAlone, recovery, pool, TypeOK
  <2>2. CASE queue' = queue
    BY <2>1, <2>2, ClaimsKept
  <2>3. CASE queue' = Append(queue, j) /\ handler' = [handler EXCEPT ![j] = "accepted"]
    <3>1. \A i \in Jobs : Pending(i)' => Pending(i) /\ i # j
      BY <2>1, <2>3 DEF Pending, TypeOK
    <3> QED
      BY <2>1, <2>3, <3>1, ClaimsAppend
  <2> QED
    BY <1>2, <2>2, <2>3 DEF Enqueue
<1>3. ASSUME NEW j \in Jobs, RejectFull(j) PROVE Claims'
  <2>1. \A i \in Jobs : Pending(i)' => Pending(i)
    BY <1>3 DEF RejectFull, Pending, TypeOK
  <2> QED
    BY <1>3, <2>1, ClaimsKept DEF RejectFull, recovery, pool
<1>4. ASSUME NEW j \in Jobs, RecoverQueued(j) PROVE Claims'
  <2>1. /\ j \in left /\ ~Queued(j) /\ ~Running(j) /\ ~Pending(j)
        /\ wjob' = wjob /\ left' = left \ {j}
        /\ \A i \in Jobs : Pending(i)' => Pending(i)
    BY <1>4 DEF RecoverQueued, Handled, Claims, ListedIsAlone, PendingIsAlone,
                Pending, apiVars, pool
  <2>2. CASE queue' = queue
    BY <2>1, <2>2, ClaimsKept
  <2>3. CASE queue' = Append(queue, j)
    BY <2>1, <2>3, ClaimsAppend
  <2> QED
    BY <1>4, <2>2, <2>3 DEF RecoverQueued
<1>5. ASSUME NEW j \in Jobs, FailInterrupted(j) \/ SkipTerminal(j) PROVE Claims'
  <2>1. left' \subseteq left /\ UNCHANGED <<queue, wjob, handler>>
    BY <1>5 DEF FailInterrupted, SkipTerminal, Handled, apiVars, pool
  <2> QED
    BY <2>1, ClaimsKept DEF Pending
<1>6. ASSUME NEW w \in Workers, Dequeue(w) PROVE Claims'
  BY <1>6, ClaimsDequeue
<1>7. ASSUME NEW w \in Workers, Release(w) PROVE Claims'
  <2>1. /\ UNCHANGED <<queue, handler, left>>
        /\ wjob' = [wjob EXCEPT ![w] = NoJob]
        /\ wjob \in [Workers -> Jobs \cup {NoJob}]
    BY <1>7 DEF Release, apiVars, recovery, TypeOK
  <2>2. \A j \in Jobs : /\ Running(j)' => Running(j)
                        /\ (Queued(j)' <=> Queued(j)) /\ (Pending(j)' <=> Pending(j))
    BY <2>1, ServiceAssumption DEF Running, Queued, Pending
  <2>3. WorkersAreDistinct'
    BY <2>1 DEF Claims, WorkersAreDistinct
  <2> QED
    BY <2>1, <2>2, <2>3
       DEF Claims, QueueIsInjective, QueuedNotRunning, PendingIsAlone, ListedIsAlone
<1>8. ASSUME Forget PROVE Claims'
  BY <1>8, ClaimsEmpty DEF Forget, Pending, TypeOK
<1>9. ASSUME Restart PROVE Claims'
  <2>1. /\ queue' = <<>> /\ \A w \in Workers : wjob'[w] = NoJob
        /\ \A j \in Jobs : ~Pending(j)'
    BY <1>9 DEF Restart, DownIsEmpty, apiVars, pool, Pending
  <2> QED
    BY <2>1, ClaimsEmpty
<1>10. ASSUME UNCHANGED <<queue, wjob, handler, left>> PROVE Claims'
  BY <1>10, ClaimsKept DEF Pending
<1> QED
  <2>1. ASSUME NEW j \in Jobs, JobStep(j) PROVE Claims'
    BY <1>1, <1>2, <1>3, <1>4, <1>5, <1>10, <2>1
       DEF JobStep, Cancel, ReclaimWorktree, apiVars, recovery, pool
  <2>2. ASSUME NEW w \in Workers, WorkerStep(w) PROVE Claims'
    BY <1>6, <1>7, <1>10, <2>2
       DEF WorkerStep, RunStep, WorkerStops, Load, CheckOut, Advance, Interrupt,
           StageFails, Panic, Unwind, MarkFailed, MarkCancelled, EndRun, Cleanup,
           Expire, apiVars, recovery, pool
  <2>3. ASSUME ProcessStep \/ Rest PROVE Claims'
    BY <1>8, <1>9, <1>10, <2>3
       DEF ProcessStep, Serve, Signal, CancelWorkers, CloseQueue, Exit, Crash, Rest,
           vars, apiVars, recovery, pool
  <2> QED
    BY <2>1, <2>2, <2>3 DEF Next
-----------------------------------------------------------------------------
(* The other parts of the invariant. *)

\* A worker takes a job with Dequeue and gives it back with Release.
LEMMA IdleStep == IInv /\ Next => IdleIsFree'
<1> SUFFICES ASSUME IInv, Next PROVE IdleIsFree'
  OBVIOUS
<1> USE ServiceAssumption DEF IInv, IdleIsFree
<1>1. ASSUME NEW j \in Jobs, JobStep(j) PROVE IdleIsFree'
  BY <1>1 DEF JobStep, Create, Enqueue, RejectFull, Cancel, RecoverQueued,
              ReclaimWorktree, FailInterrupted, SkipTerminal, pool
<1>2. ASSUME NEW w \in Workers, Dequeue(w) PROVE IdleIsFree'
  BY <1>2 DEF Dequeue, TypeOK
<1>3. ASSUME NEW w \in Workers, WorkerStops(w) \/ Release(w) PROVE IdleIsFree'
  BY <1>3 DEF WorkerStops, Release, TypeOK
<1>4. ASSUME NEW w \in Workers,
             Load(w) \/ Interrupt(w) \/ StageFails(w) \/ Panic(w) \/ Unwind(w) \/ Cleanup(w)
      PROVE  IdleIsFree'
  <2>1. wpc[w] \in {"load", "run", "unwind", "cleanup"} /\ wjob' = wjob
    BY <1>4 DEF Load, Interrupt, StageFails, Panic, Unwind, Cleanup
  <2>2. \E p \in {"run", "failing", "cancelling", "unwind", "recovered", "release"} :
          wpc' = [wpc EXCEPT ![w] = p]
    BY <1>4 DEF Load, Interrupt, StageFails, Panic, Unwind, Cleanup
  <2> QED
    BY <2>1, <2>2 DEF TypeOK
<1>5. ASSUME NEW w \in Workers, MarkFailed(w) \/ MarkCancelled(w) PROVE IdleIsFree'
  BY <1>5 DEF MarkFailed, MarkCancelled, EndRun, TypeOK
<1>6. ASSUME NEW w \in Workers, Advance(w) PROVE IdleIsFree'
  <2>1. wpc[w] = "run" /\ wjob' = wjob
    BY <1>6 DEF Advance
  <2>2. \E p \in {"run", "cleanup", "failing"} : wpc' = [wpc EXCEPT ![w] = p]
    BY <1>6 DEF Advance, AfterRefusal
  <2> QED
    BY <2>1, <2>2 DEF TypeOK
<1>7. ASSUME NEW w \in Workers, CheckOut(w) \/ Expire(w) PROVE IdleIsFree'
  BY <1>7 DEF CheckOut, Expire, pool
<1>8. ASSUME Exit \/ Crash PROVE IdleIsFree'
  BY <1>8 DEF Exit, Crash, Forget
<1>9. ASSUME Serve \/ Signal \/ CancelWorkers \/ CloseQueue \/ Restart \/ Rest
      PROVE  IdleIsFree'
  BY <1>9 DEF Serve, Signal, CancelWorkers, CloseQueue, Restart, Rest, vars, pool
<1> QED
  BY <1>1, <1>2, <1>3, <1>4, <1>5, <1>6, <1>7, <1>8, <1>9
     DEF Next, WorkerStep, RunStep, ProcessStep

\* The only writes of a job's record.
LEMMA OnlyTheClaimWrites ==
  ASSUME IInv, Next, NEW i \in Jobs, stored'[i] # stored[i]
  PROVE  /\ stored'[i] \in JobStatuses
         /\ \/ Create(i) \/ RejectFull(i) \/ FailInterrupted(i)
            \/ \E w \in Workers : /\ wjob[w] = i
                                  /\ Advance(w) \/ MarkFailed(w) \/ MarkCancelled(w)
<1> USE DEF IInv
<1>1. ASSUME NEW j \in Jobs, Create(j) \/ RejectFull(j) \/ FailInterrupted(j)
      PROVE  i = j
  BY <1>1 DEF Create, RejectFull, FailInterrupted, Write, Refused, TypeOK
<1>2. ASSUME NEW w \in Workers, Advance(w) \/ MarkFailed(w) \/ MarkCancelled(w)
      PROVE  wjob[w] = i
  BY <1>2 DEF Advance, MarkFailed, MarkCancelled, EndRun, Write, Refused, TypeOK
<1>3. \/ \E j \in Jobs : Create(j) \/ RejectFull(j) \/ FailInterrupted(j)
      \/ \E w \in Workers : Advance(w) \/ MarkFailed(w) \/ MarkCancelled(w)
  <2>1. ASSUME NEW j \in Jobs,
               Enqueue(j) \/ Cancel(j) \/ RecoverQueued(j) \/ ReclaimWorktree(j)
               \/ SkipTerminal(j)
        PROVE  FALSE
    BY <2>1 DEF Enqueue, Cancel, RecoverQueued, ReclaimWorktree, SkipTerminal, durable
  <2>2. ASSUME NEW w \in Workers,
               Dequeue(w) \/ WorkerStops(w) \/ Load(w) \/ CheckOut(w) \/ Interrupt(w)
               \/ StageFails(w) \/ Panic(w) \/ Unwind(w) \/ Cleanup(w) \/ Release(w)
               \/ Expire(w)
        PROVE  FALSE
    BY <2>2 DEF Dequeue, WorkerStops, Load, CheckOut, Interrupt, StageFails, Panic,
                Unwind, Cleanup, Release, Expire, durable
  <2>3. ASSUME ProcessStep \/ Rest PROVE FALSE
    BY <2>3 DEF ProcessStep, Serve, Signal, CancelWorkers, CloseQueue, Exit, Crash,
                Forget, Restart, Rest, vars, durable
  <2> QED
    BY <2>1, <2>2, <2>3 DEF Next, JobStep, WorkerStep, RunStep
<1>4. stored'[i] # Absent
  <2>1. ASSUME NEW j \in Jobs, Create(j) \/ RejectFull(j) \/ FailInterrupted(j)
        PROVE  stored'[i] \in {"queued", "failed"}
    BY <1>1, <2>1 DEF Create, RejectFull, FailInterrupted, Write, Refused, TypeOK
  <2>2. ASSUME NEW w \in Workers, MarkFailed(w) \/ MarkCancelled(w)
        PROVE  stored'[i] \in {"failed", "cancelled"}
    BY <1>2, <2>2 DEF MarkFailed, MarkCancelled, EndRun, Write, Refused, TypeOK
  <2>3. ASSUME NEW w \in Workers, Advance(w)
        PROVE  stored'[i] \in legalTransitions[wstatus[w]]
    BY <1>2, <2>3 DEF Advance, Write, Refused, TypeOK
  <2>4. \A w \in Workers : legalTransitions[wstatus[w]] \subseteq JobStatuses
    BY LegalStatuses DEF TypeOK
  <2>5. Absent \notin {"queued", "failed", "cancelled"} \cup JobStatuses
    BY ServiceAssumption DEF JobStatuses
  <2> QED
    BY <1>3, <2>1, <2>2, <2>3, <2>4, <2>5
<1> QED
  BY <1>1, <1>2, <1>3, <1>4, TypeStep DEF TypeOK

\* Who claims a job finds it stored (Create, Restart).
LEMMA AbsentStep == IInv /\ Next => AbsentIsUnclaimed'
<1> SUFFICES ASSUME IInv, Next, NEW i \in Jobs, stored'[i] = Absent
             PROVE  ~Queued(i)' /\ ~Running(i)' /\ i \notin left'
  BY DEF AbsentIsUnclaimed
<1> USE DEF IInv
<1>1. stored[i] = Absent
  BY OnlyTheClaimWrites, ServiceAssumption
<1>2. ~Queued(i) /\ ~Running(i) /\ i \notin left /\ ~Pending(i)
  BY <1>1, ServiceAssumption DEF AbsentIsUnclaimed, PendingIsQueued, JobStatuses
<1>3. CASE UNCHANGED <<queue, wjob, left>>
  BY <1>2, <1>3 DEF Queued, Running
<1>4. ASSUME NEW j \in Jobs, Enqueue(j) \/ RecoverQueued(j)
      PROVE  ~Queued(i)' /\ ~Running(i)' /\ i \notin left'
  <2>1. i # j /\ wjob' = wjob /\ left' \subseteq left
    BY <1>2, <1>4 DEF Enqueue, RecoverQueued, Handled, Pending, apiVars, pool, recovery
  <2>2. queue' = queue \/ queue' = Append(queue, j)
    BY <1>4 DEF Enqueue, RecoverQueued
  <2>3. ~Queued(i)'
    <3>1. CASE queue' = queue
      BY <1>2, <3>1 DEF Queued
    <3>2. CASE queue' = Append(queue, j)
      <4>1. /\ Len(queue') = Len(queue) + 1 /\ queue'[Len(queue) + 1] = j
            /\ \A n \in 1..Len(queue) : queue'[n] = queue[n]
            /\ Len(queue) \in Nat
        BY <3>2, AppendProperties DEF TypeOK
      <4> QED
        BY <1>2, <2>1, <4>1 DEF Queued
    <3> QED
      BY <2>2, <3>1, <3>2
  <2> QED
    BY <1>2, <2>1, <2>3 DEF Running
<1>5. ASSUME NEW w \in Workers, Dequeue(w)
      PROVE  ~Queued(i)' /\ ~Running(i)' /\ i \notin left'
  <2>1. /\ queue # <<>> /\ queue \in Seq(Jobs) /\ queue[1] = Head(queue)
        /\ Len(queue) \in Nat \ {0} /\ queue' = Tail(queue)
        /\ Len(queue') = Len(queue) - 1
        /\ \A n \in 1..Len(queue') : queue'[n] = queue[n + 1]
    BY <1>5 DEF Dequeue, TypeOK
  <2>2. Head(queue) # i
    BY <1>2, <2>1 DEF Queued
  <2>3. ~Running(i)'
    BY <1>2, <1>5, <2>2 DEF Dequeue, Running, TypeOK
  <2>4. ~Queued(i)'
    BY <1>2, <2>1 DEF Queued
  <2> QED
    BY <1>2, <1>5, <2>3, <2>4 DEF Dequeue, recovery
<1>6. ASSUME NEW w \in Workers, Release(w)
      PROVE  ~Queued(i)' /\ ~Running(i)' /\ i \notin left'
  BY <1>2, <1>6, ServiceAssumption DEF Release, Queued, Running, TypeOK, recovery
<1>7. ASSUME NEW j \in Jobs, FailInterrupted(j) \/ SkipTerminal(j)
      PROVE  ~Queued(i)' /\ ~Running(i)' /\ i \notin left'
  BY <1>2, <1>7 DEF FailInterrupted, SkipTerminal, Handled, Queued, Running, pool
<1>8. ASSUME Forget PROVE ~Queued(i)' /\ ~Running(i)' /\ i \notin left'
  BY <1>8, ServiceAssumption DEF Forget, Queued, Running
<1>9. ASSUME Restart PROVE ~Queued(i)' /\ ~Running(i)' /\ i \notin left'
  BY <1>1, <1>2, <1>9 DEF Restart, Queued, Running, pool
<1>10. ASSUME NEW j \in Jobs, JobStep(j)
       PROVE  ~Queued(i)' /\ ~Running(i)' /\ i \notin left'
  BY <1>3, <1>4, <1>7, <1>10
     DEF JobStep, Create, RejectFull, Cancel, ReclaimWorktree, recovery, pool
<1>11. ASSUME NEW w \in Workers, WorkerStep(w)
       PROVE  ~Queued(i)' /\ ~Running(i)' /\ i \notin left'
  BY <1>3, <1>5, <1>6, <1>11
     DEF WorkerStep, RunStep, WorkerStops, Load, CheckOut, Advance, Interrupt,
         StageFails, Panic, Unwind, MarkFailed, MarkCancelled, EndRun, Cleanup,
         Expire, recovery, pool
<1>12. ASSUME ProcessStep \/ Rest
       PROVE  ~Queued(i)' /\ ~Running(i)' /\ i \notin left'
  BY <1>3, <1>8, <1>9, <1>12
     DEF ProcessStep, Serve, Signal, CancelWorkers, CloseQueue, Exit, Crash, Rest,
         vars, recovery, pool
<1> QED
  BY <1>10, <1>11, <1>12 DEF Next

\* A process that has ended does nothing but start again.
LEMMA DownStep == IInv /\ Next => DownIsEmpty'
<1> SUFFICES ASSUME IInv, Next, phase' = "down" PROVE DownIsEmpty'
  BY DEF DownIsEmpty
<1> USE DEF IInv
<1>1. ASSUME Forget PROVE DownIsEmpty'
  BY <1>1 DEF Forget, DownIsEmpty, Pending, TypeOK
<1>2. ASSUME phase = "down", UNCHANGED <<queue, left, wjob, handler>>
      PROVE  DownIsEmpty'
  BY <1>2 DEF DownIsEmpty, Pending
<1>3. ASSUME NEW j \in Jobs, JobStep(j) PROVE DownIsEmpty'
  BY <1>3 DEF JobStep, Create, Enqueue, RejectFull, Cancel, RecoverQueued,
              ReclaimWorktree, FailInterrupted, SkipTerminal, Up, Answering
<1>4. ASSUME NEW w \in Workers, WorkerStep(w) PROVE DownIsEmpty'
  <2>1. phase = "down"
    BY <1>4 DEF WorkerStep, RunStep, Dequeue, WorkerStops, Load, CheckOut, Advance,
                Interrupt, StageFails, Panic, Unwind, MarkFailed, MarkCancelled,
                EndRun, Cleanup, Release, Expire
  <2>2. wpc[w] \in {"idle", "gone"}
    BY <2>1 DEF DownIsEmpty, IdleIsFree
  <2> QED
    BY <1>4, <2>1, <2>2
       DEF WorkerStep, RunStep, Dequeue, WorkerStops, Load, CheckOut, Advance,
           Interrupt, StageFails, Panic, Unwind, MarkFailed, MarkCancelled,
           EndRun, Cleanup, Release, Expire, Up, Stopped
<1>5. ASSUME ProcessStep \/ Rest PROVE DownIsEmpty'
  BY <1>1, <1>2, <1>5
     DEF ProcessStep, Serve, Signal, CancelWorkers, CloseQueue, Exit, Crash, Restart,
         Rest, vars, apiVars, recovery, pool
<1> QED
  BY <1>3, <1>4, <1>5 DEF Next

\* The record of a job that is submitted or listed is left alone.
LEMMA WaitingStep == IInv /\ Next => PendingIsQueued' /\ ListingIsCurrent'
<1> SUFFICES ASSUME IInv, Next PROVE PendingIsQueued' /\ ListingIsCurrent'
  OBVIOUS
<1> USE DEF IInv
<1>1. ASSUME NEW i \in Jobs, Pending(i)' PROVE stored'[i] = "queued"
  <2>1. Pending(i) \/ Create(i)
    <3>1. ASSUME NEW j \in Jobs, JobStep(j) PROVE Pending(i) \/ Create(i)
      BY <1>1, <3>1 DEF JobStep, Create, Enqueue, RejectFull, Cancel, RecoverQueued,
         ReclaimWorktree, FailInterrupted, SkipTerminal, apiVars, Pending, TypeOK
    <3>2. ASSUME NEW w \in Workers, WorkerStep(w) PROVE handler' = handler
      BY <3>2 DEF WorkerStep, RunStep, Dequeue, WorkerStops, Load, CheckOut, Advance,
         Interrupt, StageFails, Panic, Unwind, MarkFailed, MarkCancelled, EndRun, Cleanup,
         Release, Expire, apiVars
    <3>3. ASSUME ProcessStep \/ Rest PROVE Pending(i)
      BY <1>1, <3>3 DEF ProcessStep, Serve, Signal, CancelWorkers, CloseQueue, Exit, Crash,
         Forget, Restart, Rest, vars, apiVars, Pending, TypeOK
    <3> QED
      BY <1>1, <3>1, <3>2, <3>3 DEF Next, Pending
  <2>2. CASE Create(i)
    BY <2>2 DEF Create, Write, TypeOK
  <2>3. CASE Pending(i)
    <3>1. stored[i] = "queued" /\ ~Running(i) /\ i \notin left
      BY <2>3 DEF PendingIsQueued, Claims, PendingIsAlone
    <3>2. ~RejectFull(i)
      BY <1>1 DEF RejectFull, Pending, TypeOK
    <3>3. ~Create(i) /\ ~FailInterrupted(i)
      BY <2>3, <3>1 DEF Create, FailInterrupted, Pending
    <3> QED
      BY <3>1, <3>2, <3>3, OnlyTheClaimWrites DEF Running
  <2> QED
    BY <2>1, <2>2, <2>3
<1>2. ASSUME NEW i \in left' PROVE listed'[i] = stored'[i]
  <2>1. i \in Jobs
    BY <1>2, TypeStep DEF TypeOK
  <2>2. CASE Restart
    BY <2>2 DEF Restart, durable
  <2>3. CASE ~Restart
    <3>1. i \in left /\ listed'[i] = listed[i]
      BY <1>2, <2>3 DEF Next, JobStep, WorkerStep, RunStep, ProcessStep, Create, Enqueue,
       RejectFull, Cancel, RecoverQueued, ReclaimWorktree, FailInterrupted,
       SkipTerminal, Handled, Dequeue, WorkerStops, Load, CheckOut, Advance, Interrupt,
       StageFails, Panic, Unwind, MarkFailed, MarkCancelled, EndRun, Cleanup,
       Release, Expire, Serve, Signal, CancelWorkers, CloseQueue, Exit, Crash,
       Forget, Rest, vars, recovery
    <3>2. ~Running(i) /\ ~Pending(i) /\ stored[i] # Absent /\ listed[i] = stored[i]
      BY <2>1, <3>1 DEF Claims, ListedIsAlone, PendingIsAlone, AbsentIsUnclaimed,
                        ListingIsCurrent
    <3>3. ~FailInterrupted(i) /\ ~Create(i) /\ ~RejectFull(i)
      BY <1>2, <3>2 DEF FailInterrupted, Handled, Create, RejectFull, Pending
    <3> QED
      BY <2>1, <3>1, <3>2, <3>3, OnlyTheClaimWrites DEF Running
  <2> QED
    BY <2>2, <2>3
<1> QED
  BY <1>1, <1>2 DEF PendingIsQueued, ListingIsCurrent
-----------------------------------------------------------------------------
(* The record of a job that waits or runs. *)

\* A step of one worker leaves the others as they are; a step of nobody's
\* leaves all workers as they are, or the process ends.
LEMMA OtherWorkers ==
  ASSUME IInv, Next, NEW v \in Workers,
         ~Dequeue(v), ~RunStep(v), ~Exit, ~Crash, wpc'[v] \notin {"idle", "gone"}
  PROVE  /\ wpc'[v] = wpc[v] /\ wjob'[v] = wjob[v] /\ wstatus'[v] = wstatus[v]
<1> USE DEF IInv, TypeOK
<1>1. ASSUME NEW j \in Jobs, JobStep(j)
      PROVE  UNCHANGED <<wpc, wjob, wstatus>>
  BY <1>1 DEF JobStep, Create, Enqueue, RejectFull, Cancel, RecoverQueued,
              ReclaimWorktree, FailInterrupted, SkipTerminal, pool
<1>2. ASSUME NEW w \in Workers, WorkerStep(w), w # v
      PROVE  wpc'[v] = wpc[v] /\ wjob'[v] = wjob[v] /\ wstatus'[v] = wstatus[v]
  <2>1. CASE MarkFailed(w) \/ MarkCancelled(w)
    BY <1>2, <2>1 DEF MarkFailed, MarkCancelled, EndRun
  <2>2. CASE Advance(w)
    BY <1>2, <2>2 DEF Advance
  <2>3. CASE Dequeue(w) \/ WorkerStops(w) \/ Load(w) \/ CheckOut(w) \/ Interrupt(w)
             \/ StageFails(w) \/ Panic(w) \/ Unwind(w) \/ Cleanup(w) \/ Release(w)
             \/ Expire(w)
    BY <1>2, <2>3 DEF Dequeue, WorkerStops, Load, CheckOut, Interrupt, StageFails,
                      Panic, Unwind, Cleanup, Release, Expire, pool
  <2> QED
    BY <1>2, <2>1, <2>2, <2>3 DEF WorkerStep, RunStep
<1>3. ASSUME WorkerStops(v) \/ Expire(v)
      PROVE  wpc'[v] = wpc[v] /\ wjob'[v] = wjob[v] /\ wstatus'[v] = wstatus[v]
  BY <1>3 DEF WorkerStops, Expire
<1>4. ASSUME Serve \/ Signal \/ CancelWorkers \/ CloseQueue \/ Restart \/ Rest
      PROVE  UNCHANGED <<wpc, wjob, wstatus>>
  BY <1>4 DEF Serve, Signal, CancelWorkers, CloseQueue, Restart, Rest, vars, pool
<1> QED
  BY <1>1, <1>2, <1>3, <1>4 DEF Next, WorkerStep, ProcessStep

\* Such a step does not write the record of that worker's job either.
LEMMA OtherRecords ==
  ASSUME IInv, Next, NEW v \in Workers, wjob[v] \in Jobs, ~RunStep(v)
  PROVE  stored'[wjob[v]] = stored[wjob[v]]
<1> USE DEF IInv
<1>1. Running(wjob[v])
  BY DEF Running
<1>2. ~Pending(wjob[v]) /\ wjob[v] \notin left /\ stored[wjob[v]] # Absent
  BY <1>1 DEF Claims, PendingIsAlone, ListedIsAlone, AbsentIsUnclaimed
<1>3. ~Create(wjob[v]) /\ ~RejectFull(wjob[v]) /\ ~FailInterrupted(wjob[v])
  BY <1>2 DEF Create, RejectFull, FailInterrupted, Pending
<1>4. ASSUME NEW w \in Workers, wjob[w] = wjob[v],
             Advance(w) \/ MarkFailed(w) \/ MarkCancelled(w)
      PROVE  FALSE
  <2>1. w = v
    BY <1>4, ServiceAssumption DEF Claims, WorkersAreDistinct
  <2> QED
    BY <1>4, <2>1 DEF RunStep
<1> QED
  BY <1>3, <1>4, OnlyTheClaimWrites

\* The record of a job in the queue stays `queued`.
LEMMA QueuedRecordStep ==
  ASSUME IInv, Next, NEW i \in Jobs, Queued(i)'
  PROVE  stored'[i] = "queued"
<1> USE DEF IInv
<1>1. ASSUME Queued(i) \/ Enqueue(i) \/ RecoverQueued(i)
      PROVE  /\ stored[i] = "queued" /\ ~Running(i)
             /\ ~Create(i) /\ ~RejectFull(i) /\ ~FailInterrupted(i)
  <2>1. CASE Queued(i)
    <3>1. stored[i] = "queued"
      BY <2>1 DEF Queued, RecordIsCurrent
    <3>2. ~Running(i) /\ ~Pending(i) /\ i \notin left
      BY <2>1 DEF Claims, QueuedNotRunning, PendingIsAlone, ListedIsAlone
    <3> QED
      BY <3>1, <3>2, ServiceAssumption
         DEF Create, RejectFull, FailInterrupted, Pending, JobStatuses
  <2>2. CASE Enqueue(i)
    <3>1. Pending(i) /\ handler[i] = "enqueue"
      BY <2>2 DEF Enqueue, Pending
    <3>2. stored[i] = "queued" /\ ~Running(i) /\ i \notin left
      BY <3>1 DEF PendingIsQueued, Claims, PendingIsAlone
    <3> QED
      BY <3>1, <3>2 DEF Create, RejectFull, FailInterrupted
  <2>3. CASE RecoverQueued(i)
    <3>1. i \in left /\ listed[i] = "queued"
      BY <2>3 DEF RecoverQueued, Requeueable
    <3>2. stored[i] = "queued" /\ ~Running(i) /\ ~Pending(i)
      BY <3>1 DEF ListingIsCurrent, Claims, ListedIsAlone, PendingIsAlone
    <3> QED
      BY <3>1, <3>2, ServiceAssumption
         DEF Create, RejectFull, FailInterrupted, IsInterrupted, Pending, JobStatuses
  <2> QED
    BY <1>1, <2>1, <2>2, <2>3
<1>2. Queued(i) \/ Enqueue(i) \/ RecoverQueued(i)
  <2>1. ASSUME NEW j \in Jobs, JobStep(j) PROVE Queued(i) \/ Enqueue(i) \/ RecoverQueued(i)
    <3>1. CASE queue' = queue
      BY <3>1 DEF Queued
    <3>2. CASE queue' = Append(queue, j) /\ (Enqueue(j) \/ RecoverQueued(j))
      <4>1. /\ Len(queue') = Len(queue) + 1 /\ queue'[Len(queue) + 1] = j
            /\ \A n \in 1..Len(queue) : queue'[n] = queue[n]
            /\ Len(queue) \in Nat
        BY <3>2, AppendProperties DEF TypeOK
      <4>2. Queued(i) \/ i = j
        BY <4>1 DEF Queued
      <4> QED
        BY <3>2, <4>2
    <3> QED
      BY <2>1, <3>1, <3>2
         DEF JobStep, Create, Enqueue, RejectFull, Cancel, RecoverQueued,
             ReclaimWorktree, FailInterrupted, SkipTerminal
  <2>2. ASSUME NEW w \in Workers, Dequeue(w) PROVE Queued(i)
    <3>1. /\ queue # <<>> /\ queue \in Seq(Jobs) /\ Len(queue) \in Nat \ {0}
          /\ queue' = Tail(queue) /\ Len(queue') = Len(queue) - 1
          /\ \A n \in 1..Len(queue') : queue'[n] = queue[n + 1]
      BY <2>2 DEF Dequeue, TypeOK
    <3> QED
      BY <3>1 DEF Queued
  <2>3. ASSUME UNCHANGED queue PROVE Queued(i)
    BY <2>3 DEF Queued
  <2>4. ASSUME Forget PROVE FALSE
    BY <2>4 DEF Forget, Queued
  <2>5. ASSUME NEW w \in Workers, WorkerStep(w) PROVE Queued(i)
    BY <2>2, <2>3, <2>5
       DEF WorkerStep, RunStep, WorkerStops, Load, CheckOut, Advance, Interrupt,
           StageFails, Panic, Unwind, MarkFailed, MarkCancelled, EndRun, Cleanup,
           Release, Expire
  <2> QED
    BY <2>1, <2>3, <2>4, <2>5
       DEF Next, ProcessStep, Serve, Signal, CancelWorkers, CloseQueue, Exit, Crash,
           Restart, Rest, vars
<1> QED
  BY <1>1, <1>2, OnlyTheClaimWrites DEF Running

\* Every write of a run moves the record with the worker's memory, or nothing moves.
LEMMA RecordStep == IInv /\ Next => RecordIsCurrent'
<1> SUFFICES ASSUME IInv, Next PROVE RecordIsCurrent'
  OBVIOUS
<1> USE DEF IInv
<1> DEFINE Current(w) ==
      /\ wpc[w] = "load" => stored[wjob[w]] = "queued"
      /\ wpc[w] \in {"run", "cancelling", "unwind"} => stored[wjob[w]] = wstatus[w]
<1>1. ASSUME NEW i \in 1..Len(queue'), NEW j \in Jobs, queue'[i] = j
      PROVE  stored'[j] = "queued"
  <2>1. Queued(j)'
    BY <1>1 DEF Queued
  <2> QED
    BY <2>1, QueuedRecordStep
<1>2. ASSUME NEW v \in Workers, Dequeue(v) PROVE Current(v)'
  <2>1. queue # <<>> /\ queue \in Seq(Jobs) /\ queue[1] = Head(queue) /\ 1 \in 1..Len(queue)
    BY <1>2 DEF Dequeue, TypeOK
  <2>2. wpc'[v] = "load" /\ wjob'[v] = Head(queue) /\ stored' = stored
    BY <1>2 DEF Dequeue, TypeOK, durable
  <2> QED
    BY <2>1, <2>2 DEF RecordIsCurrent
<1>3. ASSUME NEW v \in Workers, Load(v) PROVE Current(v)'
  BY <1>3 DEF Load, TypeOK, durable
<1>4. ASSUME NEW v \in Workers, Advance(v) PROVE Current(v)'
  <2>1. wjob[v] \in Jobs /\ wjob' = wjob
    BY <1>4 DEF Advance, IdleIsFree, TypeOK
  <2>2. \/ stored'[wjob[v]] = wstatus'[v] /\ wpc'[v] # "load"
        \/ wpc'[v] = "failing"
    BY <1>4, <2>1 DEF Advance, Write, Refused, AfterRefusal, TypeOK
  <2> QED
    BY <2>1, <2>2
<1>5. ASSUME NEW v \in Workers,
             CheckOut(v) \/ Interrupt(v) \/ StageFails(v) \/ Panic(v) \/ Unwind(v)
             \/ Cleanup(v) \/ Release(v)
      PROVE  Current(v)'
  BY <1>5 DEF CheckOut, Interrupt, StageFails, Panic, Unwind, Cleanup, Release,
              RecordIsCurrent, TypeOK, durable, pool
<1>6. ASSUME NEW v \in Workers, MarkFailed(v) \/ MarkCancelled(v) PROVE Current(v)'
  BY <1>6 DEF MarkFailed, MarkCancelled, EndRun, TypeOK
<1>7. ASSUME Exit \/ Crash, NEW v \in Workers PROVE Current(v)'
  BY <1>7 DEF Exit, Crash, Forget
<1>8. ASSUME NEW v \in Workers, ~Dequeue(v), ~RunStep(v), ~Exit, ~Crash
      PROVE  Current(v)'
  <2>1. CASE wpc'[v] \in {"idle", "gone"}
    BY <2>1
  <2>2. CASE wpc'[v] \notin {"idle", "gone"}
    <3>1. wpc'[v] = wpc[v] /\ wjob'[v] = wjob[v] /\ wstatus'[v] = wstatus[v]
      BY <1>8, <2>2, OtherWorkers
    <3>2. wjob[v] \in Jobs
      BY <2>2, <3>1 DEF IdleIsFree, TypeOK
    <3>3. stored'[wjob[v]] = stored[wjob[v]]
      BY <1>8, <3>2, OtherRecords
    <3> QED
      BY <3>1, <3>3 DEF RecordIsCurrent
  <2> QED
    BY <2>1, <2>2
<1>9. ASSUME NEW v \in Workers PROVE Current(v)'
  BY <1>2, <1>3, <1>4, <1>5, <1>6, <1>7, <1>8 DEF RunStep
<1>10. \A i \in 1..Len(queue') : queue'[i] \in Jobs
  BY TypeStep DEF TypeOK
<1> QED
  BY <1>1, <1>9, <1>10 DEF RecordIsCurrent

-----------------------------------------------------------------------------
(* The canceller. *)

\* Track and Release keep the canceller with the run it is keyed by.
LEMMA CancelStep == IInv /\ Next => CancelHitsItsJob'
<1> SUFFICES ASSUME IInv, Next PROVE CancelHitsItsJob'
  OBVIOUS
<1> USE ServiceAssumption DEF IInv, TypeOK, CancelHitsItsJob
<1>1. ASSUME NEW j \in Jobs, JobStep(j), UNCHANGED <<wjob, wpc>>
      PROVE  CancelHitsItsJob'
  <2>1. \A i \in Jobs : cancels'[i] # Nobody => cancels'[i] = cancels[i]
    BY <1>1 DEF JobStep, Create, Enqueue, RejectFull, Cancel, Untrack, RecoverQueued,
                ReclaimWorktree, FailInterrupted, SkipTerminal
  <2> QED
    BY <1>1, <2>1
<1>2. ASSUME NEW w \in Workers, Dequeue(w) PROVE CancelHitsItsJob'
  BY <1>2 DEF Dequeue
<1>3. ASSUME NEW w \in Workers, WorkerStops(w) PROVE CancelHitsItsJob'
  BY <1>3 DEF WorkerStops
<1>4. ASSUME NEW w \in Workers, Load(w) PROVE CancelHitsItsJob'
  BY <1>4 DEF Load
<1>5. ASSUME NEW w \in Workers,
             Interrupt(w) \/ StageFails(w) \/ Panic(w) \/ Cleanup(w)
             \/ MarkFailed(w) \/ MarkCancelled(w)
      PROVE  CancelHitsItsJob'
  BY <1>5 DEF Interrupt, StageFails, Panic, Cleanup, MarkFailed, MarkCancelled, EndRun
<1>6. ASSUME NEW w \in Workers, Advance(w) PROVE CancelHitsItsJob'
  <2>1. wjob' = wjob /\ cancels' = cancels
    BY <1>6 DEF Advance
  <2>2. \E p \in {"run", "cleanup", "failing"} : wpc' = [wpc EXCEPT ![w] = p]
    BY <1>6 DEF Advance, AfterRefusal
  <2> QED
    BY <2>1, <2>2
<1>7. ASSUME NEW w \in Workers, CheckOut(w) \/ Expire(w) PROVE CancelHitsItsJob'
  BY <1>7 DEF CheckOut, Expire, pool
<1>8. ASSUME NEW w \in Workers, Unwind(w) PROVE CancelHitsItsJob'
  BY <1>8 DEF Unwind, Untrack
<1>9. ASSUME NEW w \in Workers, Release(w) PROVE CancelHitsItsJob'
  <2>1. \A i \in Jobs : cancels'[i] # Nobody => cancels'[i] = cancels[i] /\ i # wjob[w]
    BY <1>9 DEF Release, Untrack
  <2>2. \A i \in Jobs : cancels'[i] # Nobody => cancels'[i] # w
    BY <2>1
  <2> QED
    BY <1>9, <2>1, <2>2 DEF Release
<1>10. ASSUME Exit \/ Crash PROVE CancelHitsItsJob'
  BY <1>10 DEF Exit, Crash, Forget
<1>11. ASSUME Serve \/ Signal \/ CancelWorkers \/ CloseQueue \/ Restart \/ Rest
       PROVE  CancelHitsItsJob'
  BY <1>11 DEF Serve, Signal, CancelWorkers, CloseQueue, Restart, Rest, vars, pool
<1>12. ASSUME NEW j \in Jobs, JobStep(j) PROVE UNCHANGED <<wjob, wpc>>
  BY <1>12 DEF JobStep, Create, Enqueue, RejectFull, Cancel, RecoverQueued,
               ReclaimWorktree, FailInterrupted, SkipTerminal, pool
<1> QED
  BY <1>1, <1>2, <1>3, <1>4, <1>5, <1>6, <1>7, <1>8, <1>9, <1>10, <1>11, <1>12
     DEF Next, WorkerStep, RunStep, ProcessStep

-----------------------------------------------------------------------------
(* The theorems. *)

\* A process that starts on an empty store satisfies the invariant.
LEMMA InitIInv == Init => IInv
<1> SUFFICES ASSUME Init PROVE IInv
  OBVIOUS
<1> USE ServiceAssumption DEF Init
<1>1. TypeOK
  <2>1. queue \in Seq(Jobs) /\ Len(queue) <= QueueBuffer
    OBVIOUS
  <2>2. /\ wpc \in [Workers -> PCs] /\ wjob \in [Workers -> Jobs \cup {NoJob}]
        /\ wstatus \in [Workers -> JobStatuses] /\ wrevs \in [Workers -> 0..MaxRevisions]
    BY DEF PCs, JobStatuses
  <2>3. restarts \in 0..MaxRestarts
    OBVIOUS
  <2> QED
    BY <2>1, <2>2, <2>3 DEF TypeOK, NoListing
<1>2. \A j \in Jobs : ~Queued(j) /\ ~Running(j) /\ ~Pending(j)
  BY DEF Queued, Running, Pending
<1>3. Claims
  BY <1>2 DEF Claims, QueueIsInjective, WorkersAreDistinct, QueuedNotRunning,
              PendingIsAlone, ListedIsAlone
<1>4. IdleIsFree /\ AbsentIsUnclaimed /\ DownIsEmpty /\ PendingIsQueued /\ ListingIsCurrent
  BY <1>2 DEF IdleIsFree, AbsentIsUnclaimed, DownIsEmpty, PendingIsQueued, ListingIsCurrent
<1>5. RecordIsCurrent /\ CancelHitsItsJob
  BY DEF RecordIsCurrent, CancelHitsItsJob
<1> QED
  BY <1>1, <1>3, <1>4, <1>5 DEF IInv

\* Every step keeps it.
LEMMA StepIInv == IInv /\ [Next]_vars => IInv'
<1>1. ASSUME IInv, Next PROVE IInv'
  BY <1>1, TypeStep, ClaimsStep, IdleStep, AbsentStep, DownStep, WaitingStep,
     RecordStep, CancelStep DEF IInv
<1>2. ASSUME IInv, UNCHANGED vars PROVE IInv'
  <2>1. TypeOK'
    BY <1>2 DEF IInv, TypeOK, vars, durable, apiVars, recovery, pool
  <2>2. \A j : /\ Queued(j)' <=> Queued(j)
               /\ Running(j)' <=> Running(j)
               /\ Pending(j)' <=> Pending(j)
    BY <1>2 DEF Queued, Running, Pending, vars, apiVars, pool
  <2>3. Claims'
    BY <1>2, <2>2, ClaimsKept DEF IInv, vars, recovery, pool
  <2>4. IdleIsFree' /\ AbsentIsUnclaimed' /\ DownIsEmpty' /\ PendingIsQueued'
        /\ ListingIsCurrent'
    BY <1>2, <2>2
       DEF IInv, IdleIsFree, AbsentIsUnclaimed, DownIsEmpty, PendingIsQueued,
           ListingIsCurrent, vars, durable, recovery, pool
  <2>5. RecordIsCurrent' /\ CancelHitsItsJob'
    BY <1>2 DEF IInv, RecordIsCurrent, CancelHitsItsJob, vars, durable, pool
  <2> QED
    BY <2>1, <2>3, <2>4, <2>5 DEF IInv
<1> QED
  BY <1>1, <1>2

\* The inductive invariant holds in every run of the service.
THEOREM Invariant == Spec => []IInv
BY InitIInv, StepIInv, PTL DEF Spec

\* Every variable stays in its range.
THEOREM TypeCorrect == Spec => []TypeOK
<1>1. IInv => TypeOK
  BY DEF IInv
<1> QED
  BY <1>1, Invariant, PTL

\* No job is run by two workers, or run and queued, or queued twice, or claimed
\* by a request or the recovery while it is queued or run: the channel, the order
\* of main.go and the identity of new jobs are enough, without a lease.
THEOREM OneClaimPerJob == Spec => []OneClaim
<1>1. IInv => OneClaim
  BY OneClaimIsClaims DEF IInv
<1> QED
  BY <1>1, Invariant, PTL

\* Between two stages the stored status of a running job is the one its worker
\* has in memory, and a job waiting in the queue is stored as queued.
THEOREM RecordsAreCurrent == Spec => []RecordIsCurrent
<1>1. IInv => RecordIsCurrent
  BY DEF IInv
<1> QED
  BY <1>1, Invariant, PTL

\* The cancel function the canceller holds for a job is that of the run in hand.
THEOREM CancelsHitTheirJob == Spec => []CancelHitsItsJob
<1>1. IInv => CancelHitsItsJob
  BY DEF IInv
<1> QED
  BY <1>1, Invariant, PTL

-----------------------------------------------------------------------------
(* Service implements JobLifecycle: the stored status of a job takes only  *)
(* legal moves, forward only while exactly one worker holds it.            *)

\* Until its end is written the record of a running job is not terminal, so
\* the end that a run writes is always a legal move.
RunsAreOpen ==
  \A w \in Workers :
    wpc[w] \in {"load", "run", "failing", "cancelling", "unwind", "recovered"} =>
      stored[wjob[w]] \notin Terminal

RInv == IInv /\ RunsAreOpen

\* A queued job is not over.
LEMMA QueuedIsOpen == "queued" \notin Terminal
BY DEF Terminal, legalTransitions, JobStatuses

\* A stage's move that is no end leads to a status that is none.
LEMMA OpenStatuses ==
  ASSUME NEW s \in JobStatuses, NEW t \in legalTransitions[s] \ {"failed", "cancelled", "completed"}
  PROVE  t \notin Terminal
<1>1. t \in {"planning", "preparing_workspace", "implementing", "verifying",
             "reviewing", "waiting_for_revision"}
  BY DEF legalTransitions, JobStatuses
<1> QED
  BY <1>1 DEF Terminal, legalTransitions, JobStatuses

\* `failed` and `cancelled` can be reached from every status that has a way out.
LEMMA OpenCanEnd ==
  ASSUME NEW s \in JobStatuses, s \notin Terminal, NEW t \in {"failed", "cancelled"}
  PROVE  CanTransition(s, t)
BY DEF Terminal, CanTransition, legalTransitions, JobStatuses

-----------------------------------------------------------------------------
\* No step ends the record of a job whose run goes on.
LEMMA OpenStep == RInv /\ Next => RunsAreOpen'
<1> SUFFICES ASSUME RInv, Next, NEW v \in Workers,
                    wpc'[v] \in {"load", "run", "failing", "cancelling", "unwind",
                                 "recovered"}
             PROVE  stored'[wjob'[v]] \notin Terminal
  BY DEF RunsAreOpen
<1> USE DEF RInv
<1>1. CASE Dequeue(v) \/ Load(v)
  <2>1. RecordIsCurrent' /\ IInv
    BY RecordStep
  <2>2. CASE Dequeue(v)
    BY <2>1, <2>2, QueuedIsOpen DEF Dequeue, RecordIsCurrent, TypeOK, IInv
  <2>3. CASE Load(v)
    BY <2>3 DEF Load, RunsAreOpen, durable
  <2> QED
    BY <1>1, <2>2, <2>3
<1>2. CASE Advance(v)
  <2>1. PICK s \in legalTransitions[wstatus[v]] \ {"failed", "cancelled"} :
          Advance(v)!3!(s)
    BY <1>2 DEF Advance
  <2>2. wjob[v] \in Jobs /\ wjob' = wjob /\ wpc[v] = "run"
    BY <1>2 DEF Advance, IInv, IdleIsFree, TypeOK
  <2>3. CASE /\ Write(wjob[v], s)
             /\ wpc' = [wpc EXCEPT ![v] = IF s = "completed" THEN "cleanup" ELSE "run"]
    <3>1. s # "completed"
      BY <2>3 DEF IInv, TypeOK
    <3>2. s \notin Terminal
      BY <2>1, <3>1, OpenStatuses DEF IInv, TypeOK
    <3> QED
      BY <2>2, <2>3, <3>2 DEF Write, IInv, TypeOK
  <2>4. CASE Refused
    BY <2>2, <2>4 DEF Refused, RunsAreOpen
  <2> QED
    BY <2>1, <2>3, <2>4
<1>3. CASE CheckOut(v) \/ Interrupt(v) \/ StageFails(v) \/ Panic(v) \/ Unwind(v)
           \/ Cleanup(v) \/ Release(v)
  BY <1>3 DEF CheckOut, Interrupt, StageFails, Panic, Unwind, Cleanup, Release,
              RunsAreOpen, IInv, TypeOK, durable, pool
<1>4. CASE MarkFailed(v) \/ MarkCancelled(v)
  BY <1>4 DEF MarkFailed, MarkCancelled, EndRun, IInv, TypeOK
<1>5. CASE Exit \/ Crash
  BY <1>5 DEF Exit, Crash, Forget
<1>6. CASE ~Dequeue(v) /\ ~RunStep(v) /\ ~Exit /\ ~Crash
  <2>1. wpc'[v] = wpc[v] /\ wjob'[v] = wjob[v]
    BY <1>6, OtherWorkers
  <2>2. wjob[v] \in Jobs
    BY <2>1 DEF IInv, IdleIsFree, TypeOK
  <2> QED
    BY <1>6, <2>1, <2>2, OtherRecords DEF RunsAreOpen
<1> QED
  BY <1>1, <1>2, <1>3, <1>4, <1>5, <1>6 DEF RunStep

-----------------------------------------------------------------------------
(* The refinement mapping. *)

\* Who holds job `i` when the workers run the jobs of `f`.
HolderIn(f, i) == IF {w \in Workers : f[w] = i} = {} THEN Nobody
                  ELSE CHOOSE w \in Workers : f[w] = i

\* The holder of a job, as a function of who runs what.
LEMMA HolderOfIn ==
  /\ holderOf = [i \in Jobs |-> HolderIn(wjob, i)]
  /\ holderOf' = [i \in Jobs |-> HolderIn(wjob', i)]
BY DEF holderOf, HolderIn, RunnerOf

\* The holder is a worker that runs the job, if any does.
LEMMA HolderInFacts ==
  ASSUME NEW f, NEW i
  PROVE  /\ (\A v \in Workers : f[v] # i) => HolderIn(f, i) = Nobody
         /\ \A w \in Workers :
              (\A v \in Workers : f[v] = i <=> v = w) => HolderIn(f, i) = w
BY DEF HolderIn

\* Workers that run the same jobs make the same holder.
LEMMA HolderInSame ==
  ASSUME NEW f, NEW g, NEW i, \A v \in Workers : f[v] = i <=> g[v] = i
  PROVE  HolderIn(f, i) = HolderIn(g, i)
<1>1. {w \in Workers : f[w] = i} = {w \in Workers : g[w] = i}
  OBVIOUS
<1>2. (CHOOSE w \in Workers : f[w] = i) = (CHOOSE w \in Workers : g[w] = i)
  OBVIOUS
<1> QED
  BY <1>1, <1>2 DEF HolderIn

\* The only worker that runs a job is its holder.
LEMMA HolderIsRunner ==
  ASSUME IInv, NEW j \in Jobs
  PROVE  /\ \A w \in Workers : wjob[w] = j => holderOf[j] = w
         /\ ~Running(j) => holderOf[j] = Nobody
         /\ holderOf[j] # Nobody => Running(j)
<1>1. ASSUME NEW w \in Workers, wjob[w] = j PROVE holderOf[j] = w
  <2>1. \A v \in Workers : wjob[v] = j <=> v = w
    BY <1>1, ServiceAssumption DEF IInv, Claims, WorkersAreDistinct
  <2>2. RunnerOf(j) # {} /\ (CHOOSE v \in Workers : wjob[v] = j) = w
    BY <1>1, <2>1 DEF RunnerOf
  <2> QED
    BY <2>2 DEF holderOf
<1>2. ASSUME ~Running(j) PROVE holderOf[j] = Nobody
  BY <1>2 DEF Running, RunnerOf, holderOf
<1> QED
  BY <1>1, <1>2

\* A step that hands no job on leaves the holders alone.
LEMMA HolderKept == wjob' = wjob => holderOf' = holderOf
BY DEF holderOf, RunnerOf

\* A step that leaves the records and the workers' jobs alone is not visible.
LEMMA Invisible ==
  ASSUME stored' = stored, wjob' = wjob
  PROVE  UNCHANGED L!lifecycleVars
BY HolderKept DEF L!lifecycleVars

\* Taking a job from the queue is the abstract claim of it.
LEMMA DequeueClaims ==
  ASSUME RInv, NEW w \in Workers, Dequeue(w), IInv'
  PROVE  L!Step
<1> DEFINE j == Head(queue)
<1>1. /\ j \in Jobs /\ Queued(j) /\ wjob[w] = NoJob
      /\ wjob' = [wjob EXCEPT ![w] = j] /\ stored' = stored
  BY DEF RInv, IInv, TypeOK, Dequeue, Queued, IdleIsFree, durable
<1>2. stored[j] = "queued" /\ ~Running(j)
  BY <1>1 DEF RInv, IInv, RecordIsCurrent, Claims, QueuedNotRunning, Queued
<1> HIDE DEF j
<1>3. holderOf[j] = Nobody
  BY <1>1, <1>2, HolderIsRunner DEF RInv
<1>4. L!Free(w)
  <2>1. \A i \in Jobs : holderOf[i] # w
    <3> SUFFICES ASSUME NEW i \in Jobs, holderOf[i] = w PROVE FALSE
      OBVIOUS
    <3>1. Running(i)
      BY HolderIsRunner, ServiceAssumption DEF RInv
    <3>2. wjob[w] = i
      BY <3>1, HolderIsRunner DEF RInv, Running
    <3> QED
      BY <1>1, <3>2, ServiceAssumption
  <2> QED
    BY <2>1 DEF L!Free
<1>5. holderOf' = [holderOf EXCEPT ![j] = w]
  <2>1. HolderIn(wjob', j) = w
    <3>1. \A v \in Workers : wjob'[v] = j <=> v = w
      BY <1>1, <1>2 DEF Running, RInv, IInv, TypeOK
    <3> QED
      BY <3>1, HolderInFacts
  <2>2. ASSUME NEW i \in Jobs, i # j PROVE HolderIn(wjob', i) = HolderIn(wjob, i)
    <3>1. \A v \in Workers : wjob'[v] = i <=> wjob[v] = i
      BY <1>1, <2>2, ServiceAssumption DEF RInv, IInv, TypeOK
    <3> QED
      BY <3>1, HolderInSame
  <2> QED
    BY <1>1, <2>1, <2>2, HolderOfIn
<1>6. L!Claim(j, w)
  BY <1>1, <1>2, <1>3, <1>4, <1>5 DEF L!Claim
<1> QED
  BY <1>1, <1>6 DEF L!Step

\* Release is the abstract letting go of the job.
LEMMA ReleaseLetsGo ==
  ASSUME RInv, NEW w \in Workers, Release(w)
  PROVE  L!Step
<1> DEFINE j == wjob[w]
<1>1. /\ j \in Jobs /\ stored' = stored
      /\ wjob' = [wjob EXCEPT ![w] = NoJob] /\ wjob \in [Workers -> Jobs \cup {NoJob}]
  BY DEF RInv, IInv, TypeOK, IdleIsFree, Release, durable
<1>2. holderOf[j] = w
  BY <1>1, HolderIsRunner DEF RInv
<1>3. holderOf' = [holderOf EXCEPT ![j] = Nobody]
  <2>1. HolderIn(wjob', j) = Nobody
    <3>1. \A v \in Workers : wjob'[v] # j
      BY <1>1, ServiceAssumption DEF RInv, IInv, Claims, WorkersAreDistinct
    <3> QED
      BY <3>1, HolderInFacts
  <2>2. ASSUME NEW i \in Jobs, i # j PROVE HolderIn(wjob', i) = HolderIn(wjob, i)
    <3>1. \A v \in Workers : wjob'[v] = i <=> wjob[v] = i
      BY <1>1, <2>2, ServiceAssumption
    <3> QED
      BY <3>1, HolderInSame
  <2> QED
    BY <1>1, <2>1, <2>2, HolderOfIn
<1>4. L!LetGo(j)
  BY <1>1, <1>2, <1>3, ServiceAssumption DEF L!LetGo
<1> QED
  BY <1>1, <1>4 DEF L!Step

\* The end of a process lets go of every job at once.
LEMMA ForgetLetsGoOfAll ==
  ASSUME Forget
  PROVE  L!Step
<1>1. stored' = stored /\ \A w \in Workers : wjob'[w] = NoJob
  BY DEF Forget, durable
<1>2. holderOf' = [j \in Jobs |-> Nobody]
  BY <1>1, ServiceAssumption DEF holderOf, RunnerOf
<1> QED
  BY <1>1, <1>2 DEF L!LetGoOfAll, L!Step

\* A write by a run is a legal move of a job that is held.
LEMMA RunMoves ==
  ASSUME RInv, NEW w \in Workers, Advance(w) \/ MarkFailed(w) \/ MarkCancelled(w)
  PROVE  L!Step \/ UNCHANGED L!lifecycleVars
<1>1. wjob[w] \in Jobs /\ wjob' = wjob
  BY DEF RInv, IInv, TypeOK, IdleIsFree, Advance, MarkFailed, MarkCancelled, EndRun
<1>2. holderOf[wjob[w]] # Nobody /\ holderOf' = holderOf
  BY <1>1, HolderIsRunner, HolderKept, ServiceAssumption DEF RInv
<1>3. ASSUME NEW s \in JobStatuses, CanTransition(stored[wjob[w]], s),
             Write(wjob[w], s)
      PROVE  L!Step
  <2>1. L!Move(wjob[w])
    BY <1>2, <1>3
       DEF L!Move, Write, CanTransition, L!CanTransition, legalTransitions,
           L!legalTransitions, JobStatuses, L!JobStatuses
  <2> QED
    BY <1>1, <2>1 DEF L!Step
<1>4. CASE stored' = stored
  BY <1>1, <1>4, Invisible
<1>5. CASE Advance(w)
  <2>1. PICK s \in legalTransitions[wstatus[w]] \ {"failed", "cancelled"} :
          Advance(w)!3!(s)
    BY <1>5 DEF Advance
  <2>2. s \in JobStatuses /\ CanTransition(stored[wjob[w]], s)
    BY <1>5, <2>1, LegalStatuses
       DEF Advance, RInv, IInv, TypeOK, RecordIsCurrent, CanTransition
  <2> QED
    BY <1>3, <1>4, <2>1, <2>2 DEF Refused
<1>6. ASSUME NEW s \in {"failed", "cancelled"}, NEW to,
             EndRun(w, "failing", s, to) \/ EndRun(w, "recovered", s, to)
             \/ EndRun(w, "cancelling", s, to)
      PROVE  L!Step \/ UNCHANGED L!lifecycleVars
  <2>1. stored[wjob[w]] \notin Terminal /\ stored[wjob[w]] \in JobStatuses
    <3>1. wpc[w] \in {"failing", "recovered", "cancelling"}
      BY <1>6 DEF EndRun
    <3>2. Running(wjob[w])
      BY DEF Running
    <3> QED
      BY <1>1, <3>1, <3>2 DEF RInv, RunsAreOpen, IInv, AbsentIsUnclaimed, TypeOK
  <2>2. CanTransition(stored[wjob[w]], s) /\ s \in JobStatuses
    BY <2>1, OpenCanEnd DEF JobStatuses
  <2>3. Write(wjob[w], s) \/ stored' = stored
    BY <1>6 DEF EndRun, Refused
  <2> QED
    BY <1>3, <1>4, <2>2, <2>3
<1> QED
  BY <1>5, <1>6 DEF MarkFailed, MarkCancelled

\* Every step of the service is one of the lifecycle, or none.
LEMMA StepImplements ==
  ASSUME RInv, Next
  PROVE  L!Step \/ UNCHANGED L!lifecycleVars
<1>1. IInv'
  BY StepIInv DEF RInv
<1>2. ASSUME NEW j \in Jobs, Create(j) PROVE L!Step
  <2>1. L!Accept(j)
    BY <1>2, HolderKept DEF Create, Write, pool, L!Accept
  <2> QED
    BY <2>1 DEF L!Step
<1>3. ASSUME NEW j \in Jobs, RejectFull(j) PROVE L!Step \/ UNCHANGED L!lifecycleVars
  <2>1. stored[j] = "queued" /\ holderOf[j] = Nobody
    BY <1>3, HolderIsRunner
       DEF RejectFull, RInv, IInv, Pending, PendingIsQueued, Claims, PendingIsAlone
  <2>2. wjob' = wjob /\ (Write(j, "failed") \/ stored' = stored)
    BY <1>3 DEF RejectFull, Refused, pool
  <2>3. L!Refuse(j) \/ stored' = stored
    BY <2>1, <2>2, HolderKept DEF L!Refuse, Write
  <2> QED
    BY <2>2, <2>3, Invisible DEF L!Step
<1>4. ASSUME NEW j \in Jobs, FailInterrupted(j) PROVE L!Step \/ UNCHANGED L!lifecycleVars
  <2>1. IsInterrupted(stored[j]) /\ holderOf[j] = Nobody
    BY <1>4, HolderIsRunner
       DEF FailInterrupted, RInv, IInv, ListingIsCurrent, Claims, ListedIsAlone
  <2>2. wjob' = wjob /\ (Write(j, "failed") \/ stored' = stored)
    BY <1>4 DEF FailInterrupted, Refused, pool
  <2>3. L!FailInterrupted(j) \/ stored' = stored
    BY <2>1, <2>2, HolderKept
       DEF L!FailInterrupted, Write, IsInterrupted, L!IsInterrupted
  <2> QED
    BY <2>2, <2>3, Invisible DEF L!Step
<1>5. ASSUME NEW j \in Jobs,
             Enqueue(j) \/ Cancel(j) \/ RecoverQueued(j) \/ ReclaimWorktree(j)
             \/ SkipTerminal(j)
      PROVE  UNCHANGED L!lifecycleVars
  BY <1>5, Invisible
     DEF Enqueue, Cancel, RecoverQueued, ReclaimWorktree, SkipTerminal, durable, pool
<1>6. ASSUME NEW w \in Workers,
             WorkerStops(w) \/ Load(w) \/ CheckOut(w) \/ Interrupt(w) \/ StageFails(w)
             \/ Panic(w) \/ Unwind(w) \/ Cleanup(w) \/ Expire(w)
      PROVE  UNCHANGED L!lifecycleVars
  BY <1>6, Invisible
     DEF WorkerStops, Load, CheckOut, Interrupt, StageFails, Panic, Unwind, Cleanup,
         Expire, durable, pool
<1>7. ASSUME Serve \/ Signal \/ CancelWorkers \/ CloseQueue \/ Restart \/ Rest
      PROVE  UNCHANGED L!lifecycleVars
  BY <1>7, Invisible
     DEF Serve, Signal, CancelWorkers, CloseQueue, Restart, Rest, vars, durable, pool
<1>8. ASSUME Exit \/ Crash PROVE L!Step
  BY <1>8, ForgetLetsGoOfAll DEF Exit, Crash
<1> QED
  BY <1>1, <1>2, <1>3, <1>4, <1>5, <1>6, <1>7, <1>8, DequeueClaims, ReleaseLetsGo, RunMoves
     DEF Next, JobStep, WorkerStep, RunStep, ProcessStep

\* The service starts where the lifecycle does, with its invariant.
LEMMA InitImplements == Init => RInv /\ L!Start
<1> SUFFICES ASSUME Init PROVE RInv /\ L!Start
  OBVIOUS
<1>1. IInv
  BY InitIInv
<1>2. RunsAreOpen
  BY DEF Init, RunsAreOpen
<1>3. holderOf = [j \in Jobs |-> Nobody]
  BY ServiceAssumption DEF Init, holderOf, RunnerOf
<1> QED
  BY <1>1, <1>2, <1>3 DEF RInv, L!Start, Init

\* The service implements the abstract lifecycle of a job.
THEOREM Refinement == Spec => ImplementsLifecycle
<1>1. Init => RInv /\ L!Start
  BY InitImplements
<1>2. RInv /\ [Next]_vars => RInv'
  <2>1. ASSUME RInv, Next PROVE RunsAreOpen'
    BY <2>1, OpenStep
  <2>2. ASSUME RInv, UNCHANGED vars PROVE RunsAreOpen'
    BY <2>2 DEF RInv, RunsAreOpen, vars, durable, pool
  <2> QED
    BY <2>1, <2>2, StepIInv DEF RInv
<1>3. RInv /\ [Next]_vars => [L!Step]_(L!lifecycleVars)
  <2>1. ASSUME UNCHANGED vars PROVE UNCHANGED L!lifecycleVars
    BY <2>1, Invisible DEF vars, durable, pool
  <2> QED
    BY <2>1, StepImplements
<1> QED
  BY <1>1, <1>2, <1>3, PTL DEF Spec, ImplementsLifecycle, L!Lifecycle

-----------------------------------------------------------------------------
(* The queue is closed once every request is through. *)

ClosedIsDrained ==
  /\ closed => phase = "stopping"
  /\ phase = "stopping" => \A j \in Jobs : ~Pending(j)
  /\ phase # "recovering" => left = {}
  /\ NoSendOnClosedQueue

\* The queue is closed only when no request is left, and none comes after.
LEMMA ClosedStep ==
  ASSUME "hurry" \notin Faults, TypeOK, ClosedIsDrained, [Next]_vars
  PROVE  ClosedIsDrained'
<1> USE DEF ClosedIsDrained, NoSendOnClosedQueue, Pending, TypeOK
<1>1. ASSUME NEW j \in Jobs, Create(j) PROVE ClosedIsDrained'
  BY <1>1 DEF Create, Answering, recovery
<1>2. ASSUME NEW j \in Jobs, Enqueue(j) PROVE ClosedIsDrained'
  BY <1>2 DEF Enqueue, recovery
<1>3. ASSUME NEW j \in Jobs, RejectFull(j) PROVE ClosedIsDrained'
  BY <1>3 DEF RejectFull, recovery
<1>4. ASSUME NEW j \in Jobs,
             Cancel(j) \/ RecoverQueued(j) \/ ReclaimWorktree(j) \/ FailInterrupted(j)
             \/ SkipTerminal(j)
      PROVE  ClosedIsDrained'
  BY <1>4 DEF Cancel, RecoverQueued, ReclaimWorktree, FailInterrupted, SkipTerminal,
              Handled, apiVars, recovery
<1>5. ASSUME NEW w \in Workers, WorkerStep(w)
      PROVE  UNCHANGED <<phase, closed, handler, left>>
  BY <1>5 DEF WorkerStep, RunStep, Dequeue, WorkerStops, Load, CheckOut, Advance,
              Interrupt, StageFails, Panic, Unwind, MarkFailed, MarkCancelled, EndRun,
              Cleanup, Release, Expire, apiVars, recovery
<1>6. ASSUME CancelWorkers PROVE ClosedIsDrained'
  BY <1>6 DEF CancelWorkers, Drained, apiVars, recovery
<1>7. ASSUME Serve \/ Signal \/ CloseQueue \/ Restart \/ Rest PROVE ClosedIsDrained'
  BY <1>7 DEF Serve, Signal, CloseQueue, Restart, Rest, vars, apiVars, recovery
<1>8. ASSUME Exit \/ Crash PROVE ClosedIsDrained'
  BY <1>8 DEF Exit, Crash, Forget
<1>9. ASSUME UNCHANGED vars PROVE ClosedIsDrained'
  BY <1>9 DEF vars, apiVars, recovery
<1> QED
  BY <1>1, <1>2, <1>3, <1>4, <1>5, <1>6, <1>7, <1>8, <1>9
     DEF Next, JobStep, ProcessStep

\* When the drain has the time it needs, no request ever sends on the closed queue:
\* main waits for the handlers before it cancels the workers and closes the queue,
\* and no handler starts after that.
THEOREM SendsMeetAnOpenQueue ==
  ASSUME "hurry" \notin Faults
  PROVE  Spec => []NoSendOnClosedQueue
<1>1. Init => ClosedIsDrained
  BY DEF Init, ClosedIsDrained, NoSendOnClosedQueue
<1>2. TypeOK /\ ClosedIsDrained /\ [Next]_vars => ClosedIsDrained'
  BY ClosedStep
<1>3. ClosedIsDrained => NoSendOnClosedQueue
  BY DEF ClosedIsDrained
<1> QED
  BY <1>1, <1>2, <1>3, TypeCorrect, PTL DEF Spec
-----------------------------------------------------------------------------
(* A worker lets go of a job only when its end is stored. *)

EndIsStored ==
  \A w \in Workers :
    /\ wpc[w] \in {"failing", "recovered"} => stored[wjob[w]] = wstatus[w]
    /\ wpc[w] \in {"cleanup", "release"} => stored[wjob[w]] \in Terminal

\* The three statuses that have no way out.
LEMMA TerminalStatuses == Terminal = {"completed", "failed", "cancelled"}
<1>1. ASSUME NEW s \in {"completed", "failed", "cancelled"} PROVE legalTransitions[s] = {}
  BY <1>1 DEF legalTransitions, JobStatuses
<1>2. ASSUME NEW s \in JobStatuses \ {"completed", "failed", "cancelled"}
      PROVE  "failed" \in legalTransitions[s]
  BY <1>2 DEF legalTransitions, JobStatuses
<1> QED
  BY <1>1, <1>2 DEF Terminal, JobStatuses

\* A status that cannot be failed or cancelled is an end (CanTransition).
LEMMA OnlyTheEndIsFinal ==
  ASSUME NEW s \in JobStatuses, NEW t \in {"failed", "cancelled"}, ~CanTransition(s, t)
  PROVE  s \in Terminal
BY DEF JobStatuses, CanTransition, legalTransitions, Terminal

\* A run reaches its cleanup with its end stored, if the store takes every write.
LEMMA EndStep ==
  ASSUME "store" \notin Faults, IInv, EndIsStored, Next
  PROVE  EndIsStored'
<1> USE DEF IInv
<1> DEFINE Good(v) ==
      /\ wpc[v] \in {"failing", "recovered"} => stored[wjob[v]] = wstatus[v]
      /\ wpc[v] \in {"cleanup", "release"} => stored[wjob[v]] \in Terminal
<1>1. ASSUME NEW v \in Workers, Dequeue(v) \/ Load(v) \/ CheckOut(v) \/ Release(v)
      PROVE  Good(v)'
  BY <1>1 DEF Dequeue, Load, CheckOut, Release, TypeOK, pool
<1>2. ASSUME NEW v \in Workers, Advance(v) PROVE Good(v)'
  <2>1. wjob[v] \in Jobs /\ wjob' = wjob
    BY <1>2 DEF Advance, IdleIsFree, TypeOK
  <2>2. PICK s \in legalTransitions[wstatus[v]] :
          /\ Write(wjob[v], s)
          /\ wpc' = [wpc EXCEPT ![v] = IF s = "completed" THEN "cleanup" ELSE "run"]
    BY <1>2 DEF Advance, Refused
  <2>3. stored'[wjob[v]] = s
    BY <2>1, <2>2 DEF Write, TypeOK
  <2>4. wpc'[v] = IF s = "completed" THEN "cleanup" ELSE "run"
    BY <2>2 DEF TypeOK
  <2> QED
    BY <2>1, <2>3, <2>4, TerminalStatuses
<1>3. ASSUME NEW v \in Workers,
             Interrupt(v) \/ StageFails(v) \/ Panic(v) \/ Unwind(v) \/ Cleanup(v)
      PROVE  Good(v)'
  BY <1>3 DEF Interrupt, StageFails, Panic, Unwind, Cleanup, RecordIsCurrent,
              EndIsStored, TypeOK, durable
<1>4. ASSUME NEW v \in Workers, NEW from \in {"failing", "recovered", "cancelling"},
             NEW t \in {"failed", "cancelled"}, NEW to \in {"cleanup", "release"},
             EndRun(v, from, t, to)
      PROVE  Good(v)'
  <2>1. wjob[v] \in Jobs /\ wjob' = wjob /\ wpc'[v] \in {"cleanup", "release"}
    BY <1>4 DEF EndRun, IdleIsFree, TypeOK
  <2>2. CASE CanTransition(wstatus[v], t)
    <3>1. stored' = [stored EXCEPT ![wjob[v]] = t]
      BY <1>4, <2>2 DEF EndRun, Write, Refused
    <3> QED
      BY <2>1, <3>1, TerminalStatuses DEF TypeOK
  <2>3. CASE ~CanTransition(wstatus[v], t)
    <3>1. stored' = stored /\ stored[wjob[v]] = wstatus[v]
      BY <1>4, <2>3 DEF EndRun, EndIsStored, RecordIsCurrent
    <3>2. wstatus[v] \in Terminal
      BY <2>3, OnlyTheEndIsFinal DEF TypeOK
    <3> QED
      BY <2>1, <3>1, <3>2
  <2> QED
    BY <2>2, <2>3
<1>5. ASSUME NEW v \in Workers, MarkFailed(v) \/ MarkCancelled(v) PROVE Good(v)'
  BY <1>4, <1>5 DEF MarkFailed, MarkCancelled
<1>6. ASSUME Exit \/ Crash, NEW v \in Workers PROVE Good(v)'
  BY <1>6 DEF Exit, Crash, Forget
<1>7. ASSUME NEW v \in Workers, ~Dequeue(v), ~RunStep(v), ~Exit, ~Crash
      PROVE  Good(v)'
  <2>1. CASE wpc'[v] \in {"idle", "gone"}
    BY <2>1
  <2>2. CASE wpc'[v] \notin {"idle", "gone"}
    <3>1. wpc'[v] = wpc[v] /\ wjob'[v] = wjob[v] /\ wstatus'[v] = wstatus[v]
      BY <1>7, <2>2, OtherWorkers
    <3>2. wjob[v] \in Jobs
      BY <2>2, <3>1 DEF IdleIsFree, TypeOK
    <3>3. stored'[wjob[v]] = stored[wjob[v]]
      BY <1>7, <3>2, OtherRecords
    <3> QED
      BY <3>1, <3>3 DEF EndIsStored
  <2> QED
    BY <2>1, <2>2
<1>8. ASSUME NEW v \in Workers PROVE Good(v)'
  BY <1>1, <1>2, <1>3, <1>5, <1>6, <1>7 DEF RunStep
<1> QED
  BY <1>8 DEF EndIsStored
-----------------------------------------------------------------------------
(* Until then somebody has the job. *)

Had(j) == \/ Queued(j) \/ Running(j) \/ Pending(j)
          \/ j \in left \/ j \in unqueueable
NotOver(j) == stored[j] \notin Terminal \cup {Absent}

JobsAreHad ==
  phase \in {"recovering", "serving"} => \A j \in Jobs : NotOver(j) => Had(j)

\* A job whose record a step writes is had after the step, or over.
LEMMA WrittenIsHad ==
  ASSUME "store" \notin Faults, IInv, Next, NEW i \in Jobs, stored'[i] # stored[i],
         NotOver(i)'
  PROVE  Had(i)'
<1>1. CASE Create(i)
  BY <1>1 DEF Create, Had, Pending, IInv, TypeOK
<1>2. CASE RejectFull(i) \/ FailInterrupted(i)
  BY <1>2, TerminalStatuses
     DEF RejectFull, FailInterrupted, Write, Refused, NotOver, IInv, TypeOK
<1>3. ASSUME NEW w \in Workers, wjob[w] = i, Advance(w) \/ MarkFailed(w) \/ MarkCancelled(w)
      PROVE  Had(i)'
  <2>1. wjob' = wjob
    BY <1>3 DEF Advance, MarkFailed, MarkCancelled, EndRun
  <2> QED
    BY <1>3, <2>1 DEF Had, Running
<1> QED
  BY <1>1, <1>2, <1>3, OnlyTheClaimWrites

\* A job a step leaves not over stays with whoever has it, or is handed on.
LEMMA HadIsKept ==
  ASSUME "store" \notin Faults, IInv, ClosedIsDrained, EndIsStored, Next, ~Exit, ~Crash,
         phase' \in {"recovering", "serving"},
         NEW i \in Jobs, stored'[i] = stored[i], NotOver(i), Had(i)
  PROVE  Had(i)'
<1> USE DEF IInv
<1>1. queue \in Seq(Jobs) /\ (queue # <<>> => Len(queue) \in Nat \ {0})
  BY DEF TypeOK
<1>2. ASSUME NEW j \in Jobs, queue' = Append(queue, j), wjob' = wjob,
             UNCHANGED unqueueable,
             \A n \in Jobs : (Pending(n) => Pending(n)' \/ n = j)
                             /\ (n \in left => n \in left' \/ n = j)
      PROVE  Had(i)'
  <2>1. /\ Len(queue') = Len(queue) + 1 /\ queue'[Len(queue) + 1] = j
        /\ \A n \in 1..Len(queue) : queue'[n] = queue[n]
    BY <1>1, <1>2, AppendProperties
  <2>2. Queued(j)'
    BY <1>1, <2>1, LenProperties DEF Queued
  <2>3. Queued(i) => Queued(i)'
    BY <1>1, <2>1, LenProperties DEF Queued
  <2>4. Running(i) => Running(i)'
    BY <1>2 DEF Running
  <2> QED
    BY <1>2, <2>2, <2>3, <2>4 DEF Had
<1>3. ASSUME UNCHANGED <<queue, wjob>>, unqueueable \subseteq unqueueable',
             Pending(i) => Pending(i)',
             i \in left => i \in left' \/ i \in unqueueable'
      PROVE  Had(i)'
  <2>1. (Queued(i) => Queued(i)') /\ (Running(i) => Running(i)')
    BY <1>3 DEF Queued, Running
  <2> QED
    BY <1>3, <2>1 DEF Had
<1>4. ASSUME NEW j \in Jobs, JobStep(j) PROVE Had(i)'
  <2>1. CASE Create(j) \/ Cancel(j) \/ ReclaimWorktree(j)
    BY <1>3, <2>1 DEF Create, Cancel, ReclaimWorktree, Pending, TypeOK, apiVars,
                      recovery, pool
  <2>2. CASE Enqueue(j)
    <3>1. ~closed /\ UNCHANGED <<wjob, left, unqueueable>>
      BY <2>2 DEF Enqueue, ClosedIsDrained, recovery, pool
    <3>2. \/ queue' = Append(queue, j) /\ handler' = [handler EXCEPT ![j] = "accepted"]
          \/ queue' = queue /\ handler' = [handler EXCEPT ![j] = "full"]
      BY <2>2, <3>1 DEF Enqueue
    <3>3. \A n \in Jobs : Pending(n) => Pending(n)' \/ n = j
      BY <3>2 DEF Pending, TypeOK
    <3>4. CASE queue' = Append(queue, j)
      BY <1>2, <3>1, <3>3, <3>4
    <3>5. CASE queue' = queue /\ handler' = [handler EXCEPT ![j] = "full"]
      <4>1. Pending(i) => Pending(i)'
        BY <3>5 DEF Pending, TypeOK
      <4> QED
        BY <1>3, <3>1, <3>5, <4>1
    <3> QED
      BY <3>2, <3>4, <3>5
  <2>3. CASE RejectFull(j)
    <3>1. i # j \/ ~Pending(i)
      BY <2>3, TerminalStatuses DEF RejectFull, Write, Refused, NotOver, TypeOK
    <3>2. Pending(i) => Pending(i)'
      BY <2>3, <3>1 DEF RejectFull, Pending, TypeOK
    <3> QED
      BY <1>3, <2>3, <3>2 DEF RejectFull, recovery, pool
  <2>4. CASE RecoverQueued(j)
    <3>1. /\ left' = left \ {j} /\ UNCHANGED <<wjob, handler>>
          /\ \/ queue' = Append(queue, j) /\ UNCHANGED unqueueable
             \/ queue' = queue /\ unqueueable' = unqueueable \cup {j}
      BY <2>4 DEF RecoverQueued, Handled, apiVars, pool
    <3>2. \A n \in Jobs : Pending(n) => Pending(n)'
      BY <3>1 DEF Pending
    <3> QED
      BY <1>2, <1>3, <3>1, <3>2
  <2>5. CASE FailInterrupted(j)
    <3>1. i = j => i \notin left
      BY <2>5, TerminalStatuses DEF FailInterrupted, Write, Refused, NotOver, TypeOK
    <3> QED
      BY <1>3, <2>5, <3>1 DEF FailInterrupted, Handled, Pending, apiVars, pool
  <2>6. CASE SkipTerminal(j)
    <3>1. i # j
      BY <2>6, TerminalStatuses
         DEF SkipTerminal, ListingIsCurrent, NotOver, IsInterrupted, JobStatuses, TypeOK
    <3> QED
      BY <1>3, <2>6, <3>1 DEF SkipTerminal, Handled, Pending, apiVars, pool
  <2> QED
    BY <1>4, <2>1, <2>2, <2>3, <2>4, <2>5, <2>6 DEF JobStep
<1>5. ASSUME NEW w \in Workers, Dequeue(w) PROVE Had(i)'
  <2>1. /\ queue # <<>> /\ Head(queue) = queue[1] /\ queue' = Tail(queue)
        /\ wjob' = [wjob EXCEPT ![w] = Head(queue)] /\ wpc[w] = "idle"
        /\ UNCHANGED <<left, unqueueable, handler>>
    BY <1>5, <1>1 DEF Dequeue, recovery, apiVars
  <2>2. \E v \in Workers : wjob'[v] = Head(queue)
    BY <2>1 DEF TypeOK
  <2>3. Running(i) => Running(i)'
    BY <2>1, ServiceAssumption DEF Running, TypeOK, IdleIsFree
  <2>4. ASSUME Queued(i), i # Head(queue) PROVE Queued(i)'
    <3>1. PICK n \in 1..Len(queue) : queue[n] = i
      BY <2>4 DEF Queued
    <3>2. n # 1
      BY <2>1, <2>4, <3>1
    <3>3. Len(Tail(queue)) = Len(queue) - 1 /\ \A m \in 1..Len(Tail(queue)) : Tail(queue)[m] = queue[m + 1]
      BY <1>1, <2>1, HeadTailProperties
    <3>4. n - 1 \in 1..Len(Tail(queue)) /\ (n - 1) + 1 = n
      BY <1>1, <2>1, <3>1, <3>2, <3>3
    <3>5. Tail(queue)[n - 1] = i
      BY <3>1, <3>3, <3>4
    <3> QED
      BY <2>1, <3>4, <3>5 DEF Queued
  <2> QED
    BY <2>1, <2>2, <2>3, <2>4 DEF Had, Running, Pending
<1>6. ASSUME NEW w \in Workers, Release(w) PROVE Had(i)'
  <2>1. wjob[w] # i
    BY <1>6 DEF Release, EndIsStored, NotOver
  <2>2. UNCHANGED <<queue, handler, left, unqueueable>> /\ wjob' = [wjob EXCEPT ![w] = NoJob]
    BY <1>6 DEF Release, recovery, apiVars
  <2>3. (Queued(i) => Queued(i)') /\ (Running(i) => Running(i)')
    BY <2>1, <2>2 DEF Queued, Running, TypeOK
  <2> QED
    BY <2>2, <2>3 DEF Had, Pending
<1>7. ASSUME NEW w \in Workers, WorkerStep(w), ~Dequeue(w), ~Release(w) PROVE Had(i)'
  <2>1. UNCHANGED <<queue, wjob, handler, left, unqueueable>>
    BY <1>7 DEF WorkerStep, RunStep, WorkerStops, Load, CheckOut, Advance, Interrupt,
                StageFails, Panic, Unwind, MarkFailed, MarkCancelled, EndRun, Cleanup,
                Expire, apiVars, recovery, pool
  <2> QED
    BY <1>3, <2>1 DEF Pending
<1>8. ASSUME Serve \/ Signal \/ CancelWorkers \/ CloseQueue \/ Rest PROVE Had(i)'
  <2>1. UNCHANGED <<queue, wjob, handler, left, unqueueable>>
    BY <1>8 DEF Serve, Signal, CancelWorkers, CloseQueue, Rest, vars, apiVars, recovery, pool
  <2> QED
    BY <1>3, <2>1 DEF Pending
<1>9. ASSUME Restart PROVE Had(i)'
  BY <1>9 DEF Restart, Had, NotOver
<1> QED
  BY <1>4, <1>5, <1>6, <1>7, <1>8, <1>9 DEF Next, ProcessStep

\* No step leaves a job that is not over with nobody.
LEMMA HadStep ==
  ASSUME "store" \notin Faults, IInv, ClosedIsDrained, EndIsStored, JobsAreHad, Next
  PROVE  JobsAreHad'
<1> SUFFICES ASSUME phase' \in {"recovering", "serving"}, NEW i \in Jobs, NotOver(i)'
             PROVE  Had(i)'
  BY DEF JobsAreHad
<1>1. ~Exit /\ ~Crash
  BY DEF Exit, Crash, Forget
<1>2. CASE stored'[i] # stored[i]
  BY <1>2, WrittenIsHad
<1>3. CASE stored'[i] = stored[i]
  <2>1. NotOver(i)
    BY <1>3 DEF NotOver
  <2>2. CASE Restart
    BY <2>1, <2>2 DEF Restart, Had, NotOver
  <2>3. CASE ~Restart
    <3>1. phase \in {"recovering", "serving"}
      <4>1. ASSUME NEW j \in Jobs, JobStep(j) PROVE phase' = phase
        BY <4>1 DEF JobStep, Create, Enqueue, RejectFull, Cancel, RecoverQueued,
                    ReclaimWorktree, FailInterrupted, SkipTerminal
      <4>2. ASSUME NEW w \in Workers, WorkerStep(w) PROVE phase' = phase
        BY <4>2 DEF WorkerStep, RunStep, Dequeue, WorkerStops, Load, CheckOut, Advance,
                    Interrupt, StageFails, Panic, Unwind, MarkFailed, MarkCancelled,
                    EndRun, Cleanup, Release, Expire
      <4>3. ASSUME ProcessStep \/ Rest PROVE phase \in {"recovering", "serving"}
        BY <1>1, <2>3, <4>3 DEF ProcessStep, Serve, Signal, CancelWorkers, CloseQueue,
                                Rest, vars
      <4> QED
        BY <4>1, <4>2, <4>3 DEF Next
    <3> QED
      BY <1>1, <1>3, <2>1, <3>1, HadIsKept DEF JobsAreHad
  <2> QED
    BY <2>2, <2>3
<1> QED
  BY <1>2, <1>3

\* The parts of the argument are kept together.
LEMMA KeptStep ==
  ASSUME "store" \notin Faults, "hurry" \notin Faults,
         IInv, ClosedIsDrained, EndIsStored, JobsAreHad, [Next]_vars
  PROVE  EndIsStored' /\ JobsAreHad'
<1>1. CASE Next
  BY <1>1, EndStep, HadStep
<1>2. CASE UNCHANGED vars
  <2>1. \A j : Had(j)' <=> Had(j)
    BY <1>2 DEF Had, Queued, Running, Pending, vars, apiVars, recovery, pool
  <2>2. JobsAreHad'
    BY <1>2, <2>1 DEF JobsAreHad, NotOver, vars, durable
  <2> QED
    BY <1>2, <2>2 DEF EndIsStored, vars, durable, pool
<1> QED
  BY <1>1, <1>2

\* While requests are served, a job that is not over is queued, run or being
\* submitted, or recovery said it had no room for it, as long as the store takes
\* every write and the drain has its time: whatever crashes, panics and restarts.
THEOREM JobsAreNotForgotten ==
  ASSUME "store" \notin Faults, "hurry" \notin Faults
  PROVE  Spec => []NoJobForgotten
<1>1. Init => ClosedIsDrained /\ EndIsStored /\ JobsAreHad
  <2> SUFFICES ASSUME Init PROVE ClosedIsDrained /\ EndIsStored /\ JobsAreHad
    OBVIOUS
  <2> QED
    BY DEF Init, ClosedIsDrained, NoSendOnClosedQueue, EndIsStored, JobsAreHad, NotOver
<1>2. IInv /\ ClosedIsDrained /\ EndIsStored /\ JobsAreHad /\ [Next]_vars
        => ClosedIsDrained' /\ EndIsStored' /\ JobsAreHad'
  BY ClosedStep, KeptStep DEF IInv
<1>3. ClosedIsDrained /\ JobsAreHad => NoJobForgotten
  <2> SUFFICES ASSUME ClosedIsDrained, JobsAreHad, phase = "serving", NEW j \in Jobs, NotOver(j)
               PROVE  \/ InQueue(j) \/ RunnerOf(j) # {} \/ handler[j] \in {"enqueue", "full"}
                      \/ j \in unqueueable
    BY DEF NoJobForgotten, NotOver
  <2>1. Had(j)
    BY DEF JobsAreHad
  <2>2. left = {}
    BY DEF ClosedIsDrained
  <2>3. (Queued(j) => InQueue(j)) /\ (Running(j) => RunnerOf(j) # {})
    BY DEF Queued, InQueue, Running, RunnerOf
  <2> QED
    BY <2>1, <2>2, <2>3 DEF Had, Pending
<1> QED
  BY <1>1, <1>2, <1>3, Invariant, PTL DEF Spec

-----------------------------------------------------------------------------
(* What is on disk when the first request is served.                       *)

\* A checkout is made after its job left `queued`, and no job goes back there.
CheckoutsAreOfStarted == \A j \in worktrees : stored[j] \notin {"queued", Absent}

\* A worker past its cleanup has no checkout any more, as long as git removes what
\* it is asked to.
CleanedUpIsGone == \A w \in Workers : wpc[w] \in {"release", "recovered"} => wjob[w] \notin worktrees

\* While recovery works, a checkout is of a job it has yet to handle, of one that
\* runs already, or of one that was over.
CheckoutsAreKnown ==
  phase = "recovering" =>
    \A j \in worktrees : j \in left \/ Running(j) \/ listed[j] \in Terminal

OnDisk == CheckoutsAreOfStarted /\ CleanedUpIsGone /\ CheckoutsAreKnown

\* Only a worker whose stored status is `preparing_workspace` makes a checkout.
LEMMA CheckoutsAppear ==
  ASSUME IInv, Next, NEW j \in worktrees', j \notin worktrees
  PROVE  \E w \in Workers : CheckOut(w) /\ j = wjob[w]
<1>1. ASSUME NEW i \in Jobs, JobStep(i) PROVE worktrees' \subseteq worktrees
  BY <1>1 DEF JobStep, Create, Enqueue, RejectFull, Cancel, RecoverQueued, ReclaimWorktree,
              FailInterrupted, SkipTerminal, durable
<1>2. ASSUME NEW w \in Workers, WorkerStep(w), ~CheckOut(w) PROVE worktrees' \subseteq worktrees
  <2>1. CASE MarkFailed(w) \/ MarkCancelled(w) \/ Advance(w)
    BY <2>1 DEF MarkFailed, MarkCancelled, EndRun, Advance
  <2>2. CASE Unwind(w) \/ Cleanup(w)
    BY <2>2 DEF Unwind, Cleanup, RemoveCheckout
  <2>3. CASE Dequeue(w) \/ WorkerStops(w) \/ Load(w) \/ Interrupt(w) \/ StageFails(w) \/ Panic(w)
             \/ Release(w) \/ Expire(w)
    BY <2>3 DEF Dequeue, WorkerStops, Load, Interrupt, StageFails, Panic, Release, Expire, durable
  <2> QED
    BY <1>2, <2>1, <2>2, <2>3 DEF WorkerStep, RunStep
<1>3. CASE ProcessStep \/ Rest
  BY <1>3 DEF ProcessStep, Serve, Signal, CancelWorkers, CloseQueue, Exit, Crash, Forget, Restart,
              Rest, vars, durable
<1>4. ASSUME NEW w \in Workers, CheckOut(w) PROVE worktrees' = worktrees \cup {wjob[w]}
  BY <1>4 DEF CheckOut
<1> QED
  BY <1>1, <1>2, <1>3, <1>4 DEF Next

\* A job with a checkout is never queued again.
LEMMA CheckoutsAreOfStartedStep ==
  ASSUME IInv, CheckoutsAreOfStarted, Next
  PROVE  CheckoutsAreOfStarted'
<1> SUFFICES ASSUME NEW j \in worktrees' PROVE stored'[j] \notin {"queued", Absent}
  BY DEF CheckoutsAreOfStarted
<1>0. TypeOK /\ RecordIsCurrent
  BY DEF IInv
<1>1. stored[j] \notin {"queued", Absent} /\ j \in Jobs
  <2>1. CASE j \in worktrees
    BY <1>0, <2>1 DEF CheckoutsAreOfStarted, TypeOK
  <2>2. CASE j \notin worktrees
    <3>1. PICK w \in Workers : CheckOut(w) /\ j = wjob[w]
      BY <2>2, CheckoutsAppear
    <3>2. stored[j] = "preparing_workspace"
      BY <1>0, <3>1 DEF CheckOut, RecordIsCurrent
    <3>3. wjob[w] # NoJob
      BY <3>1, ServiceAssumption DEF CheckOut, IInv, IdleIsFree
    <3>4. "preparing_workspace" # Absent
      BY ServiceAssumption DEF JobStatuses
    <3> QED
      BY <1>0, <3>1, <3>2, <3>3, <3>4 DEF TypeOK
  <2> QED
    BY <2>1, <2>2
<1>2. CASE stored'[j] = stored[j]
  BY <1>1, <1>2
<1>3. CASE stored'[j] # stored[j]
  <2>1. stored'[j] \in JobStatuses /\ stored'[j] # Absent
    BY <1>1, <1>3, OnlyTheClaimWrites, ServiceAssumption
  <2>2. ~Create(j)
    BY <1>1 DEF Create
  <2>3. CASE RejectFull(j) \/ FailInterrupted(j)
    BY <1>0, <1>1, <1>3, <2>1, <2>3 DEF RejectFull, FailInterrupted, Write, Refused, TypeOK
  <2>4. ASSUME NEW w \in Workers, wjob[w] = j, MarkFailed(w) \/ MarkCancelled(w)
        PROVE  stored'[j] # "queued"
    BY <1>0, <1>1, <1>3, <2>4 DEF MarkFailed, MarkCancelled, EndRun, Write, Refused, TypeOK
  <2>5. ASSUME NEW w \in Workers, wjob[w] = j, Advance(w)
        PROVE  stored'[j] # "queued"
    <3>1. wstatus[w] \in JobStatuses /\ stored'[j] \in legalTransitions[wstatus[w]]
      BY <1>0, <1>1, <1>3, <2>5 DEF Advance, Write, Refused, TypeOK
    <3>2. \A s \in JobStatuses : "queued" \notin legalTransitions[s]
      BY DEF legalTransitions, JobStatuses
    <3> QED
      BY <3>1, <3>2
  <2> QED
    BY <1>1, <1>3, <2>1, <2>2, <2>3, <2>4, <2>5, OnlyTheClaimWrites
<1> QED
  BY <1>2, <1>3

\* A cleaned-up checkout is made by nobody else (CheckOut, Cleanup, Unwind).
LEMMA CleanedUpIsGoneStep ==
  ASSUME "cleanup" \notin Faults, IInv, CleanedUpIsGone, Next
  PROVE  CleanedUpIsGone'
<1> SUFFICES ASSUME NEW w \in Workers, wpc'[w] \in {"release", "recovered"}
             PROVE  wjob'[w] \notin worktrees'
  BY DEF CleanedUpIsGone
<1>0. TypeOK /\ IdleIsFree
  BY DEF IInv
<1>1. CASE Unwind(w) \/ Cleanup(w)
  BY <1>1 DEF Unwind, Cleanup, RemoveCheckout
<1>2. CASE MarkFailed(w)
  BY <1>0, <1>2 DEF MarkFailed, EndRun, CleanedUpIsGone, TypeOK
<1>3. CASE RunStep(w) /\ ~Unwind(w) /\ ~Cleanup(w) /\ ~MarkFailed(w)
  <2>1. CASE Load(w) \/ CheckOut(w) \/ Interrupt(w) \/ StageFails(w) \/ Panic(w) \/ Release(w)
    BY <1>0, <2>1 DEF Load, CheckOut, Interrupt, StageFails, Panic, Release, pool, TypeOK
  <2>2. CASE Advance(w)
    BY <1>0, <2>2 DEF Advance, AfterRefusal, TypeOK
  <2>3. CASE MarkCancelled(w)
    BY <1>0, <2>3 DEF MarkCancelled, EndRun, TypeOK
  <2> QED
    BY <1>3, <2>1, <2>2, <2>3 DEF RunStep
<1>4. CASE Dequeue(w) \/ Exit \/ Crash
  BY <1>0, <1>4 DEF Dequeue, Exit, Crash, Forget, TypeOK
<1>5. CASE ~RunStep(w) /\ ~Dequeue(w) /\ ~Exit /\ ~Crash
  <2>1. wpc'[w] = wpc[w] /\ wjob'[w] = wjob[w]
    BY <1>5, OtherWorkers
  <2>2. wjob[w] # NoJob /\ wjob[w] \notin worktrees
    BY <1>0, <2>1 DEF IdleIsFree, CleanedUpIsGone
  <2>3. ASSUME NEW v \in Workers, CheckOut(v) PROVE wjob[w] # wjob[v]
    <3>1. v # w
      BY <1>5, <2>3 DEF RunStep
    <3> QED
      BY <2>2, <3>1 DEF IInv, Claims, WorkersAreDistinct
  <2>4. CASE wjob[w] \in worktrees'
    BY <2>2, <2>3, <2>4, CheckoutsAppear
  <2> QED
    BY <2>1, <2>4
<1> QED
  BY <1>1, <1>2, <1>3, <1>4, <1>5

\* Only main and the end of the process move the phase.
LEMMA PhaseMoves == Next => ProcessStep \/ UNCHANGED phase
<1>1. ASSUME NEW i \in Jobs, JobStep(i) PROVE UNCHANGED phase
  BY <1>1 DEF JobStep, Create, Enqueue, RejectFull, Cancel, RecoverQueued, ReclaimWorktree,
              FailInterrupted, SkipTerminal
<1>2. ASSUME NEW w \in Workers, WorkerStep(w) PROVE UNCHANGED phase
  BY <1>2 DEF WorkerStep, RunStep, Dequeue, WorkerStops, Load, CheckOut, Advance, Interrupt, StageFails,
              Panic, Unwind, MarkFailed, MarkCancelled, EndRun, Cleanup, Release, Expire
<1> QED
  BY <1>1, <1>2 DEF Next, Rest, vars

\* Recovery lets go of a listed job only when its checkout is gone or its run is over.
LEMMA CheckoutsAreKnownStep ==
  ASSUME "cleanup" \notin Faults, IInv, OnDisk, Next
  PROVE  CheckoutsAreKnown'
<1> SUFFICES ASSUME phase' = "recovering", NEW j \in worktrees'
             PROVE  (j \in left \/ Running(j) \/ listed[j] \in Terminal)'
  BY DEF CheckoutsAreKnown
<1>0. TypeOK /\ CheckoutsAreOfStarted /\ CleanedUpIsGone /\ CheckoutsAreKnown /\ ListingIsCurrent
  BY DEF IInv, OnDisk
<1>1. CASE Restart
  <2>1. j \in worktrees /\ left' = {i \in Jobs : stored[i] # Absent}
    BY <1>1 DEF Restart, durable
  <2> QED
    BY <1>0, <2>1 DEF CheckoutsAreOfStarted, TypeOK
<1>2. CASE phase = "recovering"
  <2>1. CASE j \notin worktrees
    <3>1. PICK w \in Workers : CheckOut(w) /\ j = wjob[w]
      BY <2>1, CheckoutsAppear
    <3> QED
      BY <3>1 DEF CheckOut, pool, Running
  <2>2. CASE j \in worktrees
    <3>0. j \in left \/ Running(j) \/ listed[j] \in Terminal
      BY <1>0, <1>2, <2>2 DEF CheckoutsAreKnown
    <3>1. j \in Jobs /\ stored[j] \notin {"queued", Absent}
      BY <1>0, <2>2 DEF CheckoutsAreOfStarted, TypeOK
    <3>2. ASSUME NEW i \in Jobs, RecoverQueued(i) \/ FailInterrupted(i) \/ SkipTerminal(i)
          PROVE  j \in left' \/ Running(j)' \/ listed'[j] \in Terminal
      <4>1. left' = left \ {i} /\ UNCHANGED <<listed, wjob>>
        BY <3>2 DEF RecoverQueued, FailInterrupted, SkipTerminal, Handled, pool
      <4>2. CASE i # j
        BY <3>0, <4>1, <4>2 DEF Running
      <4>3. CASE i = j
        <5>1. listed[j] = stored[j] /\ j \in left
          BY <1>0, <3>2, <4>3 DEF RecoverQueued, FailInterrupted, SkipTerminal, ListingIsCurrent
        <5>2. CASE RecoverQueued(j)
          BY <3>1, <5>1, <5>2 DEF RecoverQueued, Requeueable
        <5>3. CASE FailInterrupted(j)
          BY <2>2, <5>3 DEF FailInterrupted, Reclaimed
        <5>4. CASE SkipTerminal(j)
          <6>1. listed[j] \in JobStatuses /\ listed[j] # "queued" /\ ~IsInterrupted(listed[j])
            BY <1>0, <3>1, <5>1, <5>4 DEF SkipTerminal, TypeOK
          <6>2. listed[j] \in {"completed", "failed", "cancelled"}
            BY <6>1 DEF JobStatuses, IsInterrupted
          <6> QED
            BY <4>1, <6>2, TerminalStatuses
        <5> QED
          BY <3>2, <4>3, <5>2, <5>3, <5>4
      <4> QED
        BY <4>2, <4>3
    <3>3. ASSUME UNCHANGED <<left, listed>>, \A w \in Workers : wjob[w] = j => wjob'[w] = j
          PROVE  j \in left' \/ Running(j)' \/ listed'[j] \in Terminal
      BY <3>0, <3>3 DEF Running
    <3>4. ASSUME NEW i \in Jobs,
                 Create(i) \/ Enqueue(i) \/ RejectFull(i) \/ Cancel(i) \/ ReclaimWorktree(i)
          PROVE  UNCHANGED <<left, listed, wjob>>
      BY <3>4 DEF Create, Enqueue, RejectFull, Cancel, ReclaimWorktree, recovery, pool
    <3>5. ASSUME NEW v \in Workers, WorkerStep(v)
          PROVE  UNCHANGED <<left, listed>> /\ \A w \in Workers : wjob[w] = j => wjob'[w] = j
      <4>1. CASE Dequeue(v)
        <5>1. wjob[v] # j
          BY <1>0, <3>1, <4>1, ServiceAssumption DEF Dequeue, IInv, IdleIsFree
        <5> QED
          BY <1>0, <4>1, <5>1 DEF Dequeue, recovery, TypeOK
      <4>2. CASE Release(v)
        <5>1. wjob[v] # j
          BY <1>0, <2>2, <4>2 DEF Release, CleanedUpIsGone
        <5> QED
          BY <1>0, <4>2, <5>1 DEF Release, recovery, TypeOK
      <4>3. CASE MarkFailed(v) \/ MarkCancelled(v) \/ Advance(v)
        BY <4>3 DEF MarkFailed, MarkCancelled, EndRun, Advance, recovery
      <4>4. CASE WorkerStops(v) \/ Load(v) \/ CheckOut(v) \/ Interrupt(v) \/ StageFails(v)
                 \/ Panic(v) \/ Unwind(v) \/ Cleanup(v) \/ Expire(v)
        BY <4>4 DEF WorkerStops, Load, CheckOut, Interrupt, StageFails, Panic, Unwind, Cleanup, Expire,
                    recovery, pool
      <4> QED
        BY <3>5, <4>1, <4>2, <4>3, <4>4 DEF WorkerStep, RunStep
    <3>6. CASE ProcessStep \/ Rest
      BY <1>2, <3>3, <3>6 DEF ProcessStep, Serve, Signal, CancelWorkers, CloseQueue, Exit, Crash, Forget,
                              Restart, Rest, vars, recovery, pool
    <3> QED
      BY <3>2, <3>3, <3>4, <3>5, <3>6 DEF Next, JobStep
  <2> QED
    BY <2>1, <2>2
<1>3. phase = "recovering" \/ Restart
  BY PhaseMoves DEF ProcessStep, Serve, Signal, CancelWorkers, CloseQueue, Exit, Crash, Forget
<1> QED
  BY <1>1, <1>2, <1>3

\* Recovery is done with every interrupted job before the first request is served,
\* and what it reclaimed nobody makes again: the checkouts on disk are those of
\* jobs that run already or were over (Recover, and the order of main.go). For any
\* faults but git's refusal to remove what it is asked to.
THEOREM LeftoversAreReclaimed ==
  ASSUME "cleanup" \notin Faults
  PROVE  Spec => InterruptedAreReclaimed
<1>1. Init => OnDisk
  BY DEF Init, OnDisk, CheckoutsAreOfStarted, CleanedUpIsGone, CheckoutsAreKnown
<1>2. IInv /\ OnDisk /\ [Next]_vars => OnDisk'
  <2> SUFFICES ASSUME IInv, OnDisk, [Next]_vars PROVE OnDisk'
    OBVIOUS
  <2>1. CASE Next
    BY <2>1, CheckoutsAreOfStartedStep, CleanedUpIsGoneStep, CheckoutsAreKnownStep DEF OnDisk
  <2>2. CASE UNCHANGED vars
    BY <2>2 DEF vars, durable, recovery, pool, OnDisk, CheckoutsAreOfStarted, CleanedUpIsGone,
                CheckoutsAreKnown, Running
  <2> QED
    BY <2>1, <2>2
<1>3. IInv /\ OnDisk /\ [Next]_vars =>
        [phase = "recovering" /\ phase' = "serving" =>
           \A j \in worktrees : RunnerOf(j) # {} \/ listed[j] \in Terminal]_vars
  <2> SUFFICES ASSUME OnDisk, Next, phase = "recovering", phase' = "serving", NEW j \in worktrees
               PROVE  RunnerOf(j) # {} \/ listed[j] \in Terminal
    OBVIOUS
  <2>1. Serve
    BY PhaseMoves DEF ProcessStep, Signal, CancelWorkers, CloseQueue, Exit, Crash, Forget, Restart
  <2>2. left = {}
    BY <2>1 DEF Serve
  <2>3. Running(j) \/ listed[j] \in Terminal
    BY <2>2 DEF OnDisk, CheckoutsAreKnown
  <2> QED
    BY <2>3 DEF Running, RunnerOf
<1> QED
  BY <1>1, <1>2, <1>3, Invariant, PTL DEF Spec, InterruptedAreReclaimed

-----------------------------------------------------------------------------
(* Each run the pool makes takes the steps of JobRun. *)

\* A worker that takes a job has made no revision of it yet.
BeginsUnrevised == \A w \in Workers : wpc[w] \in {"idle", "gone", "load"} => wrevs[w] = 0

RunsInv == /\ RInv /\ CheckoutsAreOfStarted /\ BeginsUnrevised
           /\ "store" \notin Faults => EndIsStored

\* Where a job's run is, for the worker that makes it, if one does.
Placed ==
  \A j \in Jobs :
    /\ \A w \in Workers : wjob[w] = j =>
         placeOf[j] = wpc[w] /\ contextOf[j] = wctx[w] /\ revisionsOf[j] = wrevs[w]
    /\ ~Running(j) => placeOf[j] = "off"

\* The mapping is through the one worker that runs the job (HolderIsRunner).
LEMMA RunsArePlaced == IInv => Placed
<1> SUFFICES ASSUME IInv, NEW j \in Jobs
             PROVE  /\ \A w \in Workers : wjob[w] = j =>
                         placeOf[j] = wpc[w] /\ contextOf[j] = wctx[w] /\ revisionsOf[j] = wrevs[w]
                    /\ ~Running(j) => placeOf[j] = "off"
  BY DEF Placed
<1>1. ~Running(j) => placeOf[j] = "off"
  BY DEF placeOf, RunnerOf, Running
<1>2. ASSUME NEW w \in Workers, wjob[w] = j
      PROVE  placeOf[j] = wpc[w] /\ contextOf[j] = wctx[w] /\ revisionsOf[j] = wrevs[w]
  <2>1. holderOf[j] = w
    BY <1>2, HolderIsRunner
  <2>2. RunnerOf(j) # {}
    BY <1>2 DEF RunnerOf
  <2> QED
    BY <2>1, <2>2 DEF placeOf, contextOf, revisionsOf
<1> QED
  BY <1>1, <1>2

\* And so after a step.
LEMMA RunsArePlacedThen == IInv' => Placed'
BY RunsArePlaced, PTL

\* What others do leaves a run where it is, its record and its checkout alone, and
\* can only end its context.
LEMMA OtherRuns ==
  ASSUME IInv, Next, NEW v \in Workers, wjob[v] \in Jobs, ~RunStep(v), ~Exit, ~Crash
  PROVE  /\ wpc'[v] = wpc[v] /\ wjob'[v] = wjob[v] /\ wrevs'[v] = wrevs[v]
         /\ wctx[v] = "live" \/ wctx'[v] = wctx[v]
         /\ stored'[wjob[v]] = stored[wjob[v]]
         /\ wjob[v] \in worktrees' <=> wjob[v] \in worktrees
<1> USE DEF IInv, TypeOK
<1> DEFINE Same == /\ wpc'[v] = wpc[v] /\ wjob'[v] = wjob[v] /\ wrevs'[v] = wrevs[v]
                   /\ wctx[v] = "live" \/ wctx'[v] = wctx[v]
                   /\ wjob[v] \in worktrees' <=> wjob[v] \in worktrees
<1>1. stored'[wjob[v]] = stored[wjob[v]]
  BY OtherRecords
<1>2. wpc[v] \notin {"idle", "gone"} /\ wjob[v] # NoJob
  BY ServiceAssumption DEF IdleIsFree
<1>3. ASSUME NEW j \in Jobs, JobStep(j) PROVE Same
  <2>1. CASE Cancel(j)
    BY <2>1 DEF Cancel, durable
  <2>2. CASE ReclaimWorktree(j)
    <3>1. j # wjob[v]
      BY <2>2 DEF ReclaimWorktree, Claims, ListedIsAlone, Running
    <3> QED
      BY <2>2, <3>1 DEF ReclaimWorktree, pool
  <2>3. CASE Create(j) \/ Enqueue(j) \/ RejectFull(j) \/ RecoverQueued(j) \/ FailInterrupted(j)
             \/ SkipTerminal(j)
    BY <2>3 DEF Create, Enqueue, RejectFull, RecoverQueued, FailInterrupted, SkipTerminal, pool,
                durable
  <2> QED
    BY <1>3, <2>1, <2>2, <2>3 DEF JobStep
<1>4. ASSUME NEW w \in Workers, WorkerStep(w), w # v PROVE Same
  <2>1. wjob[w] # wjob[v]
    BY <1>2, <1>4 DEF Claims, WorkersAreDistinct
  <2>2. CASE MarkFailed(w) \/ MarkCancelled(w)
    BY <1>4, <2>2 DEF MarkFailed, MarkCancelled, EndRun
  <2>3. CASE Advance(w)
    BY <1>4, <2>3 DEF Advance
  <2>4. CASE CheckOut(w) \/ Unwind(w) \/ Cleanup(w)
    BY <1>4, <2>1, <2>4 DEF CheckOut, Unwind, Cleanup, RemoveCheckout, pool
  <2>5. CASE Dequeue(w) \/ WorkerStops(w) \/ Load(w) \/ Interrupt(w) \/ StageFails(w)
             \/ Panic(w) \/ Release(w) \/ Expire(w)
    BY <1>4, <2>5 DEF Dequeue, WorkerStops, Load, Interrupt, StageFails, Panic, Release, Expire,
                      durable
  <2> QED
    BY <1>4, <2>2, <2>3, <2>4, <2>5 DEF WorkerStep, RunStep
<1>5. ASSUME Dequeue(v) \/ WorkerStops(v) \/ Expire(v) PROVE Same
  BY <1>2, <1>5 DEF Dequeue, WorkerStops, Expire, durable
<1>6. ASSUME Serve \/ Signal \/ CancelWorkers \/ CloseQueue \/ Restart \/ Rest PROVE Same
  BY <1>6 DEF Serve, Signal, CancelWorkers, CloseQueue, Restart, Rest, vars, pool, durable
<1> QED
  BY <1>1, <1>3, <1>4, <1>5, <1>6 DEF Next, WorkerStep, ProcessStep

\* Each run starts and ends without revisions (Dequeue, Release, Forget).
LEMMA BeginsUnrevisedStep == ASSUME TypeOK, BeginsUnrevised, [Next]_vars PROVE BeginsUnrevised'
<1> USE DEF TypeOK, BeginsUnrevised
<1>1. ASSUME NEW j \in Jobs, JobStep(j) PROVE BeginsUnrevised'
  BY <1>1 DEF JobStep, Create, Enqueue, RejectFull, Cancel, RecoverQueued,
              ReclaimWorktree, FailInterrupted, SkipTerminal, pool
<1>2. ASSUME NEW w \in Workers, Advance(w) PROVE BeginsUnrevised'
  <2>1. wpc[w] = "run" /\ \E p \in {"run", "cleanup", "failing"} : wpc' = [wpc EXCEPT ![w] = p]
    BY <1>2 DEF Advance, AfterRefusal
  <2>2. \A v \in Workers : v # w => wrevs'[v] = wrevs[v]
    BY <1>2 DEF Advance
  <2> QED
    BY <2>1, <2>2
<1>3. ASSUME NEW w \in Workers,
             Dequeue(w) \/ WorkerStops(w) \/ Load(w) \/ Interrupt(w) \/ StageFails(w) \/ Panic(w)
             \/ Unwind(w) \/ Cleanup(w) \/ Release(w)
      PROVE  BeginsUnrevised'
  BY <1>3 DEF Dequeue, WorkerStops, Load, Interrupt, StageFails, Panic, Unwind, Cleanup, Release
<1>4. ASSUME NEW w \in Workers, MarkFailed(w) \/ MarkCancelled(w) PROVE BeginsUnrevised'
  BY <1>4 DEF MarkFailed, MarkCancelled, EndRun
<1>5. ASSUME NEW w \in Workers, CheckOut(w) \/ Expire(w) PROVE BeginsUnrevised'
  BY <1>5 DEF CheckOut, Expire, pool
<1>6. CASE Exit \/ Crash
  BY <1>6 DEF Exit, Crash, Forget
<1>7. CASE Serve \/ Signal \/ CancelWorkers \/ CloseQueue \/ Restart \/ Rest \/ UNCHANGED vars
  BY <1>7 DEF Serve, Signal, CancelWorkers, CloseQueue, Restart, Rest, vars, pool
<1> QED
  BY <1>1, <1>2, <1>3, <1>4, <1>5, <1>6, <1>7 DEF Next, WorkerStep, RunStep, ProcessStep

\* What the mapping needs holds at the start, and every step keeps it.
LEMMA RunsInvHolds ==
  /\ Init => RunsInv
  /\ RunsInv /\ [Next]_vars => RunsInv'
<1>1. ASSUME Init PROVE RunsInv
  <2>1. RInv
    BY <1>1, InitImplements
  <2> QED
    BY <1>1, <2>1 DEF RunsInv, Init, CheckoutsAreOfStarted, BeginsUnrevised, EndIsStored
<1>2. ASSUME RunsInv, Next PROVE RunsInv'
  <2>1. IInv' /\ RunsAreOpen'
    BY <1>2, StepIInv, OpenStep DEF RunsInv, RInv
  <2>2. CheckoutsAreOfStarted' /\ BeginsUnrevised'
    BY <1>2, CheckoutsAreOfStartedStep, BeginsUnrevisedStep DEF RunsInv, RInv, IInv
  <2>3. "store" \notin Faults => EndIsStored'
    BY <1>2, EndStep DEF RunsInv, RInv
  <2> QED
    BY <2>1, <2>2, <2>3 DEF RunsInv, RInv
<1>3. ASSUME RunsInv, UNCHANGED vars PROVE RunsInv'
  <2>1. RInv'
    BY <1>3, StepIInv DEF RunsInv, RInv, RunsAreOpen, vars, durable, pool
  <2> QED
    BY <1>3, <2>1 DEF RunsInv, CheckoutsAreOfStarted, BeginsUnrevised, EndIsStored, vars, durable,
                      pool
<1> QED
  BY <1>1, <1>2, <1>3

\* JobRun has the statuses of the service.
LEMMA SameStatuses ==
  R!legalTransitions = legalTransitions /\ R!Terminal = Terminal
  /\ \A s, t : R!CanTransition(s, t) <=> CanTransition(s, t)
<1>1. R!JobStatuses = JobStatuses
  BY DEF R!JobStatuses, JobStatuses
<1>2. R!legalTransitions = legalTransitions
  BY <1>1, Zenon DEF R!legalTransitions, legalTransitions
<1> QED
  BY <1>1, <1>2, Zenon DEF R!Terminal, Terminal, R!CanTransition, CanTransition

\* A run in progress, as the mapping shows it before and after a step that is not its last.
LEMMA RunIsSeen ==
  ASSUME IInv, IInv', NEW v \in Workers, wpc[v] \notin {"idle", "gone"}, wjob' = wjob
  PROVE  /\ wjob[v] \in Jobs
         /\ placeOf[wjob[v]] = wpc[v] /\ placeOf'[wjob[v]] = wpc'[v]
         /\ contextOf[wjob[v]] = wctx[v] /\ contextOf'[wjob[v]] = wctx'[v]
         /\ revisionsOf[wjob[v]] = wrevs[v] /\ revisionsOf'[wjob[v]] = wrevs'[v]
<1>1. wjob[v] \in Jobs /\ wjob'[v] = wjob[v]
  BY DEF IInv, TypeOK, IdleIsFree
<1>2. Placed /\ Placed'
  BY RunsArePlaced, RunsArePlacedThen
<1> QED
  BY <1>1, <1>2 DEF Placed

\* A step of a run that writes nothing moves it from its place to another.
LEMMA RunGoesOn ==
  ASSUME IInv, IInv', NEW v \in Workers, wpc[v] \notin {"idle", "gone"}, wjob' = wjob,
         UNCHANGED <<stored, worktrees>>
  PROVE  R!Goes(wjob[v], wpc[v], wpc'[v])
BY RunIsSeen DEF R!Goes

\* The steps of a run that write nothing are JobRun's.
LEMMA QuietStepsImplement ==
  ASSUME RunsInv, IInv', NEW v \in Workers,
         Load(v) \/ Interrupt(v) \/ StageFails(v) \/ Panic(v)
  PROVE  R!Step(wjob[v])
<1>1. IInv /\ TypeOK
  BY DEF RunsInv, RInv, IInv
<1>2. wpc[v] \in {"load", "run"} /\ wjob' = wjob /\ UNCHANGED <<stored, worktrees>>
      /\ UNCHANGED <<wctx, wrevs>>
  BY DEF Load, Interrupt, StageFails, Panic, durable
<1>3. R!Goes(wjob[v], wpc[v], wpc'[v])
  BY <1>1, <1>2, RunGoesOn
<1>4. wpc[v] = "run" => stored[wjob[v]] = wstatus[v]
  BY <1>1 DEF IInv, RecordIsCurrent
<1>5. CASE Load(v)
  <2>1. wpc[v] = "load" /\ wpc'[v] = "run" /\ wrevs'[v] = 0
    BY <1>1, <1>2, <1>5 DEF Load, TypeOK, RunsInv, BeginsUnrevised
  <2>2. R!Load(wjob[v])
    BY <1>1, <1>2, <1>3, <2>1, RunIsSeen DEF R!Load
  <2> QED
    BY <1>1, <1>2, <2>2, RunIsSeen DEF R!Step
<1>6. CASE Interrupt(v)
  <2>1. wpc[v] = "run" /\ wctx[v] # "live"
        /\ wpc'[v] = IF wctx[v] = "expired" THEN "failing" ELSE "cancelling"
    BY <1>1, <1>6 DEF Interrupt, TypeOK
  <2>2. R!Interrupt(wjob[v])
    BY <1>1, <1>2, <1>3, <2>1, RunIsSeen DEF R!Interrupt
  <2> QED
    BY <1>1, <1>2, <2>2, RunIsSeen DEF R!Step
<1>7. CASE StageFails(v)
  <2>1. wpc[v] = "run" /\ wpc'[v] = "failing" /\ stored[wjob[v]] # "queued"
    BY <1>1, <1>4, <1>7 DEF StageFails, TypeOK
  <2>2. R!StageFails(wjob[v])
    BY <1>3, <2>1 DEF R!StageFails
  <2> QED
    BY <1>1, <1>2, <2>2, RunIsSeen DEF R!Step
<1>8. CASE Panic(v)
  <2>1. wpc[v] = "run" /\ wpc'[v] = "unwind" /\ stored[wjob[v]] # "queued"
    BY <1>1, <1>4, <1>8 DEF Panic, TypeOK
  <2>2. R!Panic(wjob[v])
    BY <1>3, <2>1 DEF R!Panic
  <2> QED
    BY <1>1, <1>2, <2>2, RunIsSeen DEF R!Step
<1> QED
  BY <1>5, <1>6, <1>7, <1>8

\* The steps of a run that write its record or its checkout are JobRun's.
LEMMA WritesImplement ==
  ASSUME RunsInv, IInv', NEW v \in Workers, CheckOut(v) \/ Advance(v)
  PROVE  R!Step(wjob[v])
<1>1. IInv /\ TypeOK
  BY DEF RunsInv, RInv, IInv
<1>2. wpc[v] = "run" /\ wjob' = wjob /\ wctx[v] = "live" /\ wctx' = wctx
  BY DEF CheckOut, Advance, pool
<1>3. stored[wjob[v]] = wstatus[v] /\ wjob[v] \in Jobs
  BY <1>1, <1>2, RunIsSeen DEF IInv, RecordIsCurrent
<1>4. CASE CheckOut(v)
  <2>1. UNCHANGED <<wpc, wrevs, stored>> /\ wstatus[v] = "preparing_workspace"
        /\ wjob[v] \notin worktrees /\ wjob[v] \in worktrees'
    BY <1>4 DEF CheckOut, pool
  <2>2. R!CheckOut(wjob[v])
    BY <1>1, <1>2, <1>3, <2>1, RunIsSeen DEF R!CheckOut
  <2> QED
    BY <1>1, <1>2, <2>2, RunIsSeen DEF R!Step
<1>5. CASE Advance(v)
  <2>1. PICK s \in legalTransitions[wstatus[v]] \ {"failed", "cancelled"} :
          Advance(v)!3!(s)
    BY <1>5 DEF Advance
  <2>2. worktrees' = worktrees
    BY <1>5 DEF Advance
  <2>3. wrevs'[v] = IF s = "waiting_for_revision" THEN wrevs[v] + 1 ELSE wrevs[v]
    BY <1>1, <2>1 DEF TypeOK
  <2>4. s = "waiting_for_revision" => wrevs[v] < MaxRevisions
    BY <2>1
  <2>5. CASE /\ Write(wjob[v], s)
             /\ wpc' = [wpc EXCEPT ![v] = IF s = "completed" THEN "cleanup" ELSE "run"]
    <3>1. stored'[wjob[v]] = s /\ wpc'[v] = IF s = "completed" THEN "cleanup" ELSE "run"
      BY <1>1, <1>3, <2>5 DEF Write, TypeOK
    <3>2. R!Advance(wjob[v])
      BY <1>1, <1>2, <1>3, <2>1, <2>2, <2>3, <2>4, <3>1, RunIsSeen, SameStatuses DEF R!Advance
    <3> QED
      BY <1>1, <1>2, <3>2, RunIsSeen DEF R!Step
  <2>6. CASE Refused /\ wpc' = [wpc EXCEPT ![v] = AfterRefusal(s)]
    <3>1. stored' = stored /\ "store" \in Faults /\ wpc'[v] = "failing"
      BY <1>1, <2>6 DEF Refused, AfterRefusal, TypeOK
    <3>2. R!Advance(wjob[v])
      BY <1>1, <1>2, <1>3, <2>1, <2>2, <2>4, <3>1, RunIsSeen, SameStatuses DEF R!Advance
    <3> QED
      BY <1>1, <1>2, <3>2, RunIsSeen DEF R!Step
  <2> QED
    BY <2>1, <2>5, <2>6
<1> QED
  BY <1>4, <1>5

\* The write of an end is JobRun's: where the move is illegal in the worker's memory,
\* the store had refused what brought it there.
LEMMA EndImplements ==
  ASSUME RunsInv, IInv', NEW v \in Workers, MarkFailed(v) \/ MarkCancelled(v)
  PROVE  R!Step(wjob[v])
<1>1. IInv /\ TypeOK
  BY DEF RunsInv, RInv, IInv
<1>2. PICK from, s, to : /\ EndRun(v, from, s, to)
                         /\ from \in {"failing", "cancelling", "recovered"}
                         /\ s = IF from = "cancelling" THEN "cancelled" ELSE "failed"
                         /\ to = IF from = "recovered" THEN "release" ELSE "cleanup"
  BY DEF MarkFailed, MarkCancelled
<1>3. /\ wpc[v] = from /\ wpc'[v] = to
      /\ wjob' = wjob /\ wctx' = wctx /\ worktrees' = worktrees
  BY <1>1, <1>2 DEF EndRun, TypeOK
<1>4. wjob[v] \in Jobs /\ stored[wjob[v]] \notin Terminal
  BY <1>1, <1>2, <1>3, RunIsSeen DEF RunsInv, RInv, RunsAreOpen
<1>5. stored[wjob[v]] \in JobStatuses
  BY <1>1, <1>4 DEF IInv, TypeOK, AbsentIsUnclaimed, Running
<1>6. CanTransition(stored[wjob[v]], s)
  BY <1>2, <1>4, <1>5, OpenCanEnd
<1>7. stored'[wjob[v]] = s \/ ("store" \in Faults /\ stored'[wjob[v]] = stored[wjob[v]])
  <2>1. CASE CanTransition(wstatus[v], s)
    BY <1>1, <1>2, <1>4, <2>1 DEF EndRun, Write, Refused, TypeOK
  <2>2. CASE ~CanTransition(wstatus[v], s)
    <3>1. stored' = stored /\ stored[wjob[v]] # wstatus[v]
      BY <1>2, <1>6, <2>2 DEF EndRun
    <3>2. "store" \in Faults
      BY <1>1, <1>2, <1>3, <3>1 DEF RunsInv, EndIsStored, IInv, RecordIsCurrent
    <3> QED
      BY <3>1, <3>2
  <2> QED
    BY <2>1, <2>2
<1>8. R!End(wjob[v])
  BY <1>1, <1>2, <1>3, <1>4, <1>6, <1>7, RunIsSeen, SameStatuses DEF R!End
<1> QED
  BY <1>1, <1>2, <1>3, <1>8, RunIsSeen DEF R!Step

\* The deferred cleanup is JobRun's, whether the run panics or not.
LEMMA CleanupImplements ==
  ASSUME RunsInv, IInv', NEW v \in Workers, Unwind(v) \/ Cleanup(v)
  PROVE  R!Step(wjob[v])
<1>1. IInv /\ TypeOK
  BY DEF RunsInv, RInv, IInv
<1>2. /\ wpc[v] \in {"unwind", "cleanup"} /\ RemoveCheckout(wjob[v])
      /\ wpc'[v] = IF wpc[v] = "unwind" THEN "recovered" ELSE "release"
      /\ wjob' = wjob /\ wctx' = wctx /\ stored' = stored
  BY <1>1 DEF Unwind, Cleanup, TypeOK
<1>3. /\ wjob[v] \in worktrees' => wjob[v] \in worktrees
      /\ wjob[v] \in worktrees' => "cleanup" \in Faults
  BY <1>2 DEF RemoveCheckout
<1>4. R!Cleanup(wjob[v])
  BY <1>1, <1>2, <1>3, RunIsSeen DEF R!Cleanup
<1> QED
  BY <1>1, <1>2, <1>4, RunIsSeen DEF R!Step

\* A worker lets go of its job with JobRun's last step.
LEMMA ReleaseImplements ==
  ASSUME RunsInv, IInv', NEW v \in Workers, Release(v)
  PROVE  R!Step(wjob[v])
<1>1. IInv /\ TypeOK /\ wpc[v] = "release" /\ UNCHANGED <<stored, worktrees>>
      /\ wjob' = [wjob EXCEPT ![v] = NoJob]
  BY DEF RunsInv, RInv, IInv, Release, durable
<1>a. IdleIsFree /\ WorkersAreDistinct /\ wjob \in [Workers -> Jobs \cup {NoJob}]
  BY <1>1 DEF IInv, Claims, TypeOK
<1>2. PICK j \in Jobs : wjob[v] = j
  BY <1>1, <1>a DEF IdleIsFree
<1>3. ~Running(j)'
  BY <1>1, <1>2, <1>a, ServiceAssumption DEF Running, WorkersAreDistinct
<1>4. placeOf[j] = "release" /\ placeOf'[j] = "off"
  BY <1>1, <1>2, <1>3, RunsArePlaced, RunsArePlacedThen DEF Placed
<1>5. stored[j] \in Terminal \/ "store" \in Faults
  BY <1>1, <1>2 DEF RunsInv, EndIsStored
<1>6. R!Release(j)
  BY <1>1, <1>4, <1>5, SameStatuses DEF R!Release, R!Goes
<1> QED
  BY <1>2, <1>4, <1>6 DEF R!Step

\* A step in which the process does not end is a step, or none, of each job's run.
LEMMA EachRunSteps ==
  ASSUME RunsInv, Next, IInv', ~Exit, ~Crash, NEW j \in Jobs
  PROVE  R!Step(j)
<1>1. IInv /\ TypeOK /\ Placed /\ Placed'
  BY RunsArePlaced, RunsArePlacedThen DEF RunsInv, RInv, IInv
<1>2. CASE Running(j)
  <2>1. PICK v \in Workers : wjob[v] = j
    BY <1>2 DEF Running
  <2>2. wpc[v] \notin {"idle", "gone"}
    BY <1>1, <2>1, ServiceAssumption DEF IInv, IdleIsFree
  <2>3. CASE RunStep(v)
    BY <2>1, <2>3, QuietStepsImplement, WritesImplement, EndImplements, CleanupImplements,
       ReleaseImplements DEF RunStep
  <2>4. CASE ~RunStep(v)
    <3>1. /\ wpc'[v] = wpc[v] /\ wjob'[v] = j /\ wrevs'[v] = wrevs[v]
          /\ wctx[v] = "live" \/ wctx'[v] = wctx[v]
          /\ stored'[j] = stored[j] /\ (j \in worktrees' <=> j \in worktrees)
      BY <1>1, <2>1, <2>4, OtherRuns
    <3>2. /\ placeOf[j] = wpc[v] /\ placeOf'[j] = wpc'[v]
          /\ contextOf[j] = wctx[v] /\ contextOf'[j] = wctx'[v]
          /\ revisionsOf[j] = wrevs[v] /\ revisionsOf'[j] = wrevs'[v]
      BY <1>1, <2>1, <3>1 DEF Placed
    <3>3. placeOf[j] # "off"
      BY <1>1, <3>2 DEF TypeOK, PCs
    <3>4. R!Waits(j)
      BY <3>1, <3>2, <3>3 DEF R!Waits, R!Goes
    <3> QED
      BY <3>1, <3>2, <3>4 DEF R!Step
  <2> QED
    BY <2>3, <2>4
<1>3. CASE ~Running(j) /\ ~Running(j)'
  <2>1. placeOf[j] = "off" /\ placeOf'[j] = "off"
    BY <1>1, <1>3 DEF Placed
  <2> QED
    BY <2>1 DEF R!Step, R!Outside
<1>4. CASE ~Running(j) /\ Running(j)'
  <2>1. PICK v \in Workers : wjob'[v] = j
    BY <1>4 DEF Running
  <2>2. PICK w \in Workers : Dequeue(w)
    <3>1. wjob'[v] # wjob[v] /\ wjob'[v] # NoJob
      BY <1>4, <2>1, ServiceAssumption DEF Running
    <3>2. ASSUME NEW i \in Jobs, JobStep(i) PROVE wjob' = wjob
      BY <3>2 DEF JobStep, Create, Enqueue, RejectFull, Cancel, RecoverQueued,
                  ReclaimWorktree, FailInterrupted, SkipTerminal, pool
    <3>3. ASSUME NEW w \in Workers, WorkerStep(w), ~Dequeue(w)
          PROVE  wjob' = wjob \/ Release(w)
      BY <3>3 DEF WorkerStep, RunStep, WorkerStops, Load, CheckOut, Advance, Interrupt,
                  StageFails, Panic, Unwind, MarkFailed, MarkCancelled, EndRun, Cleanup, Expire, pool
    <3>4. ASSUME NEW w \in Workers, Release(w) PROVE FALSE
      BY <1>1, <3>1, <3>4 DEF Release, TypeOK
    <3>5. CASE ProcessStep \/ Rest
      BY <3>5, <3>1 DEF ProcessStep, Serve, Signal, CancelWorkers, CloseQueue, Restart, Rest, vars, pool
    <3> QED
      BY <3>1, <3>2, <3>3, <3>4, <3>5 DEF Next
  <2>3. /\ wjob' = [wjob EXCEPT ![w] = Head(queue)] /\ wpc' = [wpc EXCEPT ![w] = "load"]
        /\ queue # <<>> /\ UNCHANGED <<stored, worktrees>>
    BY <2>2 DEF Dequeue, durable
  <2>4. v = w /\ j = Head(queue)
    BY <1>1, <1>4, <2>1, <2>3 DEF TypeOK, Running
  <2>5. stored[j] = "queued"
    <3>1. 1 \in 1..Len(queue) /\ queue[1] = Head(queue)
      BY <1>1, <2>3 DEF TypeOK
    <3> QED
      BY <1>1, <2>4, <3>1 DEF IInv, RecordIsCurrent
  <2>6. j \notin worktrees
    BY <2>5 DEF RunsInv, CheckoutsAreOfStarted
  <2>7. placeOf[j] = "off" /\ placeOf'[j] = "load"
    BY <1>1, <1>4, <2>1, <2>3, <2>4 DEF Placed, TypeOK
  <2>8. R!Begin(j)
    BY <2>3, <2>5, <2>6, <2>7 DEF R!Begin, R!Goes
  <2> QED
    BY <2>7, <2>8 DEF R!Step
<1> QED
  BY <1>2, <1>3, <1>4

\* The end of the process is the end of every run, wherever it is.
LEMMA EndOfAllRuns ==
  ASSUME RunsInv, IInv', Forget
  PROVE  R!Forget
<1>1. UNCHANGED <<stored, worktrees>> /\ ~Up' /\ \A w \in Workers : wjob'[w] = NoJob
  BY DEF Forget, Up, durable
<1>2. \A j \in Jobs : placeOf'[j] = "off"
  BY <1>1, RunsArePlacedThen, ServiceAssumption DEF Placed, Running
<1> QED
  BY <1>1, <1>2 DEF R!Forget, R!Goes

\* The pool makes of every run what Process makes of it: it begins with a queued job
\* without a checkout, makes and removes that job's checkout at its places, moves its
\* record along, and lets go of it with its end stored, unless the process ends first or
\* the store refuses. For every pool, queue and set of faults.
THEOREM RunsAreRunsOfProcess == Spec => ImplementsRun
<1>1. Init => RunsInv /\ R!Start
  <2> SUFFICES ASSUME Init PROVE RunsInv /\ R!Start
    OBVIOUS
  <2>1. RunsInv
    BY RunsInvHolds
  <2>2. \A j \in Jobs : placeOf[j] = "off"
    BY <2>1, RunsArePlaced, ServiceAssumption DEF RunsInv, RInv, Placed, Running, Init
  <2> QED
    BY <2>1, <2>2 DEF R!Start
<1>2. RunsInv /\ [Next]_vars => RunsInv'
  BY RunsInvHolds
<1>3. RunsInv /\ [Next]_vars => [R!Next]_(R!runVars)
  <2>1. ASSUME UNCHANGED vars PROVE UNCHANGED R!runVars
    <3>1. UNCHANGED <<stored, worktrees, wpc, wjob, wctx, wrevs, phase>>
      BY <2>1 DEF vars, durable, pool
    <3> QED
      BY <3>1, Zenon DEF R!runVars, placeOf, contextOf, revisionsOf, holderOf, RunnerOf, Up
  <2>2. ASSUME RunsInv, Next PROVE R!Next
    <3>1. IInv'
      BY <2>2, StepIInv DEF RunsInv, RInv
    <3>2. CASE Exit \/ Crash
      BY <2>2, <3>1, <3>2, EndOfAllRuns DEF R!Next, Exit, Crash
    <3>3. CASE ~Exit /\ ~Crash
      <4>1. \A j \in Jobs : R!Step(j)
        BY <2>2, <3>1, <3>3, EachRunSteps
      <4>2. phase' = phase \/ phase' # "down"
        BY <2>2, <3>3, PhaseMoves DEF ProcessStep, Serve, Signal, CancelWorkers, CloseQueue, Restart
      <4>3. Up => Up'
        BY <4>2 DEF Up
      <4> QED
        BY <4>1, <4>3 DEF R!Next
    <3> QED
      BY <3>2, <3>3
  <2> QED
    BY <2>1, <2>2
<1> QED
  BY <1>1, <1>2, <1>3, PTL DEF Spec, ImplementsRun, R!Runs
=============================================================================
