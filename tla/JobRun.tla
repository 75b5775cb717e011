------------------------------- MODULE JobRun --------------------------------
(***************************************************************************)
(* One run of a job, from the worker that takes it to the worker that lets *)
(* it go: what the rest of the service may rely on, and Process does.  In  *)
(* Service a run is made of these steps; Processor has each of them in     *)
(* detail, and both are shown to implement it.                             *)
(*                                                                         *)
(* Jobs move side by side, so a step of the whole is a step, or none, of   *)
(* each job.  A context that is over stays so, and is noticed when the run *)
(* next looks.                                                             *)
(***************************************************************************)
EXTENDS Naturals, JobStatus

CONSTANTS Jobs, MaxRevisions

VARIABLES
  at,         \* job -> where its run is, "off" for none
  ctx,        \* job -> the context of its run
  revs,       \* job -> the revisions of its run, as long as it works
  record,     \* job -> its stored status
  checkouts,  \* the jobs with a checkout on disk
  mayFail,    \* what may go wrong: "store", "cleanup", "git"
  alive       \* the process is there

runVars == <<at, ctx, revs, record, checkouts, mayFail, alive>>

\* No run, or one that begins.
Start ==
  \A j \in Jobs : \/ at[j] = "off"
                  \/ at[j] = "load" /\ record[j] = "queued" /\ j \notin checkouts

\* From one place to another, with nothing to show for it.
Goes(j, from, to) ==
  /\ at[j] = from /\ at'[j] = to
  /\ record'[j] = record[j]
  /\ j \in checkouts' <=> j \in checkouts

\* Without a run the record and the checkout are the handlers' and recovery's.
Outside(j) == at[j] = "off" /\ at'[j] = "off"

Waits(j) == at[j] # "off" /\ Goes(j, at[j], at[j]) /\ revs'[j] = revs[j]

\* A worker takes a job that waits for one and that nobody ever began.
Begin(j) == Goes(j, "off", "load") /\ record[j] = "queued" /\ j \notin checkouts

Load(j) == Goes(j, "load", "run") /\ revs'[j] = 0

\* The one place where a checkout is made.
CheckOut(j) ==
  /\ at[j] = "run" /\ at'[j] = "run"
  /\ record[j] = "preparing_workspace" /\ record'[j] = record[j]
  /\ ctx[j] = "live"
  /\ j \notin checkouts /\ j \in checkouts'
  /\ revs'[j] = revs[j]

\* git is killed half way through it, and the run goes on to fail.
KilledCheckOut(j) ==
  /\ "git" \in mayFail
  /\ at[j] = "run" /\ at'[j] = "failing"
  /\ record[j] = "preparing_workspace" /\ record'[j] = record[j]
  /\ ctx[j] # "live"

\* The next status, a bounded number of times the one of a revision.
Advance(j) ==
  /\ at[j] = "run" /\ ctx[j] = "live"
  /\ j \in checkouts' <=> j \in checkouts
  /\ \E s \in legalTransitions[record[j]] \ {"failed", "cancelled"} :
       /\ s = "waiting_for_revision" => revs[j] < MaxRevisions
       /\ \/ /\ record'[j] = s
             /\ IF s = "completed"
                  THEN at'[j] = "cleanup"
                  ELSE /\ at'[j] = "run"
                       /\ revs'[j] = IF s = "waiting_for_revision" THEN revs[j] + 1 ELSE revs[j]
          \/ /\ "store" \in mayFail
             /\ record'[j] = record[j] /\ at'[j] = "failing"

\* What ends a run that is not completed. Only one that began can fail or panic.
Interrupt(j) ==
  /\ ctx[j] # "live"
  /\ Goes(j, "run", IF ctx[j] = "expired" THEN "failing" ELSE "cancelling")

StageFails(j) == Goes(j, "run", "failing") /\ record[j] # "queued"
Panic(j)      == Goes(j, "run", "unwind") /\ record[j] # "queued"

\* The end is recorded, over whatever status the run had, unless the store refuses.
End(j) ==
  /\ at[j] \in {"failing", "cancelling", "recovered"}
  /\ at'[j] = IF at[j] = "recovered" THEN "release" ELSE "cleanup"
  /\ j \in checkouts' <=> j \in checkouts
  /\ LET s == IF at[j] = "cancelling" THEN "cancelled" ELSE "failed"
     IN \/ CanTransition(record[j], s) /\ record'[j] = s
        \/ "store" \in mayFail /\ record'[j] = record[j]

\* A run takes its checkout with it, a panicking one before its end is recorded.
Cleanup(j) ==
  /\ at[j] \in {"cleanup", "unwind"}
  /\ record'[j] = record[j]
  /\ j \in checkouts' => j \in checkouts
  /\ \/ at'[j] = at[j] /\ revs'[j] = revs[j]
     \/ /\ at'[j] = IF at[j] = "unwind" THEN "recovered" ELSE "release"
        /\ j \in checkouts' => "cleanup" \in mayFail

\* The worker lets go of a job that is over.
Release(j) ==
  /\ Goes(j, "release", "off")
  /\ record[j] \in Terminal \/ "store" \in mayFail

Step(j) ==
  /\ \/ Outside(j) \/ Waits(j) \/ Begin(j) \/ Load(j)
     \/ CheckOut(j) \/ KilledCheckOut(j) \/ Advance(j)
     \/ Interrupt(j) \/ StageFails(j) \/ Panic(j) \/ End(j) \/ Cleanup(j) \/ Release(j)
  /\ at[j] # "off" /\ at'[j] # "off" => ctx[j] \in {"live", ctx'[j]}

\* The process ends, and with it every run, wherever it is.
Forget ==
  /\ ~alive'
  /\ \A j \in Jobs : at'[j] = "off" /\ Goes(j, at[j], "off")

Next ==
  /\ mayFail' = mayFail
  /\ \/ (\A j \in Jobs : Step(j)) /\ (alive => alive')
     \/ Forget

Runs == Start /\ [][Next]_runVars
=============================================================================
