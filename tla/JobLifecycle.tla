---------------------------- MODULE JobLifecycle -----------------------------
(***************************************************************************)
(* What the service promises about a job, without saying how: its stored   *)
(* status walks the state machine of internal/jobs, only a worker that     *)
(* holds the job alone moves it forward, and what happens to it while      *)
(* nobody holds it is that it is refused at the door or, after a restart,  *)
(* failed as interrupted.                                                  *)
(***************************************************************************)
EXTENDS JobStatus

CONSTANTS Jobs, Workers, Absent, Nobody

VARIABLES
  record,   \* job -> its stored status, Absent before it is submitted
  holder    \* job -> the worker running it, or Nobody

lifecycleVars == <<record, holder>>

Start == record = [j \in Jobs |-> Absent] /\ holder = [j \in Jobs |-> Nobody]

Free(w) == \A j \in Jobs : holder[j] # w

Accept(j) ==
  /\ record[j] = Absent
  /\ record' = [record EXCEPT ![j] = "queued"]
  /\ UNCHANGED holder

\* The queue had no room, so no worker will ever see the job.
Refuse(j) ==
  /\ record[j] = "queued" /\ holder[j] = Nobody
  /\ record' = [record EXCEPT ![j] = "failed"]
  /\ UNCHANGED holder

Claim(j, w) ==
  /\ record[j] = "queued" /\ holder[j] = Nobody /\ Free(w)
  /\ holder' = [holder EXCEPT ![j] = w]
  /\ UNCHANGED record

Move(j) ==
  /\ holder[j] # Nobody
  /\ \E s \in JobStatuses : /\ CanTransition(record[j], s)
                            /\ record' = [record EXCEPT ![j] = s]
  /\ UNCHANGED holder

\* The worker lets go; usually, but not if the store refused it, at the end.
LetGo(j) ==
  /\ holder[j] # Nobody
  /\ holder' = [holder EXCEPT ![j] = Nobody]
  /\ UNCHANGED record

\* The process stops: every worker lets go where it is.
LetGoOfAll == holder' = [j \in Jobs |-> Nobody] /\ UNCHANGED record

\* A job found half done at startup is failed, never resumed.
FailInterrupted(j) ==
  /\ IsInterrupted(record[j]) /\ holder[j] = Nobody
  /\ record' = [record EXCEPT ![j] = "failed"]
  /\ UNCHANGED holder

Step ==
  \/ \E j \in Jobs : \/ Accept(j) \/ Refuse(j) \/ Move(j) \/ LetGo(j)
                     \/ FailInterrupted(j)
                     \/ \E w \in Workers : Claim(j, w)
  \/ LetGoOfAll

Lifecycle == Start /\ [][Step]_lifecycleVars
=============================================================================
