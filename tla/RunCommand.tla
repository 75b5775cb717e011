----------------------------- MODULE RunCommand ------------------------------
(***************************************************************************)
(* One `rojo run` (cmd/rojo) against the server: it submits a job, polls   *)
(* its events and its status until it is over, fetches the patch, perhaps  *)
(* applies it, and tells its shell how things went.  On the way its user   *)
(* may press Ctrl-C, requests may fail, and the server may restart.        *)
(* A request passes the server's chain of handlers (Chain), where one      *)
(* bucket limits the address of the client.  Time is counted in ticks, of  *)
(* which RefillTicks give one token; the bucket here is exact, and         *)
(* RateLimiter shows how far the real one may be from it.                  *)
(***************************************************************************)
EXTENDS Integers, JobStatus

CONSTANTS
  Burst,         \* tokens of a full bucket
  RefillTicks,   \* ticks in which one token comes back
  PollTicks,     \* pollInterval in ticks
  MaxRevisions,  \* revisions of a job
  MaxRestarts,   \* bound: restarts of the server
  Setups,        \* records [apply, authorized, shared]: the -apply flag, a token
                 \* the server accepts, other clients at the same address
  Faults,        \* the members of FaultKinds an instance admits
  Absent

FaultKinds ==
  {"unreachable",  \* no connection
   "late",         \* the handler ran, its answer came after the client's timeout
   "broken",       \* the handler answers 500, or panics and is recovered
   "full",         \* no room in the queue, for a submission or for a recovered job
   "store",        \* a write of the job's status is refused
   "conflict",     \* git apply refuses the patch
   "restart"}      \* the server dies and is started again

ASSUME RunCommandAssumption ==
  /\ Burst \in Nat /\ RefillTicks \in Nat \ {0} /\ PollTicks \in Nat
  /\ MaxRevisions \in Nat /\ MaxRestarts \in Nat
  /\ Setups \subseteq [apply : BOOLEAN, authorized : BOOLEAN, shared : BOOLEAN]
  /\ Faults \subseteq FaultKinds
  /\ Absent \notin JobStatuses

Full == Burst * RefillTicks

\* No exit code yet, and the end by a signal.
None   == -1
Killed == 130

VARIABLES
  setup, restarts,
  record, waiting,        \* the job: its stored status, and whether it is in the queue
  tracked, stop,          \* it is known to the canceller, and cancelled
  round, patch,           \* its round, and the round its patch was taken in, 0 for none
  tokens, throttled,      \* the address's bucket, in ticks; a request was turned away
  pc, wake,               \* where cmdRun is, and how long it has yet to sleep
  heard, got,             \* the status and the patch it was answered
  printed, applied,       \* the patch on its stdout, and in the repository
  ctl, pressed,           \* its interrupt goroutine, and the Ctrl-Cs it was sent
  failed,                 \* the calls that returned an error
  code                    \* its exit code

jobVars    == <<record, waiting, tracked, stop, round, patch>>
limitVars  == <<tokens, throttled>>
clientVars == <<pc, wake, heard, got, printed, applied, failed, code>>
signalVars == <<ctl, pressed>>
envVars == <<setup, restarts>>
vars == <<envVars, jobVars, limitVars, clientVars, signalVars>>

Init ==
  /\ setup \in Setups /\ restarts = 0
  /\ record = Absent /\ waiting = FALSE /\ tracked = FALSE /\ stop = FALSE
  /\ round = 1 /\ patch = 0
  /\ tokens = Full /\ throttled = FALSE
  /\ pc = "create" /\ wake = 0 /\ heard = Absent /\ got = 0
  /\ printed = 0 /\ applied = 0
  /\ ctl = "none" /\ pressed = 0
  /\ failed = {} /\ code = None

Up == pc # "exit"
-----------------------------------------------------------------------------
\* What the client sees of a request, and what the chain of main.go does with it:
\* authorization first, then the limiter, then the handler within its barrier.
Answers == {"served", "late", "broken", "throttled", "unauthorized", "unreachable"}

Chain(a) ==
  \/ /\ a = "unreachable" /\ a \in Faults
     /\ UNCHANGED limitVars
  \/ /\ a = "unauthorized" /\ ~setup.authorized
     /\ UNCHANGED limitVars
  \/ /\ a = "throttled" /\ setup.authorized /\ tokens < RefillTicks
     /\ throttled' = TRUE
     /\ UNCHANGED tokens
  \/ /\ a \in {"served"} \cup ({"late", "broken"} \cap Faults)
     /\ setup.authorized /\ tokens >= RefillTicks
     /\ tokens' = tokens - RefillTicks
     /\ UNCHANGED throttled

Handled(a) == a \in {"served", "late"}

\* A slip: a cancelled job is not seen to be over.
EndedUnlessStopped(s) == s \in {"completed", "failed"}

\* The statuses at which watch returns.
Ended(s) == s \in {"completed", "failed", "cancelled"}

\* A slip: whatever did not fail is a success.
CodeUnlessFailed(s) == IF s = "failed" THEN 1 ELSE 0

CodeOf(s) == CASE s = "completed" -> 0 [] s = "cancelled" -> 2 [] OTHER -> 1

\* cmdRun returns, and with it the process ends.
Exit(n) == pc' = "exit" /\ code' = n

\* A call of cmdRun that returns an error and ends it.
GiveUpOn(call) ==
  /\ failed' = failed \cup {call}
  /\ Exit(1)
  /\ UNCHANGED <<wake, heard, got, printed, applied>>
-----------------------------------------------------------------------------
\* What a record may remain where a write of it is refused.
Unwritten(s) == IF "store" \in Faults THEN {s} ELSE {}

\* createJob, with the handler's outcomes: stored and queued; stored and, for want
\* of room, failed, which may not be stored; or not stored.  Then signals are
\* listened to.
Create ==
  /\ pc = "create"
  /\ \E a \in Answers :
       /\ Chain(a)
       /\ \/ /\ Handled(a)
             /\ record' = "queued" /\ waiting' = TRUE
             /\ IF a = "served"
                  THEN /\ pc' = "events" /\ ctl' = "waiting"
                       /\ UNCHANGED <<wake, heard, got, printed, applied, failed, code>>
                  ELSE GiveUpOn("create") /\ UNCHANGED ctl
          \/ /\ Handled(a) /\ "full" \in Faults
             /\ record' \in {"failed"} \cup Unwritten("queued")
             /\ GiveUpOn("create") /\ UNCHANGED <<waiting, ctl>>
          \/ /\ ~Handled(a)
             /\ GiveUpOn("create") /\ UNCHANGED <<record, waiting, ctl>>
  /\ UNCHANGED <<envVars, tracked, stop, round, patch, pressed>>

\* watch: the events since the last round, which Events follows, ...
PollEvents ==
  /\ pc = "events"
  /\ \E a \in Answers :
       /\ Chain(a)
       /\ IF a = "served"
            THEN /\ pc' = "status"
                 /\ UNCHANGED <<wake, heard, got, printed, applied, failed, code>>
            ELSE GiveUpOn("events")
  /\ UNCHANGED <<envVars, jobVars, signalVars>>

\* A slip: half the interval.
NapShort == PollTicks \div 2

\* How long watch sleeps.
Nap == PollTicks

\* ... then the status, and a nap unless the job is over.
PollStatus ==
  /\ pc = "status"
  /\ \E a \in Answers :
       /\ Chain(a)
       /\ IF a = "served"
            THEN /\ heard' = record
                 /\ IF Ended(record)
                      THEN pc' = "diff" /\ UNCHANGED wake
                      ELSE pc' = "sleep" /\ wake' = Nap
                 /\ UNCHANGED <<got, printed, applied, failed, code>>
            ELSE GiveUpOn("status")
  /\ UNCHANGED <<envVars, jobVars, signalVars>>

Wake ==
  /\ pc = "sleep" /\ wake = 0
  /\ pc' = "events"
  /\ UNCHANGED <<envVars, jobVars, limitVars, signalVars, wake, heard, got, printed,
                 applied, failed, code>>

\* A slip: whatever the job came to.
ToApplyAnyway(p) == p # 0 /\ setup.apply

\* Whether the patch is for the repository and not for stdout.
ToApply(p) == p # 0 /\ setup.apply /\ heard = "completed"

\* jobDiff: a patch, or none (a 404), or an error that is only printed.
FetchDiff ==
  /\ pc = "diff"
  /\ \E a \in Answers :
       /\ Chain(a)
       /\ IF a = "served"
            THEN /\ got' = patch
                 /\ IF ToApply(patch)
                      THEN pc' = "apply" /\ UNCHANGED <<printed, code>>
                      ELSE printed' = patch /\ Exit(CodeOf(heard))
                 /\ UNCHANGED failed
            ELSE /\ failed' = failed \cup {"diff"}
                 /\ Exit(CodeOf(heard))
                 /\ UNCHANGED <<got, printed>>
  /\ UNCHANGED <<envVars, jobVars, signalVars, wake, heard, applied>>

\* gitApply; a patch that is refused is printed rather than lost.
Apply ==
  /\ pc = "apply"
  /\ \/ /\ applied' = got /\ Exit(CodeOf(heard))
        /\ UNCHANGED <<printed, failed>>
     \/ /\ "conflict" \in Faults
        /\ printed' = got /\ failed' = failed \cup {"apply"} /\ Exit(1)
        /\ UNCHANGED applied
  /\ UNCHANGED <<envVars, jobVars, limitVars, signalVars, wake, heard, got>>
-----------------------------------------------------------------------------
\* The user presses Ctrl-C: before signals are listened to it kills the client.
Interrupt ==
  /\ Up /\ pressed < 2
  /\ pressed' = pressed + 1
  /\ IF ctl = "none" THEN Exit(Killed) ELSE UNCHANGED <<pc, code>>
  /\ UNCHANGED <<envVars, jobVars, limitVars, ctl, wake, heard, got, printed, applied, failed>>

\* The goroutine asks once for the job to be cancelled, whatever it is answered.
\* The handler refuses (409) a job the canceller does not know.
AskToCancel ==
  /\ Up /\ ctl = "waiting" /\ pressed > 0
  /\ ctl' = "asked"
  /\ \E a \in Answers :
       /\ Chain(a)
       /\ stop' = (stop \/ (Handled(a) /\ tracked))
       /\ failed' = IF a = "served" /\ tracked THEN failed ELSE failed \cup {"cancel"}
  /\ UNCHANGED <<envVars, record, waiting, tracked, round, patch, pc, wake, heard, got,
                 printed, applied, code, pressed>>

\* The second Ctrl-C ends the client where it is; a git apply of its runs on.
StopWatching ==
  /\ Up /\ ctl = "asked" /\ pressed = 2
  /\ applied' \in IF pc = "apply" THEN {applied, got} ELSE {applied}
  /\ Exit(2)
  /\ UNCHANGED <<envVars, jobVars, limitVars, signalVars, wake, heard, got, printed, failed>>
-----------------------------------------------------------------------------
\* The server's side of the job: a worker takes it ...
Claim ==
  /\ waiting
  /\ waiting' = FALSE /\ tracked' = TRUE
  /\ UNCHANGED <<envVars, record, stop, round, patch, limitVars, clientVars, signalVars>>

\* ... moves it on, or ends it once it is cancelled, ...
Moves ==
  {s \in legalTransitions[record] :
     /\ s = "cancelled" => stop
     /\ stop => s \in Terminal
     /\ s = "waiting_for_revision" => round <= MaxRevisions}

Work ==
  /\ tracked /\ record \notin Terminal
  /\ record' \in Moves
  /\ round' = IF record = "waiting_for_revision" /\ record' = "implementing"
                THEN round + 1 ELSE round
  /\ UNCHANGED <<envVars, waiting, tracked, stop, patch, limitVars, clientVars, signalVars>>

\* ... saves the patch of a round while it is verified, ...
SavePatch ==
  /\ tracked /\ record = "verifying"
  /\ patch' = round
  /\ UNCHANGED <<envVars, record, waiting, tracked, stop, round, limitVars, clientVars, signalVars>>

\* ... and lets go of it once its end is stored, or refused by the store.
Release ==
  /\ tracked /\ (record \in Terminal \/ "store" \in Faults)
  /\ tracked' = FALSE /\ stop' = FALSE
  /\ UNCHANGED <<envVars, record, waiting, round, patch, limitVars, clientVars, signalVars>>

\* Somebody else cancels the job, or the server is being stopped.
CancelElsewhere ==
  /\ tracked /\ ~stop
  /\ stop' = TRUE
  /\ UNCHANGED <<envVars, record, waiting, tracked, round, patch, limitVars, clientVars, signalVars>>

\* The server dies and recovers, between two requests that are answered: a run
\* that was cut short is failed, unless that is refused, and a job that was never
\* started goes back to the queue, or stays out of it for want of room.
Restart ==
  /\ "restart" \in Faults /\ restarts < MaxRestarts
  /\ restarts' = restarts + 1
  /\ record' \in IF IsInterrupted(record) THEN {"failed"} \cup Unwritten(record)
                                         ELSE {record}
  /\ waiting' \in IF record # "queued" THEN {FALSE}
                  ELSE {TRUE} \cup (IF "full" \in Faults THEN {FALSE} ELSE {})
  /\ tracked' = FALSE /\ stop' = FALSE
  /\ tokens' = Full
  /\ UNCHANGED <<setup, round, patch, throttled, clientVars, signalVars>>

\* Another client at the address has a request served.
Neighbour ==
  /\ setup.shared /\ tokens >= RefillTicks
  /\ tokens' = tokens - RefillTicks
  /\ UNCHANGED <<envVars, jobVars, throttled, clientVars, signalVars>>

Tick ==
  /\ tokens < Full \/ wake > 0
  /\ tokens' = IF tokens < Full THEN tokens + 1 ELSE Full
  /\ wake' = IF wake > 0 THEN wake - 1 ELSE 0
  /\ UNCHANGED <<envVars, jobVars, throttled, pc, heard, got, printed, applied, failed,
                 code, signalVars>>
-----------------------------------------------------------------------------
CmdRun == Create \/ PollEvents \/ PollStatus \/ Wake \/ FetchDiff \/ Apply
Job    == Claim \/ Work \/ Release
Next ==
  \/ CmdRun \/ Interrupt \/ AskToCancel \/ StopWatching
  \/ Job \/ SavePatch \/ CancelElsewhere \/ Restart \/ Neighbour \/ Tick

Spec == Init /\ [][Next]_vars

\* The client's requests are bounded by its timeout, the workers take what is in
\* the queue, a run is bounded by its own deadline, and time passes.
FairSpec ==
  Spec /\ WF_vars(CmdRun) /\ WF_vars(Tick) /\ WF_vars(Claim) /\ WF_vars(Work)
-----------------------------------------------------------------------------
TypeOK ==
  /\ setup \in Setups /\ restarts \in 0..MaxRestarts
  /\ record \in JobStatuses \cup {Absent}
  /\ waiting \in BOOLEAN /\ tracked \in BOOLEAN /\ stop \in BOOLEAN
  /\ round \in Nat /\ patch \in Nat
  /\ tokens \in 0..Full /\ throttled \in BOOLEAN
  /\ pc \in {"create", "events", "status", "sleep", "diff", "apply", "exit"}
  /\ wake \in 0..PollTicks
  /\ heard \in JobStatuses \cup {Absent}
  /\ got \in Nat /\ printed \in Nat /\ applied \in Nat
  /\ ctl \in {"none", "waiting", "asked"} /\ pressed \in 0..2
  /\ failed \subseteq {"create", "events", "status", "diff", "apply", "cancel"}
  /\ code \in {None, Killed, 0, 1, 2}

\* The shell is told 0 only of a job that completed, 2 only of one that was
\* cancelled or of a user who pressed Ctrl-C twice, and 1 of one that completed or
\* was cancelled only when a call failed, however the job moved on between the
\* client's requests and whoever cancelled it (main.go's last switch).
ExitCodeIsTrue ==
  /\ code = 0 => record = "completed"
  /\ code = 2 => record = "cancelled" \/ pressed = 2
  /\ code = 1 => record = "failed" \/ failed \ {"diff", "cancel"} # {}

\* A client that saw its job end and returns has handed over the job's last patch,
\* on stdout or in the repository, unless it could not fetch it; nothing but the
\* last patch of a completed job is ever applied, though rounds overwrite it
\* (main.go's comment "in every terminal outcome that produced one").
LastPatchIsHandedOver ==
  /\ code \in {0, 1, 2} /\ heard \in Terminal /\ "diff" \notin failed /\ pressed < 2
       => patch \in {printed, applied}
  /\ applied # 0 => record = "completed" /\ applied = patch

\* A client that has its address to itself is never turned away by the limiter: it
\* spends what comes back while it sleeps, and its submission, its first round, its
\* fetch and its cancellation fit in the burst (pollInterval and the defaults of
\* ROJO_RATE_LIMIT_BURST and ROJO_RATE_LIMIT_RPS).
LoneClientIsServed == ~setup.shared => ~throttled

\* Nobody has the job, and its record does not say that it is over: it found no
\* room when the server recovered, or a write of its end was refused.
Forgotten ==
  /\ record \notin Terminal \cup {Absent}
  /\ ~waiting /\ ~tracked

\* A client returns: its job ends, or a request of it fails. The one exception: a
\* job that nobody has any more, and which no further start of the server brings
\* back, is polled for ever, for watch has no deadline.
ClientReturns == <>(pc = "exit") \/ <>[]Forgotten

\* What main.go:126-128 says of the second Ctrl-C: "the server still finishes the
\* cancellation on its own", so there is one, or the job is over.
GivingUpIsCancelling ==
  code = 2 => stop \/ record \in Terminal
=============================================================================
