------------------------------ MODULE Processor ------------------------------
(***************************************************************************)
(* One run of Processor.Process (internal/orchestration): a queued job is  *)
(* planned, checked out once per attempt, implemented, verified, reviewed, *)
(* perhaps revised once, and ended, while its user may cancel it and its   *)
(* deadline may pass between any two steps.                                *)
(*                                                                         *)
(* An action is one call the run makes to something that can fail (store,  *)
(* git, model, verifier) together with the code up to the next such call.  *)
(* A call made under the job's context succeeds only while the context is  *)
(* live: a call that finishes just after the context died commutes with    *)
(* the death, because the run looks at the context only in StartStep.      *)
(***************************************************************************)
EXTENDS Naturals, Sequences, JobStatus

CONSTANTS
  N,              \* attempts per job: variantCount(Variants), 1..8
  MaxRevisions,   \* passes back through implement, verify and review
  Setups,         \* which collaborators main.go may have set, and which
                  \* failures of theirs the instance then admits
  NoPatch, Torn   \* artifact values: never written, half written

Collaborators == {"planner", "workspaces", "implementor", "verifier",
                  "reviewer", "artifacts"}

FaultKinds ==
  {"panic",           \* a stage panics after the checkouts exist
   "panic_create",    \* Workspaces.Create itself panics
   "killed_create",   \* git is killed half way through `worktree add`
   "cleanup",         \* Workspaces.Cleanup reports an error
   "diff",            \* reading or writing a patch fails
   "empty_notes",     \* request_changes with no notes
   "store_advance",   \* a status write in advance is refused
   "store_complete",  \* the write of `completed` is refused
   "store_end"}       \* the write of `failed` or `cancelled` is refused

ASSUME ProcessorAssumption ==
  /\ N \in 1..8
  /\ MaxRevisions \in Nat
  /\ Setups \subseteq [wired : SUBSET Collaborators, faults : SUBSET FaultKinds]
  /\ NoPatch # Torn
  /\ {NoPatch, Torn} \cap [variant : 1..N, tree : Nat] = {}

Attempts == 1..N

VARIABLES
  pc,          \* where Process is
  next,        \* the step it is on, or about to start
  status,      \* job.Status in memory
  stored,      \* the status in the repository
  ctx,         \* the job context: live, cancelled or expired
  tracked,     \* the Canceller holds the job's cancel function
  k,           \* loop index over attempts
  made,        \* attempts in cands, which the deferred cleanup walks
  worktrees,   \* attempts whose checkout is on disk
  kept,        \* attempts whose Cleanup reported an error
  tree,        \* attempt -> the round that last wrote its tree; 0 is pristine
  implErr,     \* attempt -> candidate.implErr is set
  verifyErr,   \* attempt -> candidate.err is set
  report,      \* attempt -> the check results of candidate.report
  judged,      \* attempt -> the tree its report is about
  pending,     \* attempts whose verifier goroutine still runs
  progress,    \* implement has changed at least one attempt
  winner,      \* the attempt the job returns, 0 for none
  gateErr,     \* no attempt passed
  feedback,    \* the revision carries feedback
  revisions,
  artifact,    \* patch.diff
  ended,       \* terminal events published, in order
  lost,        \* status writes the store refused
  panicking,   \* unwinding a panic
  unwound,     \* the deferred cleanup and release have run
  counted,     \* the outcomes the run was counted with in the metrics
  setup        \* the member of Setups the process was started with

attemptVars == <<made, worktrees, kept, tree, implErr, verifyErr, report, judged>>
gateVars    == <<pending, progress, winner, gateErr, feedback, revisions, artifact>>
endVars     == <<stored, ended, lost>>
unwindVars  == <<panicking, unwound, counted, setup>>
vars == <<pc, next, status, ctx, tracked, k,
          attemptVars, gateVars, endVars, unwindVars>>

Wired  == setup.wired
Faults == setup.faults

-----------------------------------------------------------------------------
\* candidate.implemented, candidate.failure and candidate.passed.
Implemented(c) == c <= made /\ ~implErr[c]
FailedToVerify(c) == verifyErr[c]
Failed(c) == implErr[c] \/ verifyErr[c]
Passed(c)      == c <= made /\ ~Failed(c) /\ report[c] # "fail"

\* The attempt that stands for the job when none passed.
Representative ==
  IF \E c \in Attempts : Implemented(c)
    THEN CHOOSE c \in Attempts :
           Implemented(c) /\ \A d \in Attempts : Implemented(d) => c <= d
    ELSE 1

\* The lowest-indexed attempt that passed.
SelectWinner ==
  CHOOSE c \in Attempts : Passed(c) /\ \A d \in Attempts : Passed(d) => c <= d

\* The round the run is in; a tree written now carries this number.
Round == revisions + 1

\* The step after a step that asked for no revision.
Following ==
  [planning |-> "preparing_workspace", preparing_workspace |-> "implementing",
   implementing |-> "verifying", verifying |-> "reviewing",
   reviewing |-> "completed", waiting_for_revision |-> "implementing"]

\* Where Process goes once the status `s` is persisted.
Work(s) ==
  CASE s = "planning" /\ "planner" \in Wired                 -> "plan"
    [] s = "preparing_workspace" /\ "workspaces" \in Wired   -> "create"
    [] s = "implementing" /\ "implementor" \in Wired /\ made > 0 -> "implement"
    [] s = "verifying" /\ made > 0                           -> "gate"
    [] s = "reviewing" /\ made > 0                           -> "review"
    [] s = "completed"                                       -> "cleanup"
    [] OTHER                                                 -> "check"

\* step.completed: the stage is over and the loop goes round.
StepDone(step) == pc' = "check" /\ next' = step

Fail == pc' = "failing" /\ UNCHANGED next

Live == ctx = "live"
-----------------------------------------------------------------------------
Init ==
  /\ pc = "load" /\ next = "planning"
  /\ status = "queued" /\ stored = "queued"
  /\ ctx = "live" /\ tracked = FALSE
  /\ k = 1 /\ made = 0 /\ worktrees = {} /\ kept = {}
  /\ tree = [c \in Attempts |-> 0]
  /\ implErr = [c \in Attempts |-> FALSE]
  /\ verifyErr = [c \in Attempts |-> FALSE]
  /\ report = [c \in Attempts |-> "none"]
  /\ judged = [c \in Attempts |-> 0]
  /\ pending = {} /\ progress = FALSE
  /\ winner = 0 /\ gateErr = FALSE /\ feedback = FALSE /\ revisions = 0
  /\ artifact = NoPatch
  /\ ended = <<>> /\ lost = {}
  /\ panicking = FALSE /\ unwound = FALSE
  /\ counted = <<>> /\ setup \in Setups

\* Track the cancel function and load the job.
Load ==
  /\ pc = "load"
  /\ tracked' = TRUE
  /\ status' = stored
  /\ pc' = "check"
  /\ UNCHANGED <<next, ctx, k, attemptVars, gateVars, endVars, unwindVars>>

\* endInterrupted: a deadline fails the job, a request cancels it.
EndInterrupted == IF ctx = "expired" THEN "failing" ELSE "cancelling"

\* The cancellation checkpoint in front of every step, and of completion.
StartStep ==
  /\ pc = "check"
  /\ pc' = CASE ~Live                                  -> EndInterrupted
             [] Live /\ next = "completed" /\ gateErr  -> "failing"
             [] OTHER                                  -> "advance"
  /\ UNCHANGED <<next, status, ctx, tracked, k, attemptVars, gateVars,
                 endVars, unwindVars>>

\* What refusing the write of `s` is called in `lost`.
AdvanceFault(s) == IF s = "completed" THEN "store_complete" ELSE "store_advance"

\* Where a refused write of `s` takes the run: to markFailed.
AfterRefusalIgnored(s) == Work(s)
AfterRefusal(s) == "failing"

\* advance: move the job in memory, then persist it.
Advance ==
  /\ pc = "advance"
  /\ IF ~CanTransition(status, next)
       THEN /\ pc' = "failing"
            /\ UNCHANGED <<status, stored, ended, lost, k, pending, progress>>
       ELSE /\ status' = next
            /\ \/ /\ stored' = next
                  /\ pc' = Work(next)
                  /\ ended' = IF next = "completed"
                                THEN Append(ended, "completed") ELSE ended
                  /\ k' = 1
                  /\ progress' = FALSE
                  /\ pending' = IF "verifier" \in Wired /\ next = "verifying"
                                  THEN {c \in Attempts : Implemented(c)} ELSE {}
                  /\ UNCHANGED lost
               \/ /\ AdvanceFault(next) \in Faults
                  /\ lost' = lost \cup {AdvanceFault(next)}
                  /\ pc' = AfterRefusal(next)
                  /\ UNCHANGED <<stored, ended, k, pending, progress>>
  /\ next' = IF pc' = "check" THEN Following[next] ELSE next
  /\ UNCHANGED <<ctx, tracked, attemptVars, winner, gateErr, feedback,
                 revisions, artifact, unwindVars>>
-----------------------------------------------------------------------------
\* planning: the planner answers, or its error fails the job.
Plan ==
  /\ pc = "plan"
  /\ \/ Live /\ StepDone(Following[next])
     \/ Fail
  /\ UNCHANGED <<status, ctx, tracked, k, attemptVars, gateVars, endVars, unwindVars>>

\* createCandidates returns what it made so far alongside its error.
PartialCandsDropped == 0
PartialCands == k - 1

\* preparing_workspace, one attempt: `git worktree add`.
CreateCandidate ==
  /\ pc = "create" /\ k <= N
  /\ \/ /\ Live
        /\ worktrees' = worktrees \cup {k}
        /\ k' = k + 1
        /\ UNCHANGED <<pc, next, made>>
     \/ /\ Fail
        /\ made' = PartialCands
        /\ \/ UNCHANGED worktrees
           \/ /\ "killed_create" \in Faults /\ ~Live
              /\ worktrees' = worktrees \cup {k}
        /\ UNCHANGED k
  /\ UNCHANGED <<status, ctx, tracked, kept, tree, implErr, verifyErr, report,
                 judged, gateVars, endVars, unwindVars>>

CreateDone ==
  /\ pc = "create" /\ k > N
  /\ made' = N
  /\ StepDone(Following[next])
  /\ UNCHANGED <<status, ctx, tracked, k, worktrees, kept, tree, implErr,
                 verifyErr, report, judged, gateVars, endVars, unwindVars>>

\* implementing: a revision leaves alone the attempts that never got a change.
SkipNone(c) == FALSE
SkipDead(c) == feedback /\ implErr[c]

\* implementing, one attempt: Propose, then Apply its operations.
ImplementCandidate ==
  /\ pc = "implement" /\ k <= made
  /\ k' = k + 1
  /\ \/ /\ SkipDead(k)
        /\ UNCHANGED <<tree, implErr, progress>>
     \/ /\ ~SkipDead(k) /\ Live
        /\ \E t \in {0, Round} : tree' = [tree EXCEPT ![k] = t]
        /\ progress' = TRUE
        /\ UNCHANGED implErr
     \/ /\ ~SkipDead(k)
        /\ implErr' = [implErr EXCEPT ![k] = TRUE]
        /\ \/ UNCHANGED tree      \* no proposal, or nothing applied
           \/ Live /\ tree' = [tree EXCEPT ![k] = Round]  \* partly applied
        /\ UNCHANGED progress
  /\ UNCHANGED <<pc, next, status, ctx, tracked, made, worktrees, kept,
                 verifyErr, report, judged, pending, winner, gateErr, feedback,
                 revisions, artifact, endVars, unwindVars>>

ImplementDone ==
  /\ pc = "implement" /\ k > made
  /\ IF progress THEN StepDone(Following[next]) ELSE Fail
  /\ UNCHANGED <<status, ctx, tracked, k, attemptVars, gateVars, endVars, unwindVars>>

\* verifying, one goroutine per implemented attempt, in any order: the checks
\* pass, the checks fail, they could not be run to the end, or one panicked.
Judge(c) ==
  /\ pc = "gate" /\ c \in pending
  /\ pending' = pending \ {c}
  /\ \/ /\ \E r \in {"pass", "fail"} : report' = [report EXCEPT ![c] = r]
        /\ verifyErr' = [verifyErr EXCEPT ![c] = FALSE]
     \/ /\ \E r \in {"none", "pass", "fail"} : report' = [report EXCEPT ![c] = r]
        /\ verifyErr' = [verifyErr EXCEPT ![c] = TRUE]
     \/ /\ "panic" \in Faults
        /\ verifyErr' = [verifyErr EXCEPT ![c] = TRUE]
        /\ UNCHANGED report
  /\ judged' = [judged EXCEPT ![c] = tree[c]]
  /\ UNCHANGED <<pc, next, status, ctx, tracked, k, made, worktrees, kept, tree,
                 implErr, progress, winner, gateErr, feedback, revisions,
                 artifact, endVars, unwindVars>>

\* verify returns the winner, or a representative and the reason to fail.
Choose ==
  /\ pc = "gate" /\ pending = {}
  /\ IF "verifier" \notin Wired
       THEN winner' = Representative /\ gateErr' = FALSE
     ELSE IF \E c \in Attempts : Passed(c)
       THEN winner' = SelectWinner /\ gateErr' = FALSE
       ELSE winner' = Representative /\ gateErr' = TRUE
  /\ pc' = "capture"
  /\ UNCHANGED <<next, status, ctx, tracked, k, attemptVars, pending, progress,
                 feedback, revisions, artifact, endVars, unwindVars>>

CaptureDiffOfPassing ==
  /\ pc = "capture"
  /\ artifact' = IF "artifacts" \in Wired /\ tree[winner] # 0 /\ ~gateErr
                   THEN [variant |-> winner, tree |-> tree[winner]] ELSE artifact
  /\ StepDone(Following[next])
  /\ UNCHANGED <<status, ctx, tracked, k, attemptVars, pending, progress, winner,
                 gateErr, feedback, revisions, endVars, unwindVars>>

\* captureDiff: save the winner's patch; a failure is only logged.
CaptureDiff ==
  /\ pc = "capture"
  /\ \/ /\ "artifacts" \in Wired /\ tree[winner] # 0
        /\ artifact' = [variant |-> winner, tree |-> tree[winner]]
     \/ /\ "artifacts" \notin Wired \/ tree[winner] = 0 \/ "diff" \in Faults
        /\ UNCHANGED artifact
     \/ /\ "artifacts" \in Wired /\ tree[winner] # 0 /\ "diff" \in Faults
        /\ artifact' = Torn
  /\ StepDone(Following[next])
  /\ UNCHANGED <<status, ctx, tracked, k, attemptVars, pending, progress, winner,
                 gateErr, feedback, revisions, endVars, unwindVars>>

-----------------------------------------------------------------------------
\* A second pass can change something, and there is one left.
CanRevise == "implementor" \in Wired /\ revisions < MaxRevisions

\* The gate could not be run at all: there is no check output to act on.
Unrunnable(c) == verifyErr[c] /\ report[c] = "none"

ReviseUncounted(hasNotes) ==
  /\ feedback' = hasNotes
  /\ gateErr' = FALSE
  /\ StepDone("waiting_for_revision")
  /\ UNCHANGED revisions

Revise(hasNotes) ==
  /\ revisions' = revisions + 1
  /\ feedback' = hasNotes
  /\ gateErr' = FALSE
  /\ StepDone("waiting_for_revision")

KeepRound == UNCHANGED <<revisions, feedback, gateErr>>

\* reviewing after a gate that nothing passed: revise once or fail.
ReviewRejectedGate ==
  /\ gateErr
  /\ IF Unrunnable(winner) \/ ~CanRevise
       THEN Fail /\ KeepRound
       ELSE Revise(TRUE)

\* reviewing after a gate that passed. Without a diff to show, or without a
\* reviewer, the gate alone decides.
ReviewPassedGate ==
  /\ ~gateErr
  /\ \/ /\ "reviewer" \notin Wired \/ ~Live \/ "diff" \in Faults
        /\ StepDone(Following[next]) /\ KeepRound
     \/ /\ "reviewer" \in Wired
        /\ \/ Fail /\ KeepRound                          \* error, or reject
           \/ Live /\ StepDone(Following[next]) /\ KeepRound  \* approve
           \/ /\ Live                                    \* request_changes
              /\ IF ~CanRevise
                   THEN Fail /\ KeepRound
                   ELSE \E hasNotes \in BOOLEAN :
                          /\ hasNotes \/ "empty_notes" \in Faults
                          /\ Revise(hasNotes)

Review ==
  /\ pc = "review"
  /\ ReviewRejectedGate \/ ReviewPassedGate
  /\ UNCHANGED <<status, ctx, tracked, k, attemptVars, pending, progress, winner,
                 artifact, endVars, unwindVars>>
-----------------------------------------------------------------------------
\* The first half of markFailed and markCancelled: move the job in memory and
\* publish its end. An illegal move publishes nothing and writes nothing.
End(s) ==
  IF CanTransition(status, s)
    THEN status' = s /\ ended' = Append(ended, s) /\ pc' = "persist"
    ELSE /\ pc' = IF unwound THEN "measure" ELSE "cleanup"
         /\ UNCHANGED <<status, ended>>

MarkFailed ==
  /\ pc = "failing"
  /\ End("failed")
  /\ k' = 1
  /\ UNCHANGED <<next, ctx, tracked, attemptVars, gateVars, stored, lost, unwindVars>>

MarkCancelled ==
  /\ pc = "cancelling"
  /\ End("cancelled")
  /\ k' = 1
  /\ UNCHANGED <<next, ctx, tracked, attemptVars, gateVars, stored, lost, unwindVars>>

PersistEndOnJobContext ==
  /\ pc = "persist"
  /\ stored' = IF Live THEN status ELSE stored
  /\ pc' = IF unwound THEN "measure" ELSE "cleanup"
  /\ UNCHANGED <<next, status, ctx, tracked, k, attemptVars, gateVars, ended,
                 lost, unwindVars>>

\* The second half: write the terminal status, on a context nobody cancels.
PersistEnd ==
  /\ pc = "persist"
  /\ \/ stored' = status /\ UNCHANGED lost
     \/ /\ "store_end" \in Faults
        /\ lost' = lost \cup {"store_end"}
        /\ UNCHANGED stored
  /\ pc' = IF unwound THEN "measure" ELSE "cleanup"
  /\ UNCHANGED <<next, status, ctx, tracked, k, attemptVars, gateVars, ended, unwindVars>>

\* A stage panics: the deferred calls run first, the recovery after them.
Panic ==
  /\ \/ "panic" \in Faults /\ pc \in {"plan", "implement", "capture", "review"}
     \/ "panic_create" \in Faults /\ pc = "create" /\ k <= N
  /\ panicking' = TRUE
  /\ pc' = "cleanup"
  /\ k' = 1
  /\ UNCHANGED <<next, status, ctx, tracked, attemptVars, gateVars, endVars,
                 unwound, counted, setup>>

\* The deferred cleanup, one attempt of cands at a time.
CleanupCandidate ==
  /\ pc = "cleanup" /\ k <= made
  /\ k' = k + 1
  /\ \/ worktrees' = worktrees \ {k} /\ UNCHANGED kept
     \/ "cleanup" \in Faults /\ kept' = kept \cup {k} /\ UNCHANGED worktrees
  /\ UNCHANGED <<pc, next, status, ctx, tracked, made, tree, implErr, verifyErr,
                 report, judged, gateVars, endVars, unwindVars>>

\* Canceller.Release, then the recovery of a panic if there is one.
Release ==
  /\ pc = "cleanup" /\ k > made
  /\ tracked' = FALSE
  /\ unwound' = TRUE
  /\ panicking' = FALSE
  /\ pc' = IF panicking THEN "failing" ELSE "measure"
  /\ UNCHANGED <<next, status, ctx, k, attemptVars, gateVars, endVars, counted, setup>>

\* What JobStarted's closure counts a run as: only two statuses have a name.
OutcomeOfStatus(s) == IF s \in {"completed", "cancelled"} THEN s ELSE "failed"

\* The call deferred first, and so made last: the run leaves the gauge and is
\* counted once, with the status the job then has in memory.
EndMetrics ==
  /\ pc = "measure"
  /\ counted' = Append(counted, OutcomeOfStatus(status))
  /\ pc' = "done"
  /\ UNCHANGED <<next, status, ctx, tracked, k, attemptVars, gateVars, endVars,
                 panicking, unwound, setup>>
-----------------------------------------------------------------------------
\* Canceller.Cancel on a tracked job: the user is told 202.
Cancel ==
  /\ tracked
  /\ tracked' = FALSE
  /\ ctx' = IF Live THEN "cancelled" ELSE ctx
  /\ UNCHANGED <<pc, next, status, k, attemptVars, gateVars, endVars, unwindVars>>

\* The job's deadline passes.
Expire ==
  /\ Live /\ pc \notin {"load", "done"}
  /\ ctx' = "expired"
  /\ UNCHANGED <<pc, next, status, tracked, k, attemptVars, gateVars, endVars, unwindVars>>

\* Process has returned; the run stays as it is.
Returned == pc = "done" /\ UNCHANGED vars

Run == \/ Load \/ StartStep \/ Advance
       \/ Plan \/ CreateCandidate \/ CreateDone
       \/ ImplementCandidate \/ ImplementDone
       \/ (\E c \in Attempts : Judge(c)) \/ Choose \/ CaptureDiff \/ Review
       \/ MarkFailed \/ MarkCancelled \/ PersistEnd
       \/ Panic \/ CleanupCandidate \/ Release \/ EndMetrics

Next == Run \/ Cancel \/ Expire \/ Returned

Spec == Init /\ [][Next]_vars

\* Every call a run makes returns: each is bounded by the job's deadline or by
\* one of its own. Nothing is assumed of the user.
FairSpec == Spec /\ WF_vars(Run)
-----------------------------------------------------------------------------
Patches == {NoPatch, Torn} \cup [variant : Attempts, tree : 1..(MaxRevisions + 1)]

PCs == {"load", "check", "advance", "plan", "create", "implement", "gate",
        "capture", "review", "failing", "cancelling", "persist", "cleanup", "measure",
        "done"}

\* The range of every variable of a run of Process.
TypeOK ==
  /\ pc \in PCs
  /\ next \in JobStatuses \ {"queued", "failed", "cancelled"}
  /\ status \in JobStatuses /\ stored \in JobStatuses
  /\ ctx \in {"live", "cancelled", "expired"}
  /\ tracked \in BOOLEAN
  /\ k \in 1..(N + 1) /\ made \in 0..N
  /\ worktrees \subseteq Attempts /\ kept \subseteq Attempts
  /\ tree \in [Attempts -> 0..(MaxRevisions + 1)]
  /\ implErr \in [Attempts -> BOOLEAN] /\ verifyErr \in [Attempts -> BOOLEAN]
  /\ report \in [Attempts -> {"none", "pass", "fail"}]
  /\ judged \in [Attempts -> 0..(MaxRevisions + 1)]
  /\ pending \subseteq Attempts /\ progress \in BOOLEAN
  /\ winner \in 0..N /\ gateErr \in BOOLEAN /\ feedback \in BOOLEAN
  /\ revisions \in 0..MaxRevisions
  /\ artifact \in Patches
  /\ ended \in Seq(Terminal)
  /\ lost \subseteq FaultKinds
  /\ panicking \in BOOLEAN /\ unwound \in BOOLEAN
  /\ counted \in Seq(Terminal) /\ setup \in Setups

\* A job completes only with an attempt that was implemented without error and
\* whose checks all passed on the tree as the last round left it: an attempt
\* that failed to apply, an older report or a revision after the gate never
\* carries a job to `completed` (processor.go verify, fanout.go passed).
CompletedIsVerified ==
  status = "completed" /\ {"workspaces", "verifier"} \subseteq Wired =>
    /\ winner # 0
    /\ ~implErr[winner] /\ ~verifyErr[winner]
    /\ report[winner] = "pass"
    /\ judged[winner] = tree[winner]

\* Where the last gate named an attempt that changed something, the stored
\* patch is that attempt's tree exactly as it was judged, for a job that
\* completed and for a job the gate failed: it is neither another attempt's
\* nor an earlier round's (captureDiff; assumes no "diff" fault).
PatchIsWinners ==
  /\ "diff" \notin Faults
  /\ status = "completed" \/ (status = "failed" /\ gateErr /\ next = "reviewing")
  /\ winner # 0
  /\ tree[winner] # 0 /\ {"workspaces", "artifacts"} \subseteq Wired
  => artifact = [variant |-> winner, tree |-> tree[winner]]

\* However a run ends (success, error, panic, cancellation, deadline, refused
\* write), when Process has returned the only checkouts of cands left on disk
\* are those whose Cleanup reported an error (assumes that Workspaces.Create
\* neither panics nor is killed half way).
WorktreesRemoved ==
  pc = "done" /\ Faults \cap {"panic_create", "killed_create"} = {} =>
    worktrees \subseteq kept

\* Unless the store refused the terminal write itself, a job that Process has
\* returned from is stored in a terminal status, and exactly that end, once,
\* was published and counted: a client following events, one reading the record
\* and one reading the metrics agree.
\* And `cancelled` is reserved for a job somebody asked to stop: a deadline or a
\* failure that is noticed later never ends a job in it (endInterrupted).
EndIsStoredAndTold ==
  /\ "cancelled" \in {status, stored} => ctx = "cancelled"
  /\ ended # <<>> => ended = <<status>>
  /\ pc = "done" /\ lost \cap {"store_complete", "store_end"} = {} =>
       stored \in Terminal /\ ended = <<stored>> /\ counted = <<stored>>

\* The status a job has in the store only ever takes legal steps, whichever
\* writes the store refused in between; so a terminal status is final.
StoredStatusIsLegal == [][stored' # stored => CanTransition(stored, stored')]_vars

\* An attempt that failed to produce a change is never written to again: a
\* revision leaves it alone (implement; assumes that a reviewer who asks for
\* changes says which).
DeadAttemptsStayDead ==
  [][\A c \in Attempts : implErr[c] /\ "empty_notes" \notin Faults =>
       tree'[c] = tree[c]]_vars

\* Where Service has the run. A stage is one place, the end of a job is one step
\* with its write, and a context that dies between a checkpoint and the write
\* behind it is noticed at the next one.
placeOf ==
  CASE pc = "load"                                       -> "load"
    [] pc \in {"check", "advance", "plan", "create", "implement", "gate", "capture",
               "review"}                                 -> "run"
    [] pc \in {"failing", "persist"} /\ unwound          -> "recovered"
    [] pc = "persist" /\ ~unwound                        ->
         IF status = "cancelled" THEN "cancelling" ELSE "failing"
    [] pc = "failing" /\ ~unwound                        -> "failing"
    [] pc = "cancelling"                                 -> "cancelling"
    [] pc = "cleanup"                                    ->
         IF panicking THEN "unwind" ELSE "cleanup"
    [] pc = "measure"                                    -> "release"
    [] OTHER                                             -> "off"
contextOf   == IF pc = "advance" THEN "live" ELSE ctx
revisionsOf == IF next = "waiting_for_revision" THEN revisions - 1 ELSE revisions
mayFailOf ==
  {f \in {"store", "cleanup", "git"} :
     CASE f = "store"   -> {"store_advance", "store_complete", "store_end"} \cap Faults # {}
       [] f = "cleanup" -> {"cleanup", "panic_create", "killed_create"} \cap Faults # {}
       [] f = "git"     -> "killed_create" \in Faults}

\* What Service makes of a run is what a run does, whatever its collaborators do:
\* its record moves along, its checkouts come and go at their places, and it does
\* not return before its end is stored, unless the store refused that.
R == INSTANCE JobRun WITH Jobs <- {1},
       at <- <<placeOf>>, ctx <- <<contextOf>>, revs <- <<revisionsOf>>,
       record <- <<stored>>, checkouts <- {j \in {1} : worktrees # {}},
       mayFail <- mayFailOf, alive <- TRUE
ImplementsRun == R!Runs

\* Every run of Process returns, revision or not, whatever fails.
EventuallyReturns == <>(pc = "done")
-----------------------------------------------------------------------------
(* What comments and documents of the repository say and the code does not do. *)

\* A job that is cancelled while a stage works on it ends `cancelled`.
CancelIsHonoured ==
  ctx = "cancelled" /\ pc \in {"plan", "create", "implement"} ~> stored = "cancelled"

\* A refused status write ends the job: only the loss of the terminal write
\* that markFailed itself makes can leave it in a non-terminal status.
NoJobIsAbandoned == pc = "done" /\ "store_end" \notin lost => stored \in Terminal

\* The patch a completed job returns is the patch of the attempt that won.
PatchIsCurrent ==
  status = "completed" /\ artifact # NoPatch =>
    artifact = [variant |-> winner, tree |-> tree[winner]]
=============================================================================
