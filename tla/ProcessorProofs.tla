--------------------------- MODULE ProcessorProofs ---------------------------
(***************************************************************************)
(* Proofs about Processor, for any number of attempts and of revisions,    *)
(* any collaborators and every fault that may come with them: what a run   *)
(* completes with is what was verified, its end is stored and told once,   *)
(* and its checkouts are gone.  All of it follows from IInv, which says    *)
(* what holds at each place of Process.                                    *)
(***************************************************************************)
EXTENDS Processor, SequenceTheorems, TLAPS

-----------------------------------------------------------------------------
(* The inductive invariant, a part for each promise. *)

\* The stage that each place inside a stage belongs to.
Stage == [plan |-> "planning", create |-> "preparing_workspace",
          implement |-> "implementing", gate |-> "verifying",
          capture |-> "verifying", review |-> "reviewing"]

Stages == {"plan", "create", "implement", "gate", "capture", "review"}

\* The two halves of TypeOK: what is true or false, and everything else.
Flags ==
  /\ tracked \in BOOLEAN /\ progress \in BOOLEAN
  /\ gateErr \in BOOLEAN /\ feedback \in BOOLEAN
  /\ panicking \in BOOLEAN /\ unwound \in BOOLEAN
  /\ implErr \in [Attempts -> BOOLEAN] /\ verifyErr \in [Attempts -> BOOLEAN]

Ranges ==
  /\ pc \in PCs
  /\ next \in JobStatuses \ {"queued", "failed", "cancelled"}
  /\ status \in JobStatuses /\ stored \in JobStatuses
  /\ ctx \in {"live", "cancelled", "expired"}
  /\ k \in 1..(N + 1) /\ made \in 0..N
  /\ worktrees \subseteq Attempts /\ kept \subseteq Attempts
  /\ tree \in [Attempts -> 0..(MaxRevisions + 1)]
  /\ report \in [Attempts -> {"none", "pass", "fail"}]
  /\ judged \in [Attempts -> 0..(MaxRevisions + 1)]
  /\ pending \subseteq Attempts /\ winner \in 0..N
  /\ revisions \in 0..MaxRevisions
  /\ artifact \in Patches
  /\ ended \in Seq(Terminal) /\ counted \in Seq(Terminal)
  /\ lost \subseteq FaultKinds
  /\ setup \in Setups

\* TypeOK is its two halves.
LEMMA TypesInTwo == TypeOK <=> Flags /\ Ranges
BY DEF TypeOK, Flags, Ranges

\* A run is on the stage whose status it has, and `completed` is where it ends.
OnItsStage ==
  /\ pc \in Stages => next = Stage[pc] /\ status = next
  /\ pc = "load" => next = "planning"

\* Until it starts to end, a run is stored as what it is, and that is not an end;
\* and a deferred call knows what it is made after.
OpenUntilItEnds ==
  /\ pc \in {"load", "check", "advance"} \cup Stages =>
       stored = status /\ status \notin Terminal
  /\ pc \in {"failing", "cancelling", "persist"} => stored \notin Terminal
  /\ panicking => pc = "cleanup" /\ ~unwound /\ stored \notin Terminal
                    /\ status \notin Terminal
  /\ pc = "persist" => status \in {"failed", "cancelled"} /\ k = 1
  /\ unwound => pc \in {"failing", "persist", "measure", "done"}
  /\ pc \in {"measure", "done"} => unwound
  /\ pc = "cancelling" => ctx = "cancelled"

\* An end is told when the job is moved to it, and stored unless it is refused.
EndIsToldOnce ==
  /\ status \notin Terminal => ended = <<>>
  /\ ended \in {<<>>, <<status>>}
  /\ pc \in {"failing", "cancelling"} /\ status \in Terminal => "store_complete" \in lost
  /\ pc = "persist" => ended = <<status>>
  /\ /\ pc \in {"measure", "done"} \/ (pc = "cleanup" /\ ~panicking)
     /\ lost \cap {"store_complete", "store_end"} = {}
     => stored = status /\ status \in Terminal /\ ended = <<status>>
  /\ counted = IF pc = "done" THEN <<OutcomeOfStatus(status)>> ELSE <<>>
  /\ "cancelled" \in {status, stored} => ctx = "cancelled"

\* Behind preparing_workspace there is an attempt for each checkout, if any.
AttemptsAreMade ==
  /\ next \in {"planning", "preparing_workspace"} /\ pc \in {"load", "check", "advance", "plan", "create"}
       => made = 0
  /\ "workspaces" \in Wired /\ next \notin {"planning", "preparing_workspace"} => made = N
  /\ pc \in {"implement", "gate", "capture", "review"} => made > 0
  /\ pc = "capture" => winner \in Attempts

\* A checkout on disk is one that cands has, or one that is being made.
CheckoutsAreKnown ==
  Faults \cap {"panic_create", "killed_create"} = {} =>
    /\ pc = "create" => worktrees \subseteq 1..(k - 1)
    /\ pc \in {"load", "check", "advance", "plan"}
         /\ next \in {"planning", "preparing_workspace"} => worktrees = {}
    /\ pc # "create" => worktrees \subseteq 1..made
    /\ pc = "cleanup" => \A c \in worktrees : c \in kept \/ c >= k
    /\ unwound => worktrees \subseteq kept

\* What the gate has said of an attempt is about the tree the attempt has.
JudgedAsItIs(c) == judged[c] = tree[c] /\ (verifyErr[c] \/ report[c] # "none")

GateIsAboutTheTree ==
  /\ pc = "gate" /\ "verifier" \in Wired =>
       \A c \in Attempts : Implemented(c) /\ c \notin pending => JudgedAsItIs(c)
  /\ {"workspaces", "verifier"} \subseteq Wired /\ ~gateErr
       /\ (pc = "capture" \/ next \in {"reviewing", "completed"}) =>
          /\ winner \in Attempts
          /\ ~implErr[winner] /\ ~verifyErr[winner]
          /\ report[winner] = "pass" /\ judged[winner] = tree[winner]
  /\ (pc = "advance" /\ next = "completed") \/ status = "completed" =>
       next = "completed" /\ ~gateErr

PatchIsOfTheWinner ==
  "diff" \notin Faults /\ {"workspaces", "artifacts"} \subseteq Wired
  /\ next \in {"reviewing", "completed"} =>
       /\ winner \in Attempts
       /\ tree[winner] # 0 => artifact = [variant |-> winner, tree |-> tree[winner]]

\* An attempt can only be dead in the first round once its turn is past.
DeadAreBehind ==
  "empty_notes" \notin Faults /\ ~feedback =>
    /\ next # "waiting_for_revision"
    /\ (\/ next \in {"planning", "preparing_workspace"}
        \/ next = "implementing" /\ pc \in {"check", "advance"})
       => \A c \in Attempts : ~implErr[c]
    /\ pc = "implement" => \A c \in Attempts : c >= k => ~implErr[c]

IInv == /\ TypeOK /\ OnItsStage /\ OpenUntilItEnds /\ EndIsToldOnce /\ AttemptsAreMade
        /\ CheckoutsAreKnown /\ GateIsAboutTheTree /\ PatchIsOfTheWinner /\ DeadAreBehind

\* The three statuses that have no way out.
LEMMA TerminalIs == Terminal = {"completed", "failed", "cancelled"}
<1>1. ASSUME NEW s \in {"completed", "failed", "cancelled"} PROVE legalTransitions[s] = {}
  BY <1>1 DEF legalTransitions, JobStatuses
<1>2. ASSUME NEW s \in JobStatuses \ {"completed", "failed", "cancelled"}
      PROVE  "failed" \in legalTransitions[s]
  BY <1>2 DEF legalTransitions, JobStatuses
<1> QED
  BY <1>1, <1>2 DEF Terminal, JobStatuses

\* The status that follows each, written out (Following).
LEMMA FollowingIs ==
  /\ Following["planning"] = "preparing_workspace"
  /\ Following["preparing_workspace"] = "implementing"
  /\ Following["implementing"] = "verifying"
  /\ Following["verifying"] = "reviewing"
  /\ Following["reviewing"] = "completed"
  /\ Following["waiting_for_revision"] = "implementing"
BY DEF Following

\* The stage of each place (so that the proofs need not evaluate the record).
LEMMA StageIs ==
  /\ Stage["plan"] = "planning" /\ Stage["create"] = "preparing_workspace"
  /\ Stage["implement"] = "implementing" /\ Stage["gate"] = "verifying"
  /\ Stage["capture"] = "verifying" /\ Stage["review"] = "reviewing"
BY DEF Stage

\* From a status with a way out a job can be moved to its end, and from one without it
\* cannot be moved (legalTransitions).
LEMMA EveryoneCanEnd ==
  ASSUME NEW s \in JobStatuses
  PROVE  /\ s \notin Terminal => CanTransition(s, "failed") /\ CanTransition(s, "cancelled")
         /\ \A t : CanTransition(s, t) => s \notin Terminal /\ t \in JobStatuses \ {"queued"}
<1>1. s \notin Terminal => CanTransition(s, "failed") /\ CanTransition(s, "cancelled")
  BY TerminalIs DEF CanTransition, legalTransitions, JobStatuses
<1>2. ASSUME NEW t, CanTransition(s, t)
      PROVE  s \notin Terminal /\ t \in JobStatuses \ {"queued"}
  BY <1>2, TerminalIs DEF CanTransition, legalTransitions, JobStatuses
<1> QED
  BY <1>1, <1>2

\* The first of several attempts (N is at most 8, variantCount).
LEMMA FirstExists ==
  ASSUME NEW S \in SUBSET Attempts, S # {}
  PROVE  \E c \in S : \A d \in S : c <= d
<1>1. S \subseteq 1..8
  BY ProcessorAssumption DEF Attempts
<1>2. CASE 1 \in S
  BY <1>1, <1>2
<1>3. CASE 2 \in S /\ S \cap {1} = {}
  BY <1>1, <1>3
<1>4. CASE 3 \in S /\ S \cap {1, 2} = {}
  BY <1>1, <1>4
<1>5. CASE 4 \in S /\ S \cap {1, 2, 3} = {}
  BY <1>1, <1>5
<1>6. CASE 5 \in S /\ S \cap {1, 2, 3, 4} = {}
  BY <1>1, <1>6
<1>7. CASE 6 \in S /\ S \cap {1, 2, 3, 4, 5} = {}
  BY <1>1, <1>7
<1>8. CASE 7 \in S /\ S \cap {1, 2, 3, 4, 5, 6} = {}
  BY <1>1, <1>8
<1>9. CASE 8 \in S /\ S \cap {1, 2, 3, 4, 5, 6, 7} = {}
  BY <1>1, <1>9
<1>10. \E c \in 1..8 : c \in S
  BY <1>1
<1> QED
  BY <1>1, <1>2, <1>3, <1>4, <1>5, <1>6, <1>7, <1>8, <1>9, <1>10

\* Who stands for the job is an attempt, and one that passed if any did (fanout.go).
LEMMA RepresentativeIsAnAttempt == Representative \in Attempts
<1>1. 1 \in Attempts
  BY ProcessorAssumption DEF Attempts
<1>2. CASE \E c \in Attempts : Implemented(c)
  <2> DEFINE S == {d \in Attempts : Implemented(d)}
             First(c) == c \in Attempts /\ Implemented(c)
                           /\ \A d \in Attempts : Implemented(d) => c <= d
  <2>1. S \in SUBSET Attempts /\ S # {}
    BY <1>2, Zenon
  <2>2. PICK c \in S : \A d \in S : c <= d
    BY <2>1, FirstExists, Zenon
  <2>3. First(c)
    BY <2>2, Zenon
  <2>4. (CHOOSE e \in Attempts : Implemented(e) /\ \A d \in Attempts : Implemented(d) => e <= d)
          \in Attempts
    BY <2>3, Zenon
  <2> QED
    BY <1>2, <2>4, Zenon DEF Representative
<1>3. CASE ~\E c \in Attempts : Implemented(c)
  BY <1>1, <1>3, Zenon DEF Representative
<1> QED
  BY <1>2, <1>3, Zenon

\* Where an attempt passed, the one selected did (SelectWinner).
LEMMA WinnerPassed ==
  ASSUME \E c \in Attempts : Passed(c)
  PROVE  SelectWinner \in Attempts /\ Passed(SelectWinner)
<1> DEFINE S == {d \in Attempts : Passed(d)}
           First(c) == Passed(c) /\ \A d \in Attempts : Passed(d) => c <= d
<1>1. S \in SUBSET Attempts /\ S # {}
  BY Zenon
<1>2. PICK c \in S : \A d \in S : c <= d
  BY <1>1, FirstExists, Zenon
<1>3. c \in Attempts /\ First(c)
  BY <1>2, Zenon
<1>4. /\ (CHOOSE e \in Attempts : First(e)) \in Attempts
      /\ First(CHOOSE e \in Attempts : First(e))
  <2> HIDE DEF First
  <2> QED
    BY <1>3, Zenon
<1> QED
  BY <1>4, Zenon DEF SelectWinner

\* The steps the loop of Process makes, and the one that follows each but the last.
Steps == JobStatuses \ {"queued", "failed", "cancelled"}

\* The status a run moves to next is one it can advance to.
LEMMA NextIsAStep ==
  ASSUME Ranges, OnItsStage
  PROVE  /\ \A s \in Steps \ {"completed"} : Following[s] \in Steps
         /\ pc \in Stages => next \in Steps \ {"completed"} /\ Following[next] \in Steps
<1>1. \A s \in Steps \ {"completed"} : Following[s] \in Steps
  BY FollowingIs DEF Steps, JobStatuses
<1>2. pc \in Stages => next \in Steps \ {"completed"}
  BY StageIs DEF OnItsStage, Stages, Steps, JobStatuses
<1> QED
  BY <1>1, <1>2

\* Where the work of each status begins (Work).
LEMMA WorkIs ==
  ASSUME NEW s
  PROVE  /\ Work(s) \in Stages \cup {"check", "cleanup"}
         /\ Work(s) = "check" => s # "completed"
         /\ Work(s) = "cleanup" <=> s = "completed"
         /\ Work(s) = "plan" => s = "planning"
         /\ Work(s) = "create" => s = "preparing_workspace"
         /\ Work(s) = "implement" => s = "implementing" /\ made > 0
         /\ Work(s) = "gate" => s = "verifying" /\ made > 0
         /\ Work(s) = "review" => s = "reviewing" /\ made > 0
         /\ Work(s) # "capture"
BY DEF Work, Stages

-----------------------------------------------------------------------------
\* Every step keeps the flags true or false.
LEMMA FlagsStep == ASSUME Flags, [Next]_vars PROVE Flags'
<1> USE DEF Flags, attemptVars, gateVars, unwindVars
<1>1. CASE Load \/ Cancel \/ Expire
  BY <1>1, Zenon DEF Load, Cancel, Expire
<1>2. CASE StartStep \/ Plan \/ CreateCandidate \/ CreateDone
  BY <1>2, Zenon DEF StartStep, Plan, CreateCandidate, CreateDone
<1>3. CASE Advance
  BY <1>3, Zenon DEF Advance
<1>4. CASE ImplementCandidate
  BY <1>4, Zenon DEF ImplementCandidate
<1>5. CASE ImplementDone \/ CaptureDiff
  BY <1>5, Zenon DEF ImplementDone, CaptureDiff
<1>6. ASSUME NEW c \in Attempts, Judge(c) PROVE Flags'
  BY <1>6, Zenon DEF Judge
<1>7. CASE Choose
  BY <1>7, Zenon DEF Choose
<1>8. CASE Review
  BY <1>8, Zenon DEF Review, ReviewRejectedGate, ReviewPassedGate, Revise, KeepRound
<1>9. CASE MarkFailed \/ MarkCancelled \/ PersistEnd
  BY <1>9, Zenon DEF MarkFailed, MarkCancelled, PersistEnd
<1>10. CASE Panic \/ CleanupCandidate \/ Release \/ EndMetrics
  BY <1>10, Zenon DEF Panic, CleanupCandidate, Release, EndMetrics
<1>11. CASE UNCHANGED vars
  BY <1>11, Zenon DEF vars
<1> QED
  BY <1>1, <1>2, <1>3, <1>4, <1>5, <1>6, <1>7, <1>8, <1>9, <1>10, <1>11
     DEF Next, Run, Returned

\* Every step keeps every variable in its range.
LEMMA RangesStep == ASSUME TypeOK, OnItsStage, AttemptsAreMade, [Next]_vars PROVE Ranges'
<1>0. Ranges
  BY TypesInTwo
<1> USE DEF Ranges, attemptVars, gateVars, endVars, unwindVars, PCs
<1>1. CASE Load
  BY <1>0, <1>1 DEF Load
<1>2. CASE StartStep
  BY <1>0, <1>2 DEF StartStep, EndInterrupted
<1>3. CASE Advance
  <2>1. status' \in JobStatuses /\ stored' \in JobStatuses /\ lost' \subseteq FaultKinds
    BY <1>0, <1>3 DEF Advance, AdvanceFault, FaultKinds
  <2>2. pc' \in PCs /\ (pc' = "check" => next # "completed")
    BY <1>0, <1>3, WorkIs DEF Advance, AfterRefusal, Stages
  <2>3. next' \in Steps
    BY <1>0, <1>3, <2>2, NextIsAStep DEF Advance, Steps
  <2>4. k' \in 1..(N + 1) /\ pending' \subseteq Attempts
    BY <1>0, <1>3, ProcessorAssumption DEF Advance
  <2>5. ended' \in Seq(Terminal)
    <3>1. ended' = ended \/ ended' = Append(ended, "completed")
      BY <1>3 DEF Advance
    <3>2. ended \in Seq(Terminal) /\ "completed" \in Terminal
      BY <1>0, TerminalIs
    <3> QED
      BY <3>1, <3>2
  <2>6. UNCHANGED <<ctx, attemptVars, winner, revisions, artifact, counted, setup>>
    BY <1>3 DEF Advance
  <2> QED
    BY <1>0, <2>1, <2>2, <2>3, <2>4, <2>5, <2>6 DEF Steps
<1>4. CASE Plan
  <2>1. pc' \in PCs /\ next' \in Steps
    BY <1>0, <1>4, NextIsAStep DEF Plan, StepDone, Fail, Stages, Steps
  <2>2. UNCHANGED <<status, ctx, k, attemptVars, gateVars, endVars, counted, setup>>
    BY <1>4 DEF Plan
  <2> QED
    BY <1>0, <2>1, <2>2 DEF Steps
<1>5. CASE CreateCandidate
  <2>1. pc' \in PCs /\ next' = next
    BY <1>0, <1>5 DEF CreateCandidate, Fail
  <2>2. k \in Attempts /\ k' \in 1..(N + 1) /\ made' \in 0..N
    <3>1. k \in Attempts
      BY <1>0, <1>5, ProcessorAssumption DEF CreateCandidate, Attempts
    <3>2. k' \in {k, k + 1} /\ made' \in {made, k - 1}
      BY <1>5 DEF CreateCandidate, PartialCands
    <3>3. k \in 1..N /\ N \in Nat /\ made \in 0..N
      BY <1>0, <3>1, ProcessorAssumption DEF Attempts
    <3> QED
      BY <3>1, <3>2, <3>3
  <2>4. worktrees' \subseteq Attempts
    BY <1>0, <1>5, <2>2 DEF CreateCandidate
  <2>3. UNCHANGED <<status, ctx, kept, tree, report, judged, gateVars, endVars, counted, setup>>
    BY <1>5 DEF CreateCandidate
  <2> QED
    BY <1>0, <2>1, <2>2, <2>3, <2>4
<1>6. CASE CreateDone
  <2>1. pc' \in PCs /\ next' \in Steps /\ made' \in 0..N
    BY <1>0, <1>6, NextIsAStep, ProcessorAssumption DEF CreateDone, StepDone, Stages
  <2>2. UNCHANGED <<status, ctx, k, worktrees, kept, tree, report, judged, gateVars, endVars,
                    counted, setup>>
    BY <1>6 DEF CreateDone
  <2> QED
    BY <1>0, <2>1, <2>2 DEF Steps
<1>7. CASE ImplementCandidate
  <2>1. k' \in 1..(N + 1)
    BY <1>0, <1>7, ProcessorAssumption DEF ImplementCandidate
  <2>2. Round \in 0..(MaxRevisions + 1)
    BY <1>0, ProcessorAssumption DEF Round
  <2>3. tree' \in [Attempts -> 0..(MaxRevisions + 1)]
    BY <1>0, <1>7, <2>2, ProcessorAssumption DEF ImplementCandidate
  <2>4. UNCHANGED <<pc, next, status, ctx, made, worktrees, kept, report, judged, pending,
                    winner, revisions, artifact, endVars, counted, setup>>
    BY <1>7 DEF ImplementCandidate
  <2> QED
    BY <1>0, <2>1, <2>3, <2>4
<1>8. CASE ImplementDone
  <2>1. pc' \in PCs /\ next' \in Steps
    BY <1>0, <1>8, NextIsAStep DEF ImplementDone, StepDone, Fail, Stages, Steps
  <2>2. UNCHANGED <<status, ctx, k, attemptVars, gateVars, endVars, counted, setup>>
    BY <1>8 DEF ImplementDone
  <2> QED
    BY <1>0, <2>1, <2>2 DEF Steps
<1>9. ASSUME NEW c \in Attempts, Judge(c) PROVE Ranges'
  BY <1>0, <1>9 DEF Judge
<1>10. CASE Choose
  <2>1. winner' \in Attempts
    BY <1>10, RepresentativeIsAnAttempt, WinnerPassed DEF Choose
  <2>2. /\ pc' = "capture"
        /\ UNCHANGED <<next, status, ctx, k, attemptVars, pending, revisions, artifact, endVars,
                       counted, setup>>
    BY <1>10 DEF Choose
  <2>3. winner' \in 0..N
    BY <2>1, ProcessorAssumption DEF Attempts
  <2> QED
    BY <1>0, <2>2, <2>3
<1>11. CASE CaptureDiff
  <2>1. pc' \in PCs /\ next' \in Steps
    BY <1>0, <1>11, NextIsAStep DEF CaptureDiff, StepDone, Stages
  <2>2. artifact' \in Patches
    <3>0. winner \in Attempts
      BY <1>11, StageIs DEF CaptureDiff, AttemptsAreMade
    <3>1. CASE artifact' \in {artifact, Torn}
      BY <1>0, <3>1 DEF Patches
    <3>2. CASE tree[winner] # 0 /\ artifact' = [variant |-> winner, tree |-> tree[winner]]
      BY <1>0, <3>0, <3>2 DEF Patches
    <3> QED
      BY <1>11, <3>1, <3>2 DEF CaptureDiff
  <2>3. UNCHANGED <<status, ctx, k, attemptVars, pending, winner, revisions, endVars,
                    counted, setup>>
    BY <1>11 DEF CaptureDiff
  <2> QED
    BY <1>0, <2>1, <2>2, <2>3 DEF Steps
<1>12. CASE Review
  <2>1. pc' \in PCs /\ next' \in Steps
    BY <1>0, <1>12, NextIsAStep
       DEF Review, StepDone, Fail, JobStatuses, Stages, Steps, ReviewRejectedGate,
           ReviewPassedGate, Revise
  <2>2. revisions' \in 0..MaxRevisions
    BY <1>0, <1>12, ProcessorAssumption
       DEF Review, ReviewRejectedGate, ReviewPassedGate, Revise, KeepRound, CanRevise
  <2>3. UNCHANGED <<status, ctx, k, attemptVars, pending, winner, artifact, endVars,
                    counted, setup>>
    BY <1>12 DEF Review
  <2> QED
    BY <1>0, <2>1, <2>2, <2>3 DEF Steps
<1>13. ASSUME NEW s \in {"failed", "cancelled"}, End(s), k' = 1,
              UNCHANGED <<next, ctx, attemptVars, gateVars, stored, lost, counted, setup>>
       PROVE  Ranges'
  <2>0. s \in JobStatuses /\ s \in Terminal
    BY TerminalIs DEF JobStatuses
  <2>1. pc' \in PCs /\ status' \in JobStatuses /\ ended' \in {ended, Append(ended, s)}
    BY <1>0, <1>13, <2>0 DEF End
  <2>3. ended \in Seq(Terminal)
    BY <1>0
  <2>4. ended' \in Seq(Terminal)
    BY <2>0, <2>1, <2>3
  <2>2. k' \in 1..(N + 1)
    BY <1>13, ProcessorAssumption
  <2> QED
    BY <1>0, <1>13, <2>1, <2>2, <2>4
<1>14. CASE MarkFailed \/ MarkCancelled
  BY <1>13, <1>14 DEF MarkFailed, MarkCancelled
<1>15. CASE PersistEnd
  BY <1>0, <1>15 DEF PersistEnd, FaultKinds
<1>16. CASE Panic
  <2>1. pc' \in PCs /\ k' \in 1..(N + 1)
    BY <1>16, ProcessorAssumption DEF Panic
  <2>2. UNCHANGED <<next, status, ctx, attemptVars, gateVars, endVars, counted, setup>>
    BY <1>16 DEF Panic
  <2> QED
    BY <1>0, <2>1, <2>2
<1>17. CASE CleanupCandidate
  <2>1. k \in Attempts /\ k' \in 1..(N + 1)
    BY <1>0, <1>17, ProcessorAssumption DEF CleanupCandidate, Attempts
  <2>3. worktrees' \subseteq Attempts /\ kept' \subseteq Attempts
    BY <1>0, <1>17, <2>1 DEF CleanupCandidate
  <2>2. UNCHANGED <<pc, next, status, ctx, made, tree, report, judged, gateVars, endVars,
                    counted, setup>>
    BY <1>17 DEF CleanupCandidate
  <2> QED
    BY <1>0, <2>1, <2>2, <2>3
<1>18. CASE Release
  BY <1>0, <1>18 DEF Release
<1>19. CASE EndMetrics
  <2>1. counted' \in Seq(Terminal)
    BY <1>0, <1>19, TerminalIs DEF EndMetrics, OutcomeOfStatus
  <2>2. pc' \in PCs
    BY <1>19 DEF EndMetrics
  <2>3. UNCHANGED <<next, status, ctx, k, attemptVars, gateVars, endVars, setup>>
    BY <1>19 DEF EndMetrics
  <2> QED
    BY <1>0, <2>1, <2>2, <2>3
<1>20. CASE Cancel \/ Expire
  BY <1>0, <1>20 DEF Cancel, Expire, Live
<1>21. CASE UNCHANGED vars
  BY <1>0, <1>21 DEF vars
<1> QED
  BY <1>1, <1>2, <1>3, <1>4, <1>5, <1>6, <1>7, <1>8, <1>9, <1>10, <1>11, <1>12, <1>14,
     <1>15, <1>16, <1>17, <1>18, <1>19, <1>20, <1>21
     DEF Next, Run, Returned

-----------------------------------------------------------------------------
(* Each part of the invariant is kept by every step. *)

\* No step takes a run from its stage without its status.
LEMMA OnItsStageStep == ASSUME Ranges, OnItsStage, [Next]_vars PROVE OnItsStage'
<1> USE DEF OnItsStage, Stages
<1>1. CASE pc' \notin Stages \cup {"load"}
  BY <1>1
<1>2. CASE UNCHANGED <<pc, next, status>>
  BY <1>2
<1>3. CASE Advance
  <2>1. CASE pc' \notin Stages \cup {"load"}
    BY <2>1
  <2>2. CASE pc' = Work(next) /\ status' = next /\ pc' # "check"
    BY <1>3, <2>2, WorkIs, StageIs DEF Advance
  <2> QED
    BY <1>3, <2>1, <2>2, WorkIs DEF Advance, AfterRefusal
<1>4. CASE Choose
  BY <1>4, StageIs DEF Choose
<1>5. CASE Load \/ StartStep \/ Plan \/ CreateCandidate \/ CreateDone
  BY <1>1, <1>2, <1>5 DEF Load, StartStep, EndInterrupted, Plan, CreateCandidate, CreateDone,
     StepDone, Fail
<1>6. CASE ImplementCandidate \/ ImplementDone \/ (\E c \in Attempts : Judge(c)) \/ CaptureDiff
  BY <1>1, <1>2, <1>6 DEF ImplementCandidate, ImplementDone, Judge, CaptureDiff, StepDone, Fail
<1>7. CASE Review
  BY <1>1, <1>7 DEF Review, ReviewRejectedGate, ReviewPassedGate, Revise, StepDone, Fail
<1>8. CASE MarkFailed \/ MarkCancelled \/ PersistEnd
  BY <1>1, <1>8 DEF MarkFailed, MarkCancelled, End, PersistEnd
<1>9. CASE Panic \/ CleanupCandidate \/ Release \/ EndMetrics
  BY <1>1, <1>2, <1>9 DEF Panic, CleanupCandidate, Release, EndMetrics
<1>10. CASE Cancel \/ Expire \/ UNCHANGED vars
  BY <1>2, <1>10 DEF Cancel, Expire, vars
<1> QED
  BY <1>3, <1>4, <1>5, <1>6, <1>7, <1>8, <1>9, <1>10 DEF Next, Run, Returned

\* Nothing is stored as an end before the run ends.
LEMMA OpenUntilItEndsStep ==
  ASSUME Ranges, OnItsStage, OpenUntilItEnds, [Next]_vars PROVE OpenUntilItEnds'
<1> USE DEF OpenUntilItEnds, Stages, endVars
<1>1. CASE Load \/ StartStep
  BY <1>1 DEF Load, StartStep, EndInterrupted, Live, Ranges, unwindVars
<1>2. CASE Advance
  <2>1. status \in JobStatuses /\ status \notin Terminal
    BY <1>2 DEF Advance, Ranges
  <2>2. CASE ~CanTransition(status, next)
    BY <1>2, <2>2 DEF Advance, unwindVars
  <2>3. CASE stored' = next /\ status' = next /\ pc' = Work(next)
    <3>1. pc' \in {"check", "advance"} \cup Stages => next \notin Terminal
      BY <2>3, WorkIs, TerminalIs DEF Ranges
    <3> QED
      BY <1>2, <2>1, <2>3, <3>1, WorkIs DEF Advance, unwindVars
  <2>4. CASE pc' = "failing" /\ UNCHANGED stored
    BY <1>2, <2>1, <2>4 DEF Advance, unwindVars
  <2> QED
    BY <1>2, <2>2, <2>3, <2>4 DEF Advance, AfterRefusal
<1>3. CASE Plan \/ CreateCandidate \/ CreateDone
  BY <1>3 DEF Plan, CreateCandidate, CreateDone, StepDone, Fail, unwindVars
<1>4. CASE ImplementCandidate \/ ImplementDone \/ (\E c \in Attempts : Judge(c))
  BY <1>4 DEF ImplementCandidate, ImplementDone, Judge, StepDone, Fail, unwindVars
<1>5. CASE Choose \/ CaptureDiff
  BY <1>5 DEF Choose, CaptureDiff, StepDone, Fail, unwindVars
<1>6. CASE Review
  BY <1>6 DEF Review, ReviewRejectedGate, ReviewPassedGate, Revise, StepDone, Fail, unwindVars
<1>7. CASE MarkFailed \/ MarkCancelled
  BY <1>7 DEF MarkFailed, MarkCancelled, End, unwindVars
<1>8. CASE PersistEnd
  BY <1>8 DEF PersistEnd, unwindVars
<1>9. CASE Panic
  BY <1>9 DEF Panic
<1>10. CASE CleanupCandidate \/ Release \/ EndMetrics
  BY <1>10 DEF CleanupCandidate, Release, EndMetrics, unwindVars
<1>11. CASE Cancel \/ Expire
  BY <1>11 DEF Cancel, Expire, Live, unwindVars
<1>12. CASE UNCHANGED vars
  BY <1>12 DEF vars, unwindVars
<1> QED
  BY <1>1, <1>2, <1>3, <1>4, <1>5, <1>6, <1>7, <1>8, <1>9, <1>10, <1>11, <1>12
     DEF Next, Run, Returned

\* An end is told once, and stored unless a write is refused.
LEMMA EndIsToldOnceStep ==
  ASSUME Ranges, OnItsStage, OpenUntilItEnds, EndIsToldOnce, [Next]_vars
  PROVE  EndIsToldOnce'
<1> USE DEF EndIsToldOnce, Stages, endVars, unwindVars
<1>0. status \in JobStatuses /\ stored \in JobStatuses /\ "failed" \in Terminal
      /\ "cancelled" \in Terminal /\ "completed" \in Terminal
  BY TerminalIs DEF Ranges
<1>1. CASE Load \/ StartStep
  BY <1>1 DEF Load, StartStep, EndInterrupted, Live, OpenUntilItEnds
<1>2. CASE Advance
  <2>1. status \notin Terminal /\ stored \notin Terminal /\ ended = <<>>
    BY <1>2 DEF Advance, OpenUntilItEnds
  <2>2. CASE ~CanTransition(status, next)
    BY <1>2, <2>1, <2>2 DEF Advance, OpenUntilItEnds
  <2>3. CASE stored' = next /\ status' = next /\ pc' = Work(next)
    <3>1. next \in Terminal <=> next = "completed"
      BY TerminalIs DEF Ranges
    <3>2. next # "cancelled"
      BY DEF Ranges
    <3>3. next = "completed" => ended' = <<"completed">> /\ Work(next) = "cleanup"
      <4>1. next = "completed" => ended' = Append(ended, "completed")
        BY <1>2, <2>3, WorkIs DEF Advance, AfterRefusal
      <4> QED
        BY <2>1, <4>1, WorkIs
    <3>4. next # "completed" => ended' = <<>> /\ Work(next) # "cleanup"
      BY <1>2, <2>1, <2>3, WorkIs DEF Advance
    <3> QED
      BY <1>2, <2>1, <2>3, <3>1, <3>2, <3>3, <3>4, WorkIs DEF Advance, OpenUntilItEnds
  <2>4. CASE pc' = "failing" /\ UNCHANGED <<stored, ended>> /\ status' = next
             /\ lost' = lost \cup {AdvanceFault(next)}
    BY <1>2, <2>1, <2>4, TerminalIs DEF Advance, AdvanceFault, Ranges, OpenUntilItEnds
  <2> QED
    BY <1>2, <2>2, <2>3, <2>4 DEF Advance, AfterRefusal
<1>3. CASE Plan \/ CreateCandidate \/ CreateDone
  BY <1>3 DEF Plan, CreateCandidate, CreateDone, StepDone, Fail, OpenUntilItEnds
<1>4. CASE ImplementCandidate \/ ImplementDone \/ (\E c \in Attempts : Judge(c))
  BY <1>4 DEF ImplementCandidate, ImplementDone, Judge, StepDone, Fail, OpenUntilItEnds
<1>5. CASE Choose \/ CaptureDiff
  BY <1>5 DEF Choose, CaptureDiff, StepDone, Fail, OpenUntilItEnds
<1>6. CASE Review
  BY <1>6 DEF Review, ReviewRejectedGate, ReviewPassedGate, Revise, StepDone, Fail, OpenUntilItEnds
<1>7. ASSUME NEW s \in {"failed", "cancelled"}, End(s),
             pc \in {"failing", "cancelling"}, s = "cancelled" => ctx = "cancelled",
             UNCHANGED <<ctx, stored, lost, panicking, unwound, counted>>
      PROVE  EndIsToldOnce'
  <2>1. CASE CanTransition(status, s)
    BY <1>0, <1>7, <2>1, EveryoneCanEnd DEF End, OpenUntilItEnds
  <2>2. CASE ~CanTransition(status, s)
    BY <1>0, <1>7, <2>2, EveryoneCanEnd DEF End, OpenUntilItEnds
  <2> QED
    BY <2>1, <2>2
<1>8. CASE MarkFailed \/ MarkCancelled
  <2>1. UNCHANGED <<ctx, stored, lost, panicking, unwound, counted>>
    BY <1>8 DEF MarkFailed, MarkCancelled
  <2>2. (pc = "failing" /\ End("failed"))
          \/ (pc = "cancelling" /\ End("cancelled") /\ ctx = "cancelled")
    BY <1>8 DEF MarkFailed, MarkCancelled, OpenUntilItEnds
  <2>3. CASE pc = "failing" /\ End("failed")
    BY <1>7, <2>1, <2>3
  <2>4. CASE pc = "cancelling" /\ End("cancelled") /\ ctx = "cancelled"
    BY <1>7, <2>1, <2>4
  <2> QED
    BY <2>2, <2>3, <2>4, Zenon
<1>9. CASE PersistEnd
  BY <1>0, <1>9 DEF PersistEnd, OpenUntilItEnds
<1>10. CASE Panic
  BY <1>10 DEF Panic, OpenUntilItEnds
<1>11. CASE CleanupCandidate
  BY <1>11 DEF CleanupCandidate
<1>12. CASE Release
  BY <1>12 DEF Release, OpenUntilItEnds
<1>13. CASE EndMetrics
  BY <1>13 DEF EndMetrics
<1>14. CASE Cancel \/ Expire
  BY <1>14 DEF Cancel, Expire, Live
<1>15. CASE UNCHANGED vars
  BY <1>15 DEF vars
<1> QED
  BY <1>1, <1>2, <1>3, <1>4, <1>5, <1>6, <1>8, <1>9, <1>10, <1>11, <1>12, <1>13, <1>14, <1>15
     DEF Next, Run, Returned

\* No step loses an attempt, or goes on without one.
LEMMA AttemptsAreMadeStep ==
  ASSUME Ranges, OnItsStage, AttemptsAreMade, [Next]_vars
  PROVE  AttemptsAreMade'
<1> USE DEF AttemptsAreMade, Stages, Wired, Ranges, attemptVars, gateVars, unwindVars
<1>0. N \in Nat \ {0} /\ made \in Nat
  BY ProcessorAssumption
<1>1. CASE Load \/ StartStep
  BY <1>1 DEF Load, StartStep, EndInterrupted
<1>2. CASE Advance
  BY <1>0, <1>2, WorkIs, FollowingIs DEF Advance, Work, AfterRefusal, JobStatuses
<1>3. CASE Plan
  BY <1>3, FollowingIs, StageIs DEF Plan, StepDone, Fail, OnItsStage
<1>4. CASE CreateCandidate
  BY <1>0, <1>4, StageIs DEF CreateCandidate, PartialCands, Fail, OnItsStage
<1>5. CASE CreateDone
  BY <1>0, <1>5, FollowingIs, StageIs DEF CreateDone, StepDone, OnItsStage
<1>6. CASE ImplementCandidate \/ ImplementDone \/ (\E c \in Attempts : Judge(c))
  BY <1>6, FollowingIs, StageIs
     DEF ImplementCandidate, ImplementDone, Judge, StepDone, Fail, OnItsStage
<1>7. CASE Choose
  BY <1>7, StageIs, RepresentativeIsAnAttempt, WinnerPassed DEF Choose, OnItsStage
<1>8. CASE CaptureDiff
  BY <1>8, FollowingIs, StageIs DEF CaptureDiff, StepDone, OnItsStage
<1>9. CASE Review
  BY <1>9, FollowingIs, StageIs
     DEF Review, ReviewRejectedGate, ReviewPassedGate, Revise, StepDone, Fail, OnItsStage
<1>10. CASE MarkFailed \/ MarkCancelled \/ PersistEnd
  BY <1>10 DEF MarkFailed, MarkCancelled, End, PersistEnd
<1>11. CASE Panic \/ CleanupCandidate \/ Release \/ EndMetrics
  BY <1>11 DEF Panic, CleanupCandidate, Release, EndMetrics
<1>12. CASE Cancel \/ Expire \/ UNCHANGED vars
  BY <1>12 DEF Cancel, Expire, vars
<1> QED
  BY <1>1, <1>2, <1>3, <1>4, <1>5, <1>6, <1>7, <1>8, <1>9, <1>10, <1>11, <1>12
     DEF Next, Run, Returned

\* No step makes a checkout that the cleanup would not find.
LEMMA CheckoutsAreKnownStep ==
  ASSUME Ranges, OnItsStage, OpenUntilItEnds, AttemptsAreMade, CheckoutsAreKnown, [Next]_vars
  PROVE  CheckoutsAreKnown'
<1> USE DEF CheckoutsAreKnown, Faults, Stages, attemptVars, unwindVars
<1>0. /\ N \in Nat \ {0} /\ made \in 0..N /\ k \in 1..(N + 1)
      /\ worktrees \subseteq Attempts /\ kept \subseteq Attempts
  BY ProcessorAssumption DEF Ranges
<1>1. CASE Load \/ StartStep
  BY <1>1 DEF Load, StartStep, EndInterrupted, OnItsStage
<1>2. CASE Advance
  <2>1. UNCHANGED <<worktrees, kept, made, unwound, setup>> /\ ~unwound
    BY <1>2 DEF Advance, OpenUntilItEnds
  <2>2. CASE pc' = "failing"
    BY <1>2, <2>1, <2>2 DEF Advance
  <2>3. CASE pc' = Work(next) /\ k' = 1
    <3>1. next' \in {"planning", "preparing_workspace"}
            => next \in {"planning", "preparing_workspace"}
      BY <1>2, <2>3, WorkIs, FollowingIs DEF Advance, Ranges, JobStatuses
    <3>3. next' \in {"planning", "preparing_workspace"}
          /\ Faults \cap {"panic_create", "killed_create"} = {} => worktrees = {}
      BY <1>2, <3>1 DEF Advance
    <3>4. pc' = "create" => next' = "preparing_workspace"
      BY <1>2, <2>3, WorkIs DEF Advance
    <3>5. \A c \in worktrees : c >= k'
      BY <1>0, <2>3 DEF Attempts
    <3>6. pc # "create"
      BY <1>2 DEF Advance
    <3> QED
      BY <1>0, <2>1, <3>3, <3>4, <3>5, <3>6
  <2> QED
    BY <1>2, <2>2, <2>3 DEF Advance, AfterRefusal
<1>3. CASE Plan
  BY <1>3, StageIs DEF Plan, StepDone, Fail, OnItsStage, OpenUntilItEnds
<1>4. CASE CreateCandidate
  BY <1>0, <1>4, StageIs DEF CreateCandidate, PartialCands, Fail, OnItsStage, OpenUntilItEnds
<1>5. CASE CreateDone
  BY <1>0, <1>5, StageIs, FollowingIs DEF CreateDone, StepDone, OnItsStage, OpenUntilItEnds, Attempts
<1>6. CASE ImplementCandidate \/ ImplementDone \/ (\E c \in Attempts : Judge(c))
  BY <1>6, FollowingIs, StageIs
     DEF ImplementCandidate, ImplementDone, Judge, StepDone, Fail, OnItsStage
<1>7. CASE Choose \/ CaptureDiff
  BY <1>7, FollowingIs, StageIs DEF Choose, CaptureDiff, StepDone, OnItsStage
<1>8. CASE Review
  BY <1>8, FollowingIs, StageIs
     DEF Review, ReviewRejectedGate, ReviewPassedGate, Revise, StepDone, Fail, OnItsStage
<1>9. CASE MarkFailed \/ MarkCancelled
  <2>1. UNCHANGED <<worktrees, kept, made, unwound, setup>>
    BY <1>9 DEF MarkFailed, MarkCancelled
  <2>2. pc # "create" /\ pc' \in {"persist", "measure", "cleanup"}
    BY <1>9 DEF MarkFailed, MarkCancelled, End
  <2>3. \A c \in worktrees : c >= k'
    BY <1>0, <1>9 DEF MarkFailed, MarkCancelled, Attempts
  <2> QED
    BY <2>1, <2>2, <2>3
<1>10. CASE PersistEnd
  BY <1>0, <1>10 DEF PersistEnd, OpenUntilItEnds, Attempts
<1>11. CASE Panic
  BY <1>0, <1>11, StageIs DEF Panic, OnItsStage, OpenUntilItEnds, AttemptsAreMade, Attempts
<1>12. CASE CleanupCandidate
  BY <1>0, <1>12 DEF CleanupCandidate, OpenUntilItEnds
<1>13. CASE Release
  BY <1>0, <1>13 DEF Release
<1>14. CASE EndMetrics
  BY <1>14 DEF EndMetrics
<1>15. CASE Cancel \/ Expire \/ UNCHANGED vars
  BY <1>15 DEF Cancel, Expire, vars
<1> QED
  BY <1>1, <1>2, <1>3, <1>4, <1>5, <1>6, <1>7, <1>8, <1>9, <1>10, <1>11, <1>12, <1>13, <1>14, <1>15
     DEF Next, Run, Returned

\* The gate of the round a run is in has been asked about the trees of that round.
LEMMA JudgedStep ==
  ASSUME Flags, Ranges, GateIsAboutTheTree, NEW c \in Attempts, Judge(c)
  PROVE  \A d \in Attempts : Implemented(d)' /\ d \notin pending' /\ "verifier" \in Wired
           => JudgedAsItIs(d)'
<1> SUFFICES ASSUME NEW d \in Attempts, Implemented(d)', d \notin pending', "verifier" \in Wired
             PROVE  JudgedAsItIs(d)'
  OBVIOUS
<1>1. made' = made /\ implErr' = implErr /\ tree' = tree /\ pending' = pending \ {c} /\ pc = "gate"
  BY DEF Judge
<1>2. judged' = [judged EXCEPT ![c] = tree[c]]
  BY DEF Judge
<1>3. CASE d = c
  <2>1. judged'[c] = tree[c]
    BY <1>2 DEF Ranges
  <2>2. \/ \E r \in {"pass", "fail"} : report' = [report EXCEPT ![c] = r]
        \/ verifyErr' = [verifyErr EXCEPT ![c] = TRUE]
    BY Zenon DEF Judge
  <2>3. verifyErr' = [verifyErr EXCEPT ![c] = TRUE] => verifyErr'[c]
    BY Zenon DEF Flags
  <2>4. (\E r \in {"pass", "fail"} : report' = [report EXCEPT ![c] = r]) => report'[c] # "none"
    BY DEF Ranges
  <2> QED
    BY <1>1, <1>3, <2>1, <2>2, <2>3, <2>4 DEF JudgedAsItIs
<1>4. CASE d # c
  <2>1. judged'[d] = judged[d]
    BY <1>2, <1>4 DEF Ranges
  <2>2. verifyErr'[d] = verifyErr[d]
    BY <1>4, Zenon DEF Judge, Flags
  <2>3. report'[d] = report[d]
    BY <1>4 DEF Judge, Ranges
  <2>4. Implemented(d) /\ d \notin pending
    BY <1>1, <1>4 DEF Implemented
  <2>5. JudgedAsItIs(d)
    BY <1>1, <2>4 DEF GateIsAboutTheTree
  <2> QED
    BY <1>1, <2>1, <2>2, <2>3, <2>5 DEF JudgedAsItIs
<1> QED
  BY <1>3, <1>4

\* No step changes a tree and keeps its verdict.
LEMMA GateIsAboutTheTreeStep ==
  ASSUME Flags, Ranges, OnItsStage, OpenUntilItEnds, AttemptsAreMade, GateIsAboutTheTree, [Next]_vars
  PROVE  GateIsAboutTheTree'
<1> USE DEF Wired, Stages, unwindVars
<1> DEFINE Sound == /\ winner \in Attempts
                    /\ ~implErr[winner] /\ ~verifyErr[winner]
                    /\ report[winner] = "pass" /\ judged[winner] = tree[winner]
           Past == pc = "capture" \/ next \in {"reviewing", "completed"}
           Wanted == {"workspaces", "verifier"} \subseteq Wired
           Ending == (pc = "advance" /\ next = "completed") \/ status = "completed"
           Asked == pc = "gate" /\ "verifier" \in Wired =>
                      \A c \in Attempts : Implemented(c) /\ c \notin pending => JudgedAsItIs(c)
<1>0. /\ Asked
      /\ Wanted /\ ~gateErr /\ Past => Sound
      /\ Ending => next = "completed" /\ ~gateErr
  BY DEF GateIsAboutTheTree
<1>a. ASSUME Asked', Wanted /\ ~gateErr' /\ Past' => Sound',
             Ending' => next' = "completed" /\ ~gateErr', setup' = setup
      PROVE  GateIsAboutTheTree'
  BY <1>a DEF GateIsAboutTheTree
<1>b. ASSUME UNCHANGED <<attemptVars, winner, gateErr, setup, next>>, pc' \notin {"gate", "capture"},
             Ending' => next = "completed" /\ ~gateErr
      PROVE  GateIsAboutTheTree'
  <2>1. Sound => Sound'
    BY <1>b DEF attemptVars
  <2> QED
    BY <1>0, <1>a, <1>b, <2>1
<1>1. CASE Load
  BY <1>0, <1>1, <1>b DEF Load, gateVars, OnItsStage, OpenUntilItEnds
<1>2. CASE StartStep
  BY <1>0, <1>2, <1>b DEF StartStep, EndInterrupted, gateVars
<1>3. CASE Advance
  <2>1. UNCHANGED <<attemptVars, winner, gateErr, setup>> /\ pc = "advance"
    BY <1>3 DEF Advance
  <2>2. CASE pc' = "failing"
    BY <1>0, <1>3, <1>b, <2>1, <2>2 DEF Advance
  <2>3. CASE pc' = Work(next) /\ status' = next
    <3>1. Ending' => next' = "completed" /\ ~gateErr'
      BY <1>0, <1>3, <2>1, <2>3, WorkIs DEF Advance
    <3>2. Asked'
      <4>1. pc' = "gate" /\ "verifier" \in Wired => pending' = {c \in Attempts : Implemented(c)}
        BY <1>3, <2>3, WorkIs DEF Advance, AfterRefusal
      <4>2. \A c \in Attempts : Implemented(c)' = Implemented(c)
        BY <2>1, Zenon DEF Implemented, attemptVars
      <4>3. setup' = setup
        BY <2>1
      <4> QED
        BY <4>1, <4>2, <4>3, Zenon
    <3>3. Wanted /\ Past' => Past
      <4>1. Wanted /\ next = "verifying" => Work(next) = "gate"
        BY ProcessorAssumption DEF Work, AttemptsAreMade
      <4> QED
        BY <1>3, <2>1, <2>3, <4>1, WorkIs, FollowingIs DEF Advance, Ranges, JobStatuses
    <3>4. Sound => Sound'
      BY <2>1 DEF attemptVars
    <3>5. Wanted /\ ~gateErr' /\ Past' => Sound'
      BY <1>0, <2>1, <3>3, <3>4
    <3> QED
      BY <1>a, <2>1, <3>1, <3>2, <3>5
  <2> QED
    BY <1>3, <2>2, <2>3, WorkIs DEF Advance, AfterRefusal
<1>4. ASSUME pc \in Stages \ {"review"},
             pc' \notin {"gate", "capture"}, pc' # "advance", pc \notin {"gate", "capture"},
             next' \in {next, Following[next]}, status' = status, setup' = setup
      PROVE  GateIsAboutTheTree'
  <2>1. next \notin {"verifying", "reviewing", "completed"} /\ status # "completed"
    BY <1>4, StageIs DEF OnItsStage
  <2>2. next' \notin {"reviewing", "completed"}
    BY <1>4, <2>1, FollowingIs DEF Ranges, JobStatuses
  <2> QED
    BY <1>a, <1>4, <2>1, <2>2
<1>5. CASE Plan
  BY <1>4, <1>5 DEF Plan, StepDone, Fail
<1>6. CASE CreateCandidate
  BY <1>4, <1>6 DEF CreateCandidate, Fail
<1>7. CASE CreateDone
  BY <1>4, <1>7 DEF CreateDone, StepDone
<1>8. CASE ImplementCandidate
  BY <1>4, <1>8 DEF ImplementCandidate
<1>9. CASE ImplementDone
  BY <1>4, <1>9 DEF ImplementDone, StepDone, Fail
<1>10. ASSUME NEW c \in Attempts, Judge(c) PROVE GateIsAboutTheTree'
  <2>1. UNCHANGED <<pc, next, status, setup>> /\ pc = "gate"
    BY <1>10 DEF Judge
  <2>2. next = "verifying" /\ status = "verifying"
    BY <2>1, StageIs DEF OnItsStage
  <2>3. Asked'
    BY <1>10, <2>1, JudgedStep
  <2> QED
    BY <1>a, <2>1, <2>2, <2>3
<1>11. CASE Choose
  <2>1. pc = "gate" /\ next = "verifying" /\ status = "verifying" /\ pending = {}
    BY <1>11, StageIs DEF Choose, OnItsStage
  <2>2. UNCHANGED <<attemptVars, next, status, setup>> /\ pc' = "capture"
    BY <1>11 DEF Choose
  <2>3. Wanted /\ ~gateErr' => winner' \in Attempts /\ Passed(winner')
    <3>1. Wanted /\ ~gateErr' => winner' = SelectWinner /\ (\E c \in Attempts : Passed(c))
      BY <1>11 DEF Choose
    <3> QED
      BY <3>1, WinnerPassed
  <2>4. ASSUME NEW c \in Attempts, Passed(c), Wanted
        PROVE  /\ ~implErr[c] /\ ~verifyErr[c]
               /\ report[c] = "pass" /\ judged[c] = tree[c]
    <3>1. Implemented(c) /\ ~verifyErr[c] /\ ~implErr[c] /\ report[c] # "fail"
      BY <2>4 DEF Passed, Failed, Implemented
    <3>2. JudgedAsItIs(c)
      BY <1>0, <2>1, <2>4, <3>1
    <3> QED
      BY <3>1, <3>2 DEF JudgedAsItIs, Ranges
  <2>5. Wanted /\ ~gateErr' /\ Past' => Sound'
    BY <2>2, <2>3, <2>4 DEF attemptVars
  <2> QED
    BY <1>a, <2>1, <2>2, <2>5
<1>12. CASE CaptureDiff
  <2>1. pc = "capture" /\ next = "verifying" /\ status = "verifying"
    BY <1>12, StageIs DEF CaptureDiff, OnItsStage
  <2>2. UNCHANGED <<attemptVars, winner, gateErr, status, setup>> /\ pc' = "check"
    BY <1>12 DEF CaptureDiff, StepDone
  <2>3. Sound => Sound'
    BY <2>2 DEF attemptVars
  <2> QED
    BY <1>0, <1>a, <2>1, <2>2, <2>3
<1>13. CASE Review
  <2>1. pc = "review" /\ next = "reviewing" /\ status = "reviewing"
    BY <1>13, StageIs DEF Review, OnItsStage
  <2>2. UNCHANGED <<attemptVars, winner, status, setup>> /\ pc' \in {"check", "failing"}
    BY <1>13 DEF Review, ReviewRejectedGate, ReviewPassedGate, Revise, StepDone, Fail
  <2>3. \/ next' = "waiting_for_revision"
        \/ gateErr' = gateErr
    BY <1>13 DEF Review, ReviewRejectedGate, ReviewPassedGate, Revise, StepDone, Fail, KeepRound
  <2>4. Sound => Sound'
    BY <2>2 DEF attemptVars
  <2> QED
    BY <1>0, <1>a, <2>1, <2>2, <2>3, <2>4
<1>14. CASE MarkFailed \/ MarkCancelled
  <2>1. UNCHANGED <<attemptVars, winner, gateErr, setup, next>> /\ status' \in {status, "failed", "cancelled"}
        /\ pc' \in {"persist", "measure", "cleanup"}
    BY <1>14 DEF MarkFailed, MarkCancelled, End, gateVars
  <2> QED
    BY <1>0, <1>b, <2>1
<1>15. CASE PersistEnd
  <2>1. UNCHANGED <<attemptVars, winner, gateErr, setup, next, status>>
        /\ pc' \in {"measure", "cleanup"}
    BY <1>15 DEF PersistEnd, gateVars
  <2> QED
    BY <1>0, <1>b, <2>1
<1>16. CASE Panic
  BY <1>0, <1>16, <1>b DEF Panic, gateVars
<1>17. CASE CleanupCandidate
  <2>1. UNCHANGED <<pc, tree, implErr, verifyErr, report, judged, winner, gateErr, setup, next, status>>
        /\ pc = "cleanup"
    BY <1>17 DEF CleanupCandidate, gateVars
  <2>2. Sound => Sound'
    BY <2>1
  <2> QED
    BY <1>0, <1>a, <2>1, <2>2
<1>18. CASE Release
  BY <1>0, <1>18, <1>b DEF Release, gateVars
<1>19. CASE EndMetrics
  BY <1>0, <1>19, <1>b DEF EndMetrics, gateVars
<1>20. CASE Cancel \/ Expire \/ UNCHANGED vars
  <2>1. UNCHANGED <<pc, next, status, attemptVars, gateVars, setup>>
    BY <1>20 DEF Cancel, Expire, vars
  <2>2. Sound => Sound'
    BY <2>1 DEF attemptVars, gateVars
  <2>3. Asked => Asked'
    BY <2>1, Zenon DEF attemptVars, gateVars, Implemented, JudgedAsItIs
  <2> QED
    BY <1>0, <1>a, <2>1, <2>2, <2>3 DEF gateVars
<1> QED
  BY <1>1, <1>2, <1>3, <1>5, <1>6, <1>7, <1>8, <1>9, <1>10, <1>11, <1>12, <1>13, <1>14,
     <1>15, <1>16, <1>17, <1>18, <1>19, <1>20
     DEF Next, Run, Returned

\* The patch is captured of the winner, and its tree stays as it was.
LEMMA PatchIsOfTheWinnerStep ==
  ASSUME Ranges, OnItsStage, AttemptsAreMade, PatchIsOfTheWinner, [Next]_vars
  PROVE  PatchIsOfTheWinner'
<1> USE DEF PatchIsOfTheWinner, Wired, Faults, Stages, unwindVars
<1>a. ASSUME UNCHANGED <<tree, winner, artifact, setup>>,
             next' \in {"reviewing", "completed"} =>
               \/ next \in {"reviewing", "completed"}
               \/ ~({"workspaces", "artifacts"} \subseteq Wired)
      PROVE  PatchIsOfTheWinner'
  BY <1>a
<1>b. ASSUME next' \in {next, Following[next], "waiting_for_revision"}, setup' = setup,
             pc \in {"plan", "create", "implement"}
      PROVE  PatchIsOfTheWinner'
  BY <1>b, StageIs, FollowingIs DEF OnItsStage, Ranges, JobStatuses
<1>1. CASE Load \/ StartStep
  BY <1>1, <1>a DEF Load, StartStep, attemptVars, gateVars
<1>2. CASE Advance
  <2>1. UNCHANGED <<tree, winner, artifact, setup>>
    BY <1>2 DEF Advance, attemptVars
  <2>2. "workspaces" \in Wired /\ next = "verifying" => Work(next) = "gate"
    BY ProcessorAssumption DEF Work, AttemptsAreMade
  <2>3. next' \in {"reviewing", "completed"} =>
           \/ next \in {"reviewing", "completed"}
           \/ "workspaces" \notin Wired
    BY <1>2, <2>2, WorkIs, FollowingIs DEF Advance, AfterRefusal, Ranges, JobStatuses
  <2> QED
    BY <1>a, <2>1, <2>3
<1>3. CASE Plan \/ CreateCandidate \/ CreateDone
  BY <1>3, <1>b DEF Plan, CreateCandidate, CreateDone, StepDone, Fail
<1>4. CASE ImplementCandidate \/ ImplementDone
  BY <1>4, <1>b DEF ImplementCandidate, ImplementDone, StepDone, Fail
<1>5. CASE \E c \in Attempts : Judge(c)
  BY <1>5, <1>a DEF Judge
<1>6. CASE Choose
  BY <1>6, StageIs DEF Choose, OnItsStage
<1>7. CASE CaptureDiff
  <2>1. winner \in Attempts
    BY <1>7 DEF CaptureDiff, AttemptsAreMade
  <2> QED
    BY <1>7, <2>1 DEF CaptureDiff, attemptVars
<1>8. CASE Review
  <2>1. next = "reviewing" /\ UNCHANGED <<tree, winner, artifact, setup>>
    BY <1>8, StageIs DEF Review, OnItsStage, attemptVars
  <2> QED
    BY <1>a, <2>1
<1>9. CASE MarkFailed \/ MarkCancelled \/ PersistEnd
  BY <1>9, <1>a DEF MarkFailed, MarkCancelled, PersistEnd, attemptVars, gateVars
<1>10. CASE Panic \/ CleanupCandidate \/ Release \/ EndMetrics
  BY <1>10, <1>a DEF Panic, CleanupCandidate, Release, EndMetrics, attemptVars, gateVars
<1>11. CASE Cancel \/ Expire \/ UNCHANGED vars
  BY <1>11, <1>a DEF Cancel, Expire, vars, attemptVars, gateVars
<1> QED
  BY <1>1, <1>2, <1>3, <1>4, <1>5, <1>6, <1>7, <1>8, <1>9, <1>10, <1>11 DEF Next, Run, Returned

\* In the first round an implementation fails in its turn and not before.
LEMMA DeadAreBehindStep ==
  ASSUME Flags, Ranges, OnItsStage, DeadAreBehind, [Next]_vars
  PROVE  DeadAreBehind'
<1> USE DEF DeadAreBehind, Faults, Stages, unwindVars
<1>a. ASSUME UNCHANGED <<implErr, next, feedback, setup, k>>,
             pc' \notin {"check", "advance", "implement"} \/ pc' = pc
                \/ (pc = "check" /\ pc' = "advance")
      PROVE  DeadAreBehind'
  BY <1>a
<1>b. ASSUME UNCHANGED <<implErr, next, feedback, setup>>,
             pc' \notin {"check", "advance", "implement"}
      PROVE  DeadAreBehind'
  BY <1>b
<1>1. CASE Load
  BY <1>1 DEF Load, OnItsStage, attemptVars, gateVars
<1>2. CASE StartStep
  BY <1>2, <1>a DEF StartStep, EndInterrupted, attemptVars, gateVars
<1>3. CASE Advance
  <2>1. UNCHANGED <<implErr, feedback, setup>> /\ pc = "advance"
    BY <1>3 DEF Advance, attemptVars
  <2>2. CASE pc' = "failing"
    BY <1>3, <1>b, <2>1, <2>2 DEF Advance
  <2>3. CASE pc' = Work(next)
    <3>1. CASE pc' = "check"
      <4>1. next' = Following[next] /\ next # "completed"
        BY <1>3, <2>3, <3>1, WorkIs DEF Advance
      <4>2. next \in {"planning", "preparing_workspace", "implementing", "verifying", "reviewing",
                      "waiting_for_revision"}
        BY <4>1 DEF Ranges, JobStatuses
      <4> QED
        BY <2>1, <3>1, <4>1, <4>2, FollowingIs
    <3>2. CASE pc' # "check"
      BY <1>3, <2>1, <2>3, <3>2, WorkIs DEF Advance
    <3> QED
      BY <3>1, <3>2
  <2> QED
    BY <1>3, <2>2, <2>3 DEF Advance, AfterRefusal
<1>4. CASE Plan \/ CreateCandidate \/ CreateDone
  <2>1. UNCHANGED <<implErr, feedback, setup>> /\ next \in {"planning", "preparing_workspace"}
    BY <1>4, StageIs DEF Plan, CreateCandidate, CreateDone, OnItsStage, attemptVars, gateVars
  <2>2. next' \in {next, Following[next]} /\ pc' # "implement"
    BY <1>4, StageIs DEF Plan, CreateCandidate, CreateDone, StepDone, Fail
  <2> QED
    BY <2>1, <2>2, FollowingIs
<1>5. CASE ImplementCandidate
  <2>1. UNCHANGED <<pc, next, feedback, setup>> /\ pc = "implement" /\ k' = k + 1
        /\ next = "implementing"
    BY <1>5, StageIs DEF ImplementCandidate, OnItsStage
  <2>2. \A c \in Attempts : c # k => implErr'[c] = implErr[c]
    BY <1>5, Zenon DEF ImplementCandidate, Flags
  <2>3. k \in Nat
    BY ProcessorAssumption DEF Ranges
  <2>4. \A c \in Attempts : c >= k' => c # k /\ c >= k
    BY <2>1, <2>3, ProcessorAssumption DEF Attempts
  <2> QED
    BY <2>1, <2>2, <2>4
<1>6. CASE ImplementDone
  BY <1>6, StageIs, FollowingIs DEF ImplementDone, StepDone, Fail, OnItsStage, attemptVars, gateVars
<1>7. CASE \E c \in Attempts : Judge(c)
  BY <1>7, <1>a DEF Judge
<1>8. CASE Choose
  BY <1>8, <1>b DEF Choose, attemptVars
<1>9. CASE CaptureDiff
  BY <1>9, StageIs, FollowingIs DEF CaptureDiff, StepDone, OnItsStage, attemptVars
<1>10. CASE Review
  <2>1. next = "reviewing" /\ setup' = setup
    BY <1>10, StageIs DEF Review, OnItsStage
  <2>2. pc' # "implement" /\ next' \in {next, Following[next], "waiting_for_revision"}
    BY <1>10 DEF Review, ReviewRejectedGate, ReviewPassedGate, Revise, StepDone, Fail
  <2>3. next' = next \/ next' = Following[next] \/ feedback' \/ "empty_notes" \in Faults
    <3>1. ASSUME NEW hasNotes \in BOOLEAN, hasNotes \/ "empty_notes" \in Faults, Revise(hasNotes)
          PROVE  feedback' \/ "empty_notes" \in Faults
      <4>1. hasNotes = TRUE => feedback'
        BY <3>1, Zenon DEF Revise
      <4> QED
        BY <3>1, <4>1, Zenon
    <3>2. Revise(TRUE) => feedback'
      BY Zenon DEF Revise
    <3> QED
      BY <1>10, <3>1, <3>2, Zenon DEF Review, ReviewRejectedGate, ReviewPassedGate, StepDone, Fail
  <2> QED
    BY <2>1, <2>2, <2>3, FollowingIs
<1>11. CASE MarkFailed \/ MarkCancelled \/ PersistEnd
  BY <1>11, <1>b DEF MarkFailed, MarkCancelled, End, PersistEnd, attemptVars, gateVars
<1>12. CASE Panic \/ Release \/ EndMetrics
  BY <1>12, <1>b DEF Panic, Release, EndMetrics, attemptVars, gateVars
<1>13. CASE CleanupCandidate
  BY <1>13, <1>b DEF CleanupCandidate, gateVars
<1>14. CASE Cancel \/ Expire \/ UNCHANGED vars
  BY <1>14, <1>a DEF Cancel, Expire, vars, attemptVars, gateVars
<1> QED
  BY <1>1, <1>2, <1>3, <1>4, <1>5, <1>6, <1>7, <1>8, <1>9, <1>10, <1>11, <1>12, <1>13, <1>14
     DEF Next, Run, Returned

-----------------------------------------------------------------------------
(* The invariant, and what it promises. *)

\* A run that begins satisfies the invariant.
LEMMA StartsWell == ASSUME Init PROVE IInv
<1> USE DEF Init
<1>1. Flags
  BY Zenon DEF Flags
<1>2. Ranges
  <2>1. "queued" \in JobStatuses /\ "planning" \in JobStatuses
    BY DEF JobStatuses
  <2>2. NoPatch \in Patches
    BY DEF Patches
  <2> QED
    BY <2>1, <2>2, ProcessorAssumption DEF Ranges, PCs, Attempts
<1>3. OnItsStage /\ OpenUntilItEnds
  BY TerminalIs DEF OnItsStage, OpenUntilItEnds, Stages
<1>4. EndIsToldOnce
  BY TerminalIs DEF EndIsToldOnce
<1>5. AttemptsAreMade /\ CheckoutsAreKnown
  BY DEF AttemptsAreMade, CheckoutsAreKnown
<1>6. GateIsAboutTheTree /\ PatchIsOfTheWinner /\ DeadAreBehind
  <2>1. \A c \in Attempts : implErr[c] = FALSE
    OBVIOUS
  <2> QED
    BY <2>1 DEF GateIsAboutTheTree, PatchIsOfTheWinner, DeadAreBehind
<1> QED
  BY <1>1, <1>2, <1>3, <1>4, <1>5, <1>6, TypesInTwo DEF IInv

\* Every step keeps it.
LEMMA Inductive == ASSUME IInv, [Next]_vars PROVE IInv'
<1>1. Flags /\ Ranges
  BY TypesInTwo DEF IInv
<1>2. Flags' /\ Ranges'
  BY <1>1, FlagsStep, RangesStep DEF IInv
<1>3. TypeOK'
  BY <1>2, Zenon DEF TypeOK, Flags, Ranges
<1>4. OnItsStage' /\ OpenUntilItEnds' /\ EndIsToldOnce' /\ AttemptsAreMade'
  BY <1>1, OnItsStageStep, OpenUntilItEndsStep, EndIsToldOnceStep, AttemptsAreMadeStep DEF IInv
<1>5. CheckoutsAreKnown' /\ GateIsAboutTheTree' /\ PatchIsOfTheWinner' /\ DeadAreBehind'
  BY <1>1, CheckoutsAreKnownStep, GateIsAboutTheTreeStep, PatchIsOfTheWinnerStep,
     DeadAreBehindStep DEF IInv
<1> QED
  BY <1>3, <1>4, <1>5 DEF IInv

\* The inductive invariant of a run, from Process to its deferred release.
THEOREM Invariant == Spec => []IInv
<1>1. Init => IInv
  BY StartsWell
<1>2. IInv /\ [Next]_vars => IInv'
  BY Inductive
<1> QED
  BY <1>1, <1>2, PTL DEF Spec

\* Every variable of a run keeps its range, however the run goes.
THEOREM TypeCorrect == Spec => []TypeOK
<1>1. IInv => TypeOK
  BY DEF IInv
<1> QED
  BY <1>1, Invariant, PTL

\* Whatever fails and however often it is revised, a job completes only with an
\* attempt whose tree, as it stands, was implemented and passed every check
\* (processor.go verify, fanout.go passed).
THEOREM CompletedIsVerifiedHolds == Spec => []CompletedIsVerified
<1>1. IInv => CompletedIsVerified
  <2> SUFFICES ASSUME IInv, status = "completed", {"workspaces", "verifier"} \subseteq Wired
               PROVE  /\ winner # 0
                      /\ ~implErr[winner] /\ ~verifyErr[winner]
                      /\ report[winner] = "pass"
                      /\ judged[winner] = tree[winner]
    BY DEF CompletedIsVerified
  <2>1. next = "completed" /\ ~gateErr
    BY DEF IInv, GateIsAboutTheTree
  <2>2. winner \in Attempts => winner # 0
    BY ProcessorAssumption DEF Attempts
  <2> QED
    BY <2>1, <2>2 DEF IInv, GateIsAboutTheTree
<1> QED
  BY <1>1, Invariant, PTL

\* The patch the job returns is that of the attempt it names, as it was judged
\* (captureDiff).
THEOREM PatchIsWinnersHolds == Spec => []PatchIsWinners
<1>1. IInv => PatchIsWinners
  <2>1. IInv /\ status = "completed" => next = "completed"
    BY DEF IInv, GateIsAboutTheTree
  <2> QED
    BY <2>1 DEF IInv, PatchIsOfTheWinner, PatchIsWinners
<1> QED
  BY <1>1, Invariant, PTL

\* A run that has returned, however it ended, has left on disk only checkouts
\* that could not be removed (the deferred cleanup of Process).
THEOREM WorktreesRemovedHolds == Spec => []WorktreesRemoved
<1>1. IInv => WorktreesRemoved
  BY DEF IInv, CheckoutsAreKnown, OpenUntilItEnds, WorktreesRemoved
<1> QED
  BY <1>1, Invariant, PTL

\* The record, the events and the metrics agree on how a run ended, and only a
\* request cancels (markFailed, markCancelled, endInterrupted).
THEOREM EndIsStoredAndToldHolds == Spec => []EndIsStoredAndTold
<1>1. IInv => EndIsStoredAndTold
  <2>1. ASSUME IInv, pc = "done", lost \cap {"store_complete", "store_end"} = {}
        PROVE  stored \in Terminal /\ ended = <<stored>> /\ counted = <<stored>>
    <3>1. stored = status /\ status \in Terminal /\ ended = <<status>>
          /\ counted = <<OutcomeOfStatus(status)>>
      BY <2>1 DEF IInv, EndIsToldOnce
    <3>2. OutcomeOfStatus(status) = status
      BY <3>1, TerminalIs DEF OutcomeOfStatus
    <3> QED
      BY <3>1, <3>2
  <2> QED
    BY <2>1 DEF IInv, EndIsToldOnce, EndIsStoredAndTold
<1> QED
  BY <1>1, Invariant, PTL

\* The store never sees a status step the state machine forbids, even where a
\* refused write has let the job in memory run ahead of it (advance, markFailed).
THEOREM StoredStatusIsLegalHolds == Spec => StoredStatusIsLegal
<1>1. IInv /\ [Next]_vars => [stored' # stored => CanTransition(stored, stored')]_vars
  <2> SUFFICES ASSUME IInv, Next, stored' # stored
               PROVE  CanTransition(stored, stored')
    OBVIOUS
  <2>1. Advance \/ PersistEnd
    BY DEF Next, Run, Returned, Load, StartStep, Plan, CreateCandidate, CreateDone,
       ImplementCandidate, ImplementDone, Judge, Choose, CaptureDiff, Review, MarkFailed,
       MarkCancelled, Panic, CleanupCandidate, Release, EndMetrics, Cancel, Expire, vars, endVars
  <2>2. CASE Advance
    <3>1. CanTransition(status, next) /\ stored' = next
      BY <2>2 DEF Advance
    <3>2. stored = status
      BY <2>2 DEF Advance, IInv, OpenUntilItEnds
    <3> QED
      BY <3>1, <3>2
  <2>3. CASE PersistEnd
    <3>1. stored' = status /\ status \in {"failed", "cancelled"} /\ stored \notin Terminal
      BY <2>3 DEF PersistEnd, IInv, OpenUntilItEnds
    <3>2. stored \in JobStatuses
      BY TypesInTwo DEF IInv, Ranges
    <3> QED
      BY <3>1, <3>2, EveryoneCanEnd
  <2> QED
    BY <2>1, <2>2, <2>3
<1> QED
  BY <1>1, Invariant, PTL DEF Spec, StoredStatusIsLegal

\* A revision leaves alone the attempts that never got a change (implement).
THEOREM DeadAttemptsStayDeadHolds == Spec => DeadAttemptsStayDead
<1>1. IInv /\ [Next]_vars =>
        [\A c \in Attempts : implErr[c] /\ "empty_notes" \notin Faults => tree'[c] = tree[c]]_vars
  <2> SUFFICES ASSUME IInv, Next, NEW c \in Attempts, implErr[c], "empty_notes" \notin Faults
               PROVE  tree'[c] = tree[c]
    OBVIOUS
  <2>1. UNCHANGED tree \/ ImplementCandidate
    BY DEF Next, Run, Returned, Load, StartStep, Advance, Plan, CreateCandidate, CreateDone,
       ImplementDone, Judge, Choose, CaptureDiff, Review, MarkFailed, MarkCancelled, PersistEnd,
       Panic, CleanupCandidate, Release, EndMetrics, Cancel, Expire, vars, attemptVars
  <2>2. CASE ImplementCandidate
    <3>1. pc = "implement" /\ k \in Nat /\ tree \in [Attempts -> 0..(MaxRevisions + 1)]
      BY <2>2, TypesInTwo DEF ImplementCandidate, IInv, Ranges
    <3>2. CASE c # k
      BY <2>2, <3>1, <3>2 DEF ImplementCandidate
    <3>3. CASE c = k
      <4>1. feedback
        BY <3>1, <3>3, ProcessorAssumption DEF IInv, DeadAreBehind, Attempts
      <4>2. SkipDead(k)
        BY <3>3, <4>1 DEF SkipDead
      <4> QED
        BY <2>2, <4>2 DEF ImplementCandidate
    <3> QED
      BY <3>2, <3>3
  <2> QED
    BY <2>1, <2>2
<1> QED
  BY <1>1, Invariant, PTL DEF Spec, DeadAttemptsStayDead
-----------------------------------------------------------------------------
(* A run of Process is a run as Service has it. *)

\* What the mapping needs besides IInv: the next status is one that the job may
\* take, a run that panicked ends `failed`, and what went wrong could (and a run
\* begins unrevised).
NextIsLegal == pc \in {"load", "check", "advance"} => CanTransition(status, next)

PanicsFail == pc = "persist" /\ unwound => status = "failed"

BlameIsDue ==
  /\ lost \subseteq Faults /\ (kept # {} => "cleanup" \in Faults)
  /\ pc = "load" => revisions = 0

RunInv == NextIsLegal /\ PanicsFail /\ BlameIsDue

\* A stage leads on to where its status may go (Following, legalTransitions).
LEMMA StagesLeadOn ==
  /\ \A s \in Steps \ {"completed"} : CanTransition(s, Following[s])
  /\ CanTransition("queued", "planning") /\ CanTransition("reviewing", "waiting_for_revision")
BY FollowingIs DEF Steps, CanTransition, legalTransitions, JobStatuses

\* No step goes for a status that is out of reach.
LEMMA NextIsLegalStep ==
  ASSUME Ranges, OnItsStage, OpenUntilItEnds, NextIsLegal, [Next]_vars
  PROVE  NextIsLegal'
<1> USE DEF NextIsLegal, Stages, endVars, unwindVars, gateVars
<1>1. CASE Load \/ StartStep
  BY <1>1 DEF Load, StartStep, EndInterrupted, OpenUntilItEnds
<1>2. CASE Advance
  <2>1. ASSUME pc' \in {"load", "check", "advance"} PROVE CanTransition(status', next')
    <3>1. pc' = Work(next) /\ status' = next /\ pc' = "check"
      BY <1>2, <2>1, WorkIs DEF Advance, AfterRefusal
    <3>2. next # "completed"
      BY <3>1, WorkIs
    <3>3. next \in Steps \ {"completed"}
      BY <3>2 DEF Ranges, Steps
    <3>4. next' = Following[next]
      BY <1>2, <3>1 DEF Advance
    <3> QED
      BY <3>1, <3>3, <3>4, StagesLeadOn
  <2> QED
    BY <2>1
<1>3. CASE Plan \/ CreateDone \/ ImplementDone \/ CaptureDiff
  BY <1>3, StagesLeadOn, FollowingIs, StageIs
     DEF Plan, CreateDone, ImplementDone, CaptureDiff, StepDone, Fail, OnItsStage, Steps, JobStatuses
<1>4. CASE Review
  BY <1>4, StagesLeadOn, FollowingIs, StageIs
     DEF Review, ReviewRejectedGate, ReviewPassedGate, Revise, StepDone, Fail, OnItsStage, Steps,
         JobStatuses
<1>5. CASE CreateCandidate \/ ImplementCandidate \/ (\E c \in Attempts : Judge(c)) \/ Choose
  BY <1>5 DEF CreateCandidate, ImplementCandidate, Judge, Choose, Fail
<1>6. CASE MarkFailed \/ MarkCancelled \/ PersistEnd \/ Panic \/ Release \/ EndMetrics
  BY <1>6 DEF MarkFailed, MarkCancelled, End, PersistEnd, Panic, Release, EndMetrics
<1>7. CASE CleanupCandidate
  BY <1>7 DEF CleanupCandidate
<1>8. CASE Cancel \/ Expire \/ UNCHANGED vars
  BY <1>8 DEF Cancel, Expire, vars
<1> QED
  BY <1>1, <1>2, <1>3, <1>4, <1>5, <1>6, <1>7, <1>8 DEF Next, Run, Returned

\* Only the recovery of a panic ends a job once the deferred calls were made.
LEMMA PanicsFailStep ==
  ASSUME OpenUntilItEnds, PanicsFail, [Next]_vars
  PROVE  PanicsFail'
<1> USE DEF PanicsFail, OpenUntilItEnds, Stages, endVars, unwindVars
<1>1. CASE MarkFailed \/ MarkCancelled
  BY <1>1 DEF MarkFailed, MarkCancelled, End
<1>2. CASE Advance
  BY <1>2, WorkIs DEF Advance, AfterRefusal
<1>3. CASE Load \/ StartStep \/ Plan \/ CreateCandidate \/ CreateDone \/ ImplementCandidate
           \/ ImplementDone \/ (\E c \in Attempts : Judge(c)) \/ Choose \/ CaptureDiff \/ Review
  BY <1>3 DEF Load, StartStep, EndInterrupted, Plan, CreateCandidate, CreateDone,
              ImplementCandidate, ImplementDone, Judge, Choose, CaptureDiff, Review,
              ReviewRejectedGate, ReviewPassedGate, Revise, StepDone, Fail
<1>4. CASE PersistEnd \/ Panic \/ CleanupCandidate \/ Release \/ EndMetrics
  BY <1>4 DEF PersistEnd, Panic, CleanupCandidate, Release, EndMetrics
<1>5. CASE Cancel \/ Expire \/ UNCHANGED vars
  BY <1>5 DEF Cancel, Expire, vars
<1> QED
  BY <1>1, <1>2, <1>3, <1>4, <1>5 DEF Next, Run, Returned

\* Nothing goes wrong that the process was not started with.
LEMMA BlameIsDueStep ==
  ASSUME BlameIsDue, [Next]_vars
  PROVE  BlameIsDue'
<1> USE WorkIs DEF BlameIsDue, Faults, AfterRefusal, StepDone, Fail, End, Stages,
               attemptVars, gateVars, endVars, unwindVars
<1>1. CASE Advance \/ PersistEnd
  BY <1>1 DEF Advance, PersistEnd
<1>2. CASE CleanupCandidate
  BY <1>2 DEF CleanupCandidate
<1>3. CASE Load \/ StartStep \/ Plan \/ CreateCandidate \/ CreateDone \/ ImplementCandidate
           \/ ImplementDone \/ (\E c \in Attempts : Judge(c)) \/ Choose \/ CaptureDiff \/ Review
  BY <1>3 DEF Load, StartStep, EndInterrupted, Plan, CreateCandidate, CreateDone,
              ReviewRejectedGate, ReviewPassedGate, Revise, ImplementCandidate, ImplementDone, Judge, Choose, CaptureDiff, Review
<1>4. CASE MarkFailed \/ MarkCancelled \/ Panic \/ Release \/ EndMetrics
  BY <1>4 DEF MarkFailed, MarkCancelled, Panic, Release, EndMetrics
<1>5. CASE Cancel \/ Expire \/ UNCHANGED vars
  BY <1>5 DEF Cancel, Expire, vars
<1> QED
  BY <1>1, <1>2, <1>3, <1>4, <1>5 DEF Next, Run, Returned

\* A run is in a place of JobRun by where Process is.
LEMMA PlaceIs ==
  /\ pc = "load" => placeOf = "load"
  /\ pc \in {"check", "advance"} \cup Stages => placeOf = "run"
  /\ pc \in {"failing", "persist"} /\ unwound => placeOf = "recovered"
  /\ pc = "persist" /\ ~unwound =>
       placeOf = IF status = "cancelled" THEN "cancelling" ELSE "failing"
  /\ pc = "failing" /\ ~unwound => placeOf = "failing"
  /\ pc = "cancelling" => placeOf = "cancelling"
  /\ pc = "cleanup" => placeOf = IF panicking THEN "unwind" ELSE "cleanup"
  /\ pc = "measure" => placeOf = "release"
  /\ pc = "done" => placeOf = "off"
BY DEF placeOf, Stages

\* And so after a step.
LEMMA PlaceIsThen ==
  /\ pc' = "load" => placeOf' = "load"
  /\ pc' \in {"check", "advance"} \cup Stages => placeOf' = "run"
  /\ pc' \in {"failing", "persist"} /\ unwound' => placeOf' = "recovered"
  /\ pc' = "persist" /\ ~unwound' =>
       placeOf' = IF status' = "cancelled" THEN "cancelling" ELSE "failing"
  /\ pc' = "failing" /\ ~unwound' => placeOf' = "failing"
  /\ pc' = "cancelling" => placeOf' = "cancelling"
  /\ pc' = "cleanup" => placeOf' = IF panicking' THEN "unwind" ELSE "cleanup"
  /\ pc' = "measure" => placeOf' = "release"
  /\ pc' = "done" => placeOf' = "off"
BY DEF placeOf, Stages

\* JobRun and Processor have the same statuses.
LEMMA SameStatuses ==
  R!legalTransitions = legalTransitions /\ R!Terminal = Terminal
  /\ \A s, t : R!CanTransition(s, t) <=> CanTransition(s, t)
<1>1. R!JobStatuses = JobStatuses
  BY DEF R!JobStatuses, JobStatuses
<1>2. R!legalTransitions = legalTransitions
  BY <1>1, Zenon DEF R!legalTransitions, legalTransitions
<1> QED
  BY <1>1, <1>2, Zenon DEF R!Terminal, Terminal, R!CanTransition, CanTransition

\* What a step of a run looks like where there is only one.
LEMMA RunGoes ==
  ASSUME NEW from, NEW to, placeOf = from, placeOf' = to, stored' = stored,
         worktrees' # {} <=> worktrees # {}
  PROVE  R!Goes(1, from, to)
BY DEF R!Goes

LEMMA RunWaits ==
  ASSUME placeOf # "off", placeOf' = placeOf, stored' = stored,
         worktrees' # {} <=> worktrees # {}, revisionsOf' = revisionsOf
  PROVE  R!Waits(1)
<1>1. R!Goes(1, placeOf, placeOf)
  BY RunGoes
<1> QED
  BY <1>1 DEF R!Waits

\* A failure at a stage: the run goes to markFailed with what it has made.
LEMMA RunFails ==
  ASSUME Ranges, OpenUntilItEnds, NextIsLegal, pc \in {"check"} \cup Stages, OnItsStage,
         pc = "check" => next = "completed",
         pc' = "failing", unwound' = unwound, stored' = stored,
         worktrees' # {} <=> worktrees # {}
  PROVE  R!StageFails(1)
<1>1. placeOf = "run" /\ placeOf' = "failing"
  BY PlaceIs, PlaceIsThen DEF OpenUntilItEnds, Stages
<1>2. R!Goes(1, "run", "failing")
  BY <1>1, RunGoes
<1>3. stored # "queued"
  <2>1. CASE pc = "check"
    <3>1. CanTransition(stored, "completed")
      BY <2>1 DEF OpenUntilItEnds, NextIsLegal
    <3> QED
      BY <3>1 DEF CanTransition, legalTransitions, JobStatuses
  <2>2. CASE pc \in Stages
    BY <2>2, StageIs DEF OpenUntilItEnds, OnItsStage, Stages
  <2> QED
    BY <2>1, <2>2
<1> QED
  BY <1>2, <1>3 DEF R!StageFails

\* The fault that JobRun names, for each that Processor has.
LEMMA MayFailIs ==
  /\ {"store_advance", "store_complete", "store_end"} \cap Faults # {} => "store" \in mayFailOf
  /\ {"cleanup", "panic_create", "killed_create"} \cap Faults # {} => "cleanup" \in mayFailOf
  /\ "killed_create" \in Faults => "git" \in mayFailOf
<1> DEFINE Is(f) == CASE f = "store"   -> {"store_advance", "store_complete", "store_end"} \cap Faults # {}
                      [] f = "cleanup" -> {"cleanup", "panic_create", "killed_create"} \cap Faults # {}
                      [] OTHER -> "killed_create" \in Faults
<1>1. mayFailOf = {f \in {"store", "cleanup", "git"} : Is(f)}
  BY DEF mayFailOf
<1> QED
  BY <1>1

\* A context that is over stays so, and is noticed.
LEMMA ContextStays ==
  ASSUME Ranges, [Next]_vars
  PROVE  contextOf \in {"live", contextOf'}
<1>1. CASE Cancel \/ Expire \/ UNCHANGED vars
  BY <1>1 DEF Cancel, Expire, Live, contextOf, vars
<1>2. CASE StartStep
  BY <1>2 DEF StartStep, EndInterrupted, Live, contextOf
<1>3. ASSUME ctx' = ctx, pc' = "advance" => pc = "advance" PROVE contextOf \in {"live", contextOf'}
  BY <1>3 DEF contextOf
<1>4. CASE Load \/ Advance \/ Plan \/ CreateCandidate \/ CreateDone \/ ImplementCandidate
           \/ ImplementDone \/ (\E c \in Attempts : Judge(c)) \/ Choose \/ CaptureDiff \/ Review
  BY <1>3, <1>4, WorkIs
     DEF Load, Advance, AfterRefusal, Stages, Plan, CreateCandidate, CreateDone,
         ImplementCandidate, ImplementDone, Judge, Choose, CaptureDiff, Review,
         ReviewRejectedGate, ReviewPassedGate, Revise, StepDone, Fail
<1>5. CASE MarkFailed \/ MarkCancelled \/ PersistEnd \/ Panic \/ CleanupCandidate \/ Release \/ EndMetrics
  BY <1>3, <1>5 DEF MarkFailed, MarkCancelled, End, PersistEnd, Panic, CleanupCandidate, Release, EndMetrics
<1> QED
  BY <1>1, <1>2, <1>4, <1>5 DEF Next, Run, Returned

\* The steps that belong to a step of JobRun's.
Move == R!Outside(1) \/ R!Waits(1) \/ R!Begin(1) \/ R!Load(1) \/ R!CheckOut(1)
        \/ R!KilledCheckOut(1) \/ R!Advance(1) \/ R!Interrupt(1) \/ R!StageFails(1)
        \/ R!Panic(1) \/ R!End(1) \/ R!Cleanup(1) \/ R!Release(1)

\* The beginning of a run, and its checkpoints.
LEMMA BeginningsImplement ==
  ASSUME IInv, RunInv, Load \/ StartStep
  PROVE  Move
<1>1. Ranges /\ OnItsStage /\ OpenUntilItEnds /\ NextIsLegal
  BY TypesInTwo DEF IInv, RunInv
<1> USE DEF attemptVars, gateVars, endVars, unwindVars
<1>2. CASE Load
  <2>1. placeOf = "load" /\ placeOf' = "run" /\ stored' = stored /\ worktrees' = worktrees
    BY <1>2, PlaceIs, PlaceIsThen DEF Load
  <2>2. revisionsOf' = 0
    BY <1>1, <1>2 DEF Load, revisionsOf, RunInv, BlameIsDue, OnItsStage
  <2>3. R!Goes(1, "load", "run")
    BY <2>1, RunGoes
  <2> QED
    BY <2>2, <2>3 DEF R!Load, Move
<1>3. CASE StartStep
  <2>1. placeOf = "run" /\ ~unwound /\ contextOf = ctx
    BY <1>1, <1>3, PlaceIs DEF StartStep, OpenUntilItEnds, contextOf
  <2>2. UNCHANGED <<stored, worktrees, unwound, next, revisions>>
    BY <1>3 DEF StartStep
  <2>3. CASE ~Live
    <3>1. placeOf' = IF contextOf = "expired" THEN "failing" ELSE "cancelling"
      BY <1>3, <2>1, <2>2, <2>3, PlaceIsThen DEF StartStep, EndInterrupted
    <3>2. R!Goes(1, "run", IF contextOf = "expired" THEN "failing" ELSE "cancelling")
      BY <2>1, <2>2, <3>1, RunGoes
    <3> QED
      BY <2>1, <2>3, <3>2 DEF R!Interrupt, Move, Live
  <2>4. CASE Live /\ next = "completed" /\ gateErr
    <3>1. pc' = "failing" /\ pc = "check"
      BY <1>3, <2>4 DEF StartStep
    <3>2. R!StageFails(1)
      BY <1>1, <2>2, <2>4, <3>1, RunFails
    <3> QED
      BY <3>2 DEF Move
  <2>5. CASE Live /\ ~(next = "completed" /\ gateErr)
    <3>1. placeOf' = "run"
      BY <1>3, <2>5, PlaceIsThen DEF StartStep
    <3>2. R!Waits(1)
      BY <2>1, <2>2, <3>1, RunWaits DEF revisionsOf
    <3> QED
      BY <3>2 DEF Move
  <2> QED
    BY <2>3, <2>4, <2>5
<1> QED
  BY <1>2, <1>3

\* The write of the next status is JobRun's.
LEMMA AdvanceImplements ==
  ASSUME IInv, RunInv, Advance
  PROVE  R!Advance(1)
<1>1. Ranges /\ OnItsStage /\ OpenUntilItEnds /\ NextIsLegal
  BY TypesInTwo DEF IInv, RunInv
<1>2. pc = "advance" /\ placeOf = "run" /\ contextOf = "live" /\ stored = status
      /\ ~unwound /\ ~panicking
  BY <1>1, PlaceIs DEF Advance, OpenUntilItEnds, contextOf
<1>3. worktrees' = worktrees /\ panicking' = panicking /\ unwound' = unwound
      /\ revisions' = revisions
  BY DEF Advance, attemptVars, unwindVars
<1>4. next \in legalTransitions[stored] \ {"failed", "cancelled"} /\ CanTransition(status, next)
  BY <1>1, <1>2 DEF NextIsLegal, CanTransition, Ranges
<1>5. next = "waiting_for_revision" => revisionsOf < MaxRevisions
  BY <1>1, ProcessorAssumption DEF revisionsOf, Ranges
<1>6. CASE stored' = next /\ pc' = Work(next)
  <2>1. next = "completed" => placeOf' = "cleanup"
    BY <1>2, <1>3, <1>6, WorkIs, PlaceIsThen
  <2>2. ASSUME next # "completed"
        PROVE  /\ placeOf' = "run"
               /\ revisionsOf' = IF next = "waiting_for_revision"
                                   THEN revisionsOf + 1 ELSE revisionsOf
    <3>1. pc' \in {"check"} \cup Stages
      BY <1>6, <2>2, WorkIs
    <3>2. next' = next \/ next' = Following[next]
      BY DEF Advance
    <3>3. next = "waiting_for_revision" => pc' = "check" /\ next' = Following[next]
      BY <1>6, WorkIs DEF Advance, Stages
    <3>4. Following[next] # "waiting_for_revision"
      BY <1>1, <2>2, FollowingIs DEF Ranges, JobStatuses
    <3>5. revisions \in Int
      BY <1>1, ProcessorAssumption DEF Ranges
    <3> QED
      BY <1>3, <3>1, <3>2, <3>3, <3>4, <3>5, PlaceIsThen DEF revisionsOf
  <2> QED
    BY <1>2, <1>3, <1>4, <1>5, <1>6, <2>1, <2>2, SameStatuses DEF R!Advance
<1>7. CASE stored' = stored /\ pc' = "failing" /\ AdvanceFault(next) \in Faults
  <2>1. placeOf' = "failing"
    BY <1>2, <1>3, <1>7, PlaceIsThen
  <2>2. "store" \in mayFailOf
    BY <1>7, MayFailIs DEF AdvanceFault
  <2> QED
    BY <1>2, <1>3, <1>4, <1>5, <1>7, <2>1, <2>2, SameStatuses DEF R!Advance
<1> QED
  BY <1>4, <1>6, <1>7 DEF Advance, AfterRefusal

\* A stage works in its place, and fails from it; the one that makes checkouts shows.
LEMMA StagesImplement ==
  ASSUME IInv, RunInv,
         Plan \/ CreateCandidate \/ CreateDone \/ ImplementCandidate \/ ImplementDone
           \/ (\E c \in Attempts : Judge(c)) \/ Choose \/ CaptureDiff \/ Review
  PROVE  Move
<1>1. Ranges /\ OnItsStage /\ OpenUntilItEnds /\ NextIsLegal
  BY TypesInTwo DEF IInv, RunInv
<1> USE DEF attemptVars, gateVars, endVars, unwindVars
<1>2. pc \in Stages /\ placeOf = "run" /\ stored' = stored /\ unwound' = unwound
  <2>1. pc \in Stages
    BY DEF Plan, CreateCandidate, CreateDone, ImplementCandidate, ImplementDone, Judge, Choose,
           CaptureDiff, Review, Stages
  <2>2. stored' = stored /\ unwound' = unwound
    BY DEF Plan, CreateCandidate, CreateDone, ImplementCandidate, ImplementDone, Judge, Choose,
           CaptureDiff, Review
  <2> QED
    BY <2>1, <2>2, PlaceIs
<1>3. next = Stage[pc] /\ next # "waiting_for_revision" /\ Following[next] # "waiting_for_revision"
      /\ stored = next
  BY <1>1, <1>2, StageIs, FollowingIs DEF OnItsStage, OpenUntilItEnds, Stages
<1>4. ASSUME pc' \in {"check"} \cup Stages, revisionsOf' = revisionsOf,
             worktrees' # {} <=> worktrees # {}
      PROVE  Move
  <2>1. placeOf' = "run"
    BY <1>4, PlaceIsThen
  <2>2. R!Waits(1)
    BY <1>2, <1>4, <2>1, RunWaits
  <2> QED
    BY <2>2 DEF Move
<1>5. ASSUME pc' = "failing", worktrees' # {} <=> worktrees # {} PROVE Move
  <2>1. R!StageFails(1)
    BY <1>1, <1>2, <1>5, RunFails DEF Stages
  <2> QED
    BY <2>1 DEF Move
<1>6. CASE Plan \/ CreateDone \/ ImplementDone
  <2>1. worktrees' = worktrees /\ revisions' = revisions
    BY <1>6 DEF Plan, CreateDone, ImplementDone
  <2>2. pc' = "failing" \/ (pc' = "check" /\ next' = Following[next])
    BY <1>6 DEF Plan, CreateDone, ImplementDone, StepDone, Fail
  <2> QED
    BY <1>3, <1>4, <1>5, <2>1, <2>2 DEF revisionsOf
<1>7. CASE CreateCandidate
  <2>1. next = "preparing_workspace" /\ revisions' = revisions /\ next' = next
    BY <1>3, <1>7, StageIs DEF CreateCandidate, Fail
  <2>2. contextOf = ctx /\ pc = "create"
    BY <1>7 DEF CreateCandidate, contextOf
  <2>3. CASE Live /\ worktrees' = worktrees \cup {k} /\ UNCHANGED pc
    <3>1. CASE worktrees = {}
      <4>1. placeOf' = "run"
        BY <1>2, <2>3, PlaceIsThen
      <4>2. revisionsOf' = revisionsOf
        BY <2>1 DEF revisionsOf
      <4>3. R!CheckOut(1)
        BY <1>2, <1>3, <2>1, <2>2, <2>3, <3>1, <4>1, <4>2 DEF R!CheckOut, Live
      <4> QED
        BY <4>3 DEF Move
    <3>2. CASE worktrees # {}
      BY <1>2, <1>4, <2>1, <2>3, <3>2 DEF revisionsOf
    <3> QED
      BY <3>1, <3>2
  <2>4. CASE pc' = "failing" /\ UNCHANGED worktrees
    BY <1>5, <2>4
  <2>5. CASE pc' = "failing" /\ "killed_create" \in Faults /\ ~Live
    <3>1. placeOf' = "failing"
      BY <1>1, <1>2, <2>5, PlaceIsThen DEF OpenUntilItEnds, Stages
    <3>2. "git" \in mayFailOf
      BY <2>5, MayFailIs
    <3>3. R!KilledCheckOut(1)
      BY <1>2, <1>3, <2>1, <2>2, <2>5, <3>1, <3>2 DEF R!KilledCheckOut, Live
    <3> QED
      BY <3>3 DEF Move
  <2> QED
    BY <1>7, <2>3, <2>4, <2>5 DEF CreateCandidate, Fail
<1>8. CASE ImplementCandidate \/ (\E c \in Attempts : Judge(c))
  BY <1>2, <1>4, <1>8 DEF ImplementCandidate, Judge, revisionsOf
<1>9. CASE Choose
  BY <1>4, <1>9 DEF Choose, revisionsOf, Stages
<1>10. CASE CaptureDiff
  BY <1>3, <1>4, <1>10 DEF CaptureDiff, StepDone, revisionsOf
<1>11. CASE Review
  <2>1. worktrees' = worktrees /\ next = "reviewing"
    BY <1>3, <1>11, StageIs DEF Review
  <2>2. \/ pc' = "failing"
        \/ pc' = "check" /\ next' = Following[next] /\ revisions' = revisions
        \/ pc' = "check" /\ next' = "waiting_for_revision" /\ revisions' = revisions + 1
    BY <1>11 DEF Review, ReviewRejectedGate, ReviewPassedGate, Revise, StepDone, Fail, KeepRound
  <2>3. (revisions + 1) - 1 = revisions
    BY <1>1, ProcessorAssumption DEF Ranges
  <2>4. pc' = "failing" \/ revisionsOf' = revisionsOf
    BY <1>3, <2>2, <2>3 DEF revisionsOf
  <2> QED
    BY <1>4, <1>5, <2>1, <2>2, <2>4
<1> QED
  BY <1>6, <1>7, <1>8, <1>9, <1>10, <1>11

\* The end of a job is moved to, told and stored in one step of JobRun's.
LEMMA EndsImplement ==
  ASSUME IInv, RunInv, MarkFailed \/ MarkCancelled \/ PersistEnd
  PROVE  Move
<1>1. Ranges /\ OpenUntilItEnds /\ EndIsToldOnce /\ PanicsFail /\ BlameIsDue
  BY TypesInTwo DEF IInv, RunInv
<1> USE DEF attemptVars, gateVars, endVars, unwindVars
<1>2. UNCHANGED <<worktrees, unwound, panicking, next, revisions, setup>> /\ ~panicking
      /\ revisionsOf' = revisionsOf
  BY <1>1 DEF MarkFailed, MarkCancelled, PersistEnd, OpenUntilItEnds, revisionsOf
<1>3. placeOf = IF unwound THEN "recovered"
                ELSE IF pc = "cancelling" \/ (pc = "persist" /\ status = "cancelled")
                  THEN "cancelling" ELSE "failing"
  BY <1>1, PlaceIs DEF MarkFailed, MarkCancelled, PersistEnd, OpenUntilItEnds
<1>4. CASE pc' = "persist"
  <2>1. UNCHANGED stored /\ (MarkFailed \/ MarkCancelled)
    BY <1>4 DEF MarkFailed, MarkCancelled, PersistEnd
  <2>2. /\ pc \in {"failing", "cancelling"}
        /\ status' = IF pc = "failing" THEN "failed" ELSE "cancelled"
    BY <1>4, <2>1 DEF MarkFailed, MarkCancelled, End
  <2>3. placeOf' = placeOf /\ placeOf # "off"
    BY <1>1, <1>2, <1>3, <1>4, <2>2, PlaceIsThen DEF OpenUntilItEnds
  <2>4. R!Waits(1)
    BY <1>2, <2>1, <2>3, RunWaits
  <2> QED
    BY <2>4 DEF Move
<1>5. ASSUME pc' = IF unwound THEN "measure" ELSE "cleanup",
             NEW s, s = IF placeOf = "cancelling" THEN "cancelled" ELSE "failed",
             \/ CanTransition(stored, s) /\ stored' = s
             \/ "store" \in mayFailOf /\ stored' = stored
      PROVE  Move
  <2>1. placeOf' = IF placeOf = "recovered" THEN "release" ELSE "cleanup"
    BY <1>2, <1>3, <1>5, PlaceIsThen
  <2>2. placeOf \in {"failing", "cancelling", "recovered"}
    BY <1>3
  <2>3. R!End(1)
    BY <1>2, <1>5, <2>1, <2>2, SameStatuses DEF R!End
  <2> QED
    BY <2>3 DEF Move
<1>6. CASE PersistEnd
  <2>1. pc = "persist" /\ status \in {"failed", "cancelled"} /\ stored \notin Terminal
        /\ pc' = IF unwound THEN "measure" ELSE "cleanup"
    BY <1>1, <1>6 DEF PersistEnd, OpenUntilItEnds
  <2>2. status = IF placeOf = "cancelling" THEN "cancelled" ELSE "failed"
    BY <1>1, <1>3, <2>1 DEF PanicsFail
  <2>3. CanTransition(stored, status)
    BY <1>1, <2>1, EveryoneCanEnd DEF Ranges
  <2>4. stored' = status \/ ("store" \in mayFailOf /\ stored' = stored)
    BY <1>6, MayFailIs DEF PersistEnd
  <2> QED
    BY <1>5, <2>1, <2>2, <2>3, <2>4
<1>7. CASE MarkFailed /\ pc' # "persist"
  <2>1. pc = "failing" /\ stored' = stored /\ ~CanTransition(status, "failed")
        /\ pc' = IF unwound THEN "measure" ELSE "cleanup"
    BY <1>7 DEF MarkFailed, End
  <2>2. "store_complete" \in lost
    BY <1>1, <2>1, EveryoneCanEnd DEF EndIsToldOnce, Ranges
  <2>3. "store" \in mayFailOf
    BY <1>1, <2>2, MayFailIs DEF BlameIsDue
  <2> QED
    BY <1>5, <2>1, <2>3
<1>8. CASE MarkCancelled /\ pc' # "persist"
  <2>1. pc = "cancelling" /\ stored' = stored /\ ~CanTransition(status, "cancelled")
        /\ pc' = IF unwound THEN "measure" ELSE "cleanup"
    BY <1>8 DEF MarkCancelled, End
  <2>2. "store_complete" \in lost
    BY <1>1, <2>1, EveryoneCanEnd DEF EndIsToldOnce, Ranges
  <2>3. "store" \in mayFailOf
    BY <1>1, <2>2, MayFailIs DEF BlameIsDue
  <2> QED
    BY <1>5, <2>1, <2>3
<1> QED
  BY <1>4, <1>6, <1>7, <1>8 DEF PersistEnd

\* The deferred calls are made in JobRun's order, and its checkouts go with it.
LEMMA DeferredImplement ==
  ASSUME IInv, RunInv, Panic \/ CleanupCandidate \/ Release \/ EndMetrics
  PROVE  Move
<1>1. Ranges /\ OnItsStage /\ OpenUntilItEnds /\ EndIsToldOnce /\ BlameIsDue /\ CheckoutsAreKnown
  BY TypesInTwo DEF IInv, RunInv
<1> USE DEF attemptVars, gateVars, endVars, unwindVars
<1>2. stored' = stored /\ setup' = setup /\ next' = next /\ revisions' = revisions
      /\ revisionsOf' = revisionsOf
  BY DEF Panic, CleanupCandidate, Release, EndMetrics, revisionsOf
<1>3. CASE Panic
  <2>1. pc \in Stages /\ pc' = "cleanup" /\ panicking' /\ worktrees' = worktrees
    BY <1>3 DEF Panic, Stages
  <2>2. placeOf = "run" /\ placeOf' = "unwind"
    BY <2>1, PlaceIs, PlaceIsThen
  <2>3. stored # "queued"
    BY <1>1, <2>1, StageIs DEF OpenUntilItEnds, OnItsStage, Stages
  <2>4. R!Goes(1, "run", "unwind")
    BY <1>2, <2>1, <2>2, RunGoes
  <2> QED
    BY <2>3, <2>4 DEF R!Panic, Move
<1>4. CASE CleanupCandidate
  <2>1. placeOf \in {"cleanup", "unwind"} /\ placeOf' = placeOf
    BY <1>4, PlaceIs, PlaceIsThen DEF CleanupCandidate
  <2>2. worktrees' # {} => worktrees # {}
    BY <1>4 DEF CleanupCandidate
  <2>3. R!Cleanup(1)
    BY <1>2, <2>1, <2>2 DEF R!Cleanup
  <2> QED
    BY <2>3 DEF Move
<1>5. CASE Release
  <2>1. /\ placeOf \in {"cleanup", "unwind"} /\ worktrees' = worktrees
        /\ placeOf' = IF placeOf = "unwind" THEN "recovered" ELSE "release"
    BY <1>5, PlaceIs, PlaceIsThen DEF Release
  <2>2. worktrees' # {} => "cleanup" \in mayFailOf
    <3>1. CASE Faults \cap {"panic_create", "killed_create"} = {}
      <4>1. pc = "cleanup" /\ k > made /\ worktrees \subseteq 1..made
            /\ \A c \in worktrees : c \in kept \/ c >= k
        BY <1>1, <1>5, <3>1 DEF CheckoutsAreKnown, Release
      <4>2. \A c \in worktrees : c \in kept
        BY <1>1, <4>1, ProcessorAssumption DEF Ranges
      <4> QED
        BY <1>1, <2>1, <4>2, MayFailIs DEF BlameIsDue
    <3>2. CASE Faults \cap {"panic_create", "killed_create"} # {}
      BY <3>2, MayFailIs
    <3> QED
      BY <3>1, <3>2
  <2>3. R!Cleanup(1)
    BY <1>2, <2>1, <2>2 DEF R!Cleanup
  <2> QED
    BY <2>3 DEF Move
<1>6. CASE EndMetrics
  <2>1. placeOf = "release" /\ placeOf' = "off" /\ worktrees' = worktrees /\ pc = "measure"
    BY <1>6, PlaceIs, PlaceIsThen DEF EndMetrics
  <2>2. stored \in Terminal \/ "store" \in mayFailOf
    BY <1>1, <2>1, MayFailIs DEF EndIsToldOnce, BlameIsDue
  <2>3. R!Goes(1, "release", "off")
    BY <1>2, <2>1, RunGoes
  <2> QED
    BY <2>2, <2>3, SameStatuses DEF R!Release, Move
<1> QED
  BY <1>3, <1>4, <1>5, <1>6

\* What happens to a run from outside leaves it where it is.
LEMMA OthersImplement ==
  ASSUME Ranges, Cancel \/ Expire \/ UNCHANGED vars
  PROVE  Move
<1>1. UNCHANGED <<pc, unwound, panicking, status, stored, worktrees, next, revisions>>
  BY DEF Cancel, Expire, vars, attemptVars, gateVars, endVars, unwindVars
<1>2. placeOf' = placeOf /\ revisionsOf' = revisionsOf
  BY <1>1, Zenon DEF placeOf, revisionsOf
<1>3. CASE placeOf = "off"
  BY <1>2, <1>3 DEF R!Outside, Move
<1>4. CASE placeOf # "off"
  <2>1. R!Waits(1)
    BY <1>1, <1>2, <1>4, RunWaits
  <2> QED
    BY <2>1 DEF Move
<1> QED
  BY <1>3, <1>4

\* Every step of a run is one of JobRun's.
LEMMA StepsImplement ==
  ASSUME IInv, RunInv, [Next]_vars
  PROVE  R!Next
<1>1. Move
  <2>1. Ranges
    BY TypesInTwo DEF IInv
  <2>2. CASE Advance
    BY <2>2, AdvanceImplements DEF Move
  <2> QED
    BY <2>1, <2>2, BeginningsImplement, StagesImplement, EndsImplement, DeferredImplement,
       OthersImplement DEF Next, Run, Returned
<1>2. contextOf \in {"live", contextOf'}
  BY ContextStays, TypesInTwo DEF IInv
<1>3. R!Step(1)
  BY <1>1, <1>2 DEF Move, R!Step
<1>4. setup' = setup
  BY DEF Next, Run, Returned, Load, StartStep, Advance, Plan, CreateCandidate, CreateDone,
     ImplementCandidate, ImplementDone, Judge, Choose, CaptureDiff, Review, MarkFailed,
     MarkCancelled, PersistEnd, Panic, CleanupCandidate, Release, EndMetrics, Cancel, Expire,
     vars, unwindVars
<1>5. mayFailOf' = mayFailOf
  BY <1>4, Zenon DEF mayFailOf, Faults
<1> QED
  BY <1>3, <1>5 DEF R!Next

\* What the rest of the service is shown to rely on is what a run of Process does:
\* each of its steps is a step of JobRun or leaves all that JobRun sees alone.
THEOREM RunsAsServiceHasIt == Spec => ImplementsRun
<1>1. Init => IInv /\ RunInv
  <2>1. Init => RunInv
    BY StagesLeadOn DEF Init, RunInv, NextIsLegal, PanicsFail, BlameIsDue
  <2> QED
    BY <2>1, StartsWell
<1>2. IInv /\ RunInv /\ [Next]_vars => IInv' /\ RunInv'
  <2> SUFFICES ASSUME IInv, RunInv, [Next]_vars PROVE IInv' /\ RunInv'
    OBVIOUS
  <2>1. Ranges /\ OnItsStage /\ OpenUntilItEnds /\ NextIsLegal /\ PanicsFail /\ BlameIsDue
    BY TypesInTwo DEF IInv, RunInv
  <2>2. NextIsLegal' /\ PanicsFail' /\ BlameIsDue'
    BY <2>1, NextIsLegalStep, PanicsFailStep, BlameIsDueStep
  <2> QED
    BY <2>2, Inductive DEF RunInv
<1>3. Init => R!Start
  <2> SUFFICES ASSUME Init PROVE R!Start
    OBVIOUS
  <2>1. placeOf = "load" /\ stored = "queued" /\ worktrees = {}
    BY PlaceIs DEF Init
  <2> QED
    BY <2>1 DEF R!Start
<1>4. IInv /\ RunInv /\ [Next]_vars => [R!Next]_R!runVars
  BY StepsImplement
<1> QED
  BY <1>1, <1>2, <1>3, <1>4, PTL DEF Spec, ImplementsRun, R!Runs
=============================================================================
