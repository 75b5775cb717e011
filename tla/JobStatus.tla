------------------------------ MODULE JobStatus ------------------------------
(***************************************************************************)
(* The statuses of a job and the moves between them, from internal/jobs.   *)
(* Every other module takes its statuses from here.                        *)
(***************************************************************************)

JobStatuses == {"queued", "planning", "preparing_workspace", "implementing",
                "verifying", "reviewing", "waiting_for_revision",
                "completed", "failed", "cancelled"}

\* For each status, the statuses Transition may move the job to.
legalTransitions ==
  [s \in JobStatuses |->
     CASE s = "queued"               -> {"planning", "cancelled", "failed"}
       [] s = "planning"             -> {"preparing_workspace", "failed", "cancelled"}
       [] s = "preparing_workspace"  -> {"implementing", "failed", "cancelled"}
       [] s = "implementing"         -> {"verifying", "failed", "cancelled"}
       [] s = "verifying"            -> {"reviewing", "failed", "cancelled"}
       [] s = "reviewing"            -> {"completed", "waiting_for_revision",
                                         "failed", "cancelled"}
       [] s = "waiting_for_revision" -> {"implementing", "failed", "cancelled"}
       [] OTHER                      -> {}]

CanTransition(from, to) == to \in legalTransitions[from]

\* Statuses with no way out.
Terminal == {s \in JobStatuses : legalTransitions[s] = {}}

\* The job was being worked on when the process stopped (recovery.go).
IsInterrupted(s) == s \in {"planning", "preparing_workspace", "implementing",
                           "verifying", "reviewing", "waiting_for_revision"}
=============================================================================
