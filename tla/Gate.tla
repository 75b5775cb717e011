-------------------------------- MODULE Gate --------------------------------
(***************************************************************************)
(* The verification gate that rojo-mcp lends to other agents (mcpserver    *)
(* Gate.Verify), on the two parts it is made of: the git worktrees of      *)
(* internal/workspace, shared by all the calls in flight, and the detected *)
(* checks of internal/verification, run through execution.SafeRunner.      *)
(* The contents of a checkout are abstracted to which operations were      *)
(* applied; a repository, to the state of each stack it may use.           *)
(***************************************************************************)
EXTENDS Naturals, Sequences, FiniteSets

CONSTANTS
  Calls,    \* of the tool, in flight at the same time
  Stacks,   \* call -> the stacks its repository may use
  Faults,   \* what this instance lets go wrong
  None      \* nobody, no answer yet

AllStacks  == {"go", "node", "python", "rust"}
FaultKinds ==
  {"cancel",   \* the client gives a call up
   "git",      \* a git command fails, or is killed by its timeout
   "rm",       \* a directory cannot be removed
   "writes"}   \* a check writes files into the checkout

\* VerifyResult, or the error in its place.
Answers ==
  [error : BOOLEAN, passed : BOOLEAN, failed : BOOLEAN, noted : BOOLEAN,
   changes : {None} \cup [extra : BOOLEAN]]

ASSUME GateAssumption ==
  /\ Stacks \in [Calls -> SUBSET AllStacks] /\ Faults \subseteq FaultKinds
  /\ None \notin Calls \cup Answers

\* The operations of a request: one of an unknown kind or without a path; one
\* that the sandbox refuses, or more than it takes; or none but it applies.
Requests == {"malformed", "refused", "fits"}

VARIABLES
  dirs,        \* calls whose checkout's directory exists
  registered,  \* calls whose worktree the repository lists
  branches,    \* calls whose branch exists
  mu,          \* the call that holds the manager's mutex
  pc,          \* call -> the place in Verify it is at
  ctx,         \* call -> "live", or "dead" once it is given up
  ops,         \* call -> the operations of its request
  applied,     \* call -> which of them are in its checkout
  extra,       \* call -> its checks wrote files into the checkout
  held,        \* calls whose Create returned a workspace
  plan,        \* call -> checks detected and not yet run
  ran,         \* call -> checks that were run
  results,     \* call -> the results in the report
  sound,       \* call -> each check so far ran to its end and was content
  ended,       \* call -> Verify returned an error with its report
  answer,      \* call -> what the caller gets
  broke,       \* calls in whose cleanup git or the file system failed
  reported     \* calls whose cleanup logged an error

gitVars    == <<dirs, registered, branches>>
checkVars  == <<plan, ran, results, sound, ended>>
treeVars   == <<ops, applied, extra, held>>
cleanupVars == <<broke, reported>>
vars == <<gitVars, mu, pc, ctx, treeVars, checkVars, answer, cleanupVars>>

Goto(c, p) == pc' = [pc EXCEPT ![c] = p]

Init ==
  /\ dirs = {} /\ registered = {} /\ branches = {} /\ mu = None
  /\ pc = [c \in Calls |-> "start"] /\ ctx = [c \in Calls |-> "live"]
  /\ ops = [c \in Calls |-> "fits"] /\ applied = [c \in Calls |-> "none"]
  /\ extra = [c \in Calls |-> FALSE] /\ held = {}
  /\ plan = [c \in Calls |-> <<>>] /\ ran = [c \in Calls |-> 0]
  /\ results = [c \in Calls |-> {}] /\ sound = [c \in Calls |-> TRUE]
  /\ ended = [c \in Calls |-> FALSE]
  /\ answer = [c \in Calls |-> None] /\ broke = {} /\ reported = {}

\* The client goes away.
GiveUp(c) ==
  /\ "cancel" \in Faults /\ pc[c] # "done" /\ ctx[c] = "live"
  /\ ctx' = [ctx EXCEPT ![c] = "dead"]
  /\ UNCHANGED <<gitVars, mu, pc, treeVars, checkVars, answer, cleanupVars>>

\* execution.SafeRunner: what the inner runner says counts only if the caller
\* is still there and the runner's own timeout has not fired.
Trusted(c, inTime) == ctx[c] = "live" /\ inTime

-----------------------------------------------------------------------------
(* Create: validation, and `git worktree add` under the manager's mutex. *)

\* The call returns an error instead of a report.
Refused == [error |-> TRUE, passed |-> FALSE, failed |-> FALSE, noted |-> FALSE, changes |-> None]
Refuse(c) == answer' = [answer EXCEPT ![c] = Refused]

\* toOperations and validateRepoPath come before anything is made.
Ask(c) ==
  /\ pc[c] = "start"
  /\ \E req \in Requests, usable \in BOOLEAN :
       /\ ops' = [ops EXCEPT ![c] = req]
       /\ IF usable /\ req # "malformed"
            THEN Goto(c, "create") /\ UNCHANGED answer
            ELSE Goto(c, "done") /\ Refuse(c)
  /\ UNCHANGED <<gitVars, mu, ctx, applied, extra, held, checkVars, cleanupVars>>

Lock(c) ==
  /\ pc[c] = "create" /\ mu = None
  /\ mu' = c
  /\ Goto(c, "adding")
  /\ UNCHANGED <<gitVars, ctx, treeVars, checkVars, answer, cleanupVars>>

\* How far `git worktree add -b` gets: the branch, the registration, the
\* directory. It is killed with the call, or fails half way by itself.
Parts == {"branch", "worktree", "dir"}
Far(c) == IF ctx[c] = "dead" \/ "git" \in Faults
            THEN {{}, {"branch"}, {"branch", "worktree"}, Parts} ELSE {Parts}

UnlockOnSuccess(c, ok) == mu' = IF ok THEN None ELSE mu
Unlock(c, ok) == mu' = None

\* The error of a call that is given up wins over git's success.
Add(c) ==
  /\ pc[c] = "adding"
  /\ \E far \in Far(c), inTime \in BOOLEAN :
       LET ok == far = Parts /\ Trusted(c, inTime) IN
       /\ inTime \/ "git" \in Faults
       /\ branches'   = branches   \cup {x \in {c} : "branch" \in far}
       /\ registered' = registered \cup {x \in {c} : "worktree" \in far}
       /\ dirs'       = dirs       \cup {x \in {c} : "dir" \in far}
       /\ Unlock(c, ok)
       /\ IF ok THEN Goto(c, "apply") /\ held' = held \cup {c} /\ UNCHANGED answer
                ELSE Goto(c, "done") /\ Refuse(c) /\ UNCHANGED held
  /\ UNCHANGED <<ctx, ops, applied, extra, checkVars, cleanupVars>>

-----------------------------------------------------------------------------
(* implementor.Apply *)

\* One operation after the other; a refusal leaves those before it applied.
Apply(c) ==
  /\ pc[c] = "apply"
  /\ IF ops[c] = "fits"
       THEN applied' = [applied EXCEPT ![c] = "all"] /\ Goto(c, "detect") /\ UNCHANGED answer
       ELSE /\ \E some \in {"none", "some"} : applied' = [applied EXCEPT ![c] = some]
            /\ Goto(c, "remove") /\ Refuse(c)
  /\ UNCHANGED <<gitVars, mu, ctx, ops, extra, held, checkVars, cleanupVars>>

-----------------------------------------------------------------------------
(* verification: AutoRunner and runCheck. *)

\* A result: the check ran and passed; passed, with a note that there was
\* nothing to run; was not run, with a note; a manifest that does not parse;
\* the check ran and failed; or it was cut off or could not be started.
ResultKinds == {"passed", "empty", "skipped", "manifest", "failed", "unrun"}
PassedResults == {"passed", "empty", "skipped"}
NotedResults  == {"empty", "skipped"}

\* What detection may find of a stack.
Findings(s) == {"absent", "usable", "no tool"}
               \cup (IF s = "node" THEN {"no script", "broken"} ELSE {})

\* A check is judged by its exit code; gofmt by its output too; pytest has an
\* exit code, and go test an output, that means there was nothing to run.
Preset(s) == CASE s = "go" -> <<"lists", "plain", "noting">>
               [] s = "python" -> <<"tolerant">>
               [] OTHER -> <<"plain">>

NoteOf(finding) == CASE finding = "broken" -> {"manifest"}
                     [] finding \in {"no tool", "no script"} -> {"skipped"}
                     [] OTHER -> {}

ChecksOf(found, s) == IF s \in DOMAIN found /\ found[s] = "usable" THEN Preset(s) ELSE <<>>

\* The checks of every stack that can be used, in the order detect looks for them.
PlanOf(found) ==
  ChecksOf(found, "go") \o ChecksOf(found, "node")
    \o ChecksOf(found, "python") \o ChecksOf(found, "rust")

\* A repository in which nothing was recognised gets a note of its own.
NotesUnlessBare(found) == UNION {NoteOf(found[s]) : s \in DOMAIN found}
NotesOf(found) ==
  IF \A s \in DOMAIN found : found[s] = "absent"
    THEN {"skipped"}
    ELSE UNION {NoteOf(found[s]) : s \in DOMAIN found}

\* The checkout is looked at after the operations were applied to it.
Detect(c) ==
  /\ pc[c] = "detect"
  /\ \E found \in [Stacks[c] -> UNION {Findings(s) : s \in Stacks[c]}] :
       /\ \A s \in Stacks[c] : found[s] \in Findings(s)
       /\ plan' = [plan EXCEPT ![c] = PlanOf(found)]
       /\ results' = [results EXCEPT ![c] = NotesOf(found)]
  /\ Goto(c, "check")
  /\ UNCHANGED <<gitVars, mu, ctx, treeVars, ran, sound, ended, answer, cleanupVars>>

StartCheck(c) ==
  /\ pc[c] = "check" /\ plan[c] # <<>> /\ ctx[c] = "live"
  /\ Goto(c, "running")
  /\ UNCHANGED <<gitVars, mu, ctx, treeVars, checkVars, answer, cleanupVars>>

\* How the process of a check of each kind may end.
Exits(kind) == {"zero", "other"} \cup (IF kind = "lists" THEN {"zero with output"} ELSE {})
                                 \cup (IF kind = "tolerant" THEN {"nothing to run"} ELSE {})
                                 \cup (IF kind = "noting" THEN {"zero without tests"} ELSE {})

Judged(exit) == CASE exit = "zero" -> "passed"
                  [] exit \in {"nothing to run", "zero without tests"} -> "empty"
                  [] OTHER -> "failed"

\* Each check is run once, whatever came of those before it.
Remaining(checks, exit) == Tail(checks)

\* A killed process is a failed check, and so is one whose result came after
\* the call was given up. Checks run the code of the repository, which may
\* write files.
EndCheck(c) ==
  /\ pc[c] = "running"
  /\ \E exit \in Exits(Head(plan[c])) \cup {"killed"}, inTime \in BOOLEAN, wrote \in BOOLEAN :
       /\ exit = "killed" => ~Trusted(c, inTime)
       /\ wrote => "writes" \in Faults
       /\ results' = [results EXCEPT ![c] =
                        @ \cup {IF Trusted(c, inTime) THEN Judged(exit) ELSE "unrun"}]
       /\ sound' = [sound EXCEPT ![c] = @ /\ Judged(exit) # "failed" /\ inTime]
       /\ extra' = [extra EXCEPT ![c] = @ \/ wrote]
       /\ plan' = [plan EXCEPT ![c] = Remaining(@, exit)]
  /\ ran' = [ran EXCEPT ![c] = @ + 1]
  /\ Goto(c, "check")
  /\ UNCHANGED <<gitVars, mu, ctx, ops, applied, held, ended, answer, cleanupVars>>

\* No further check is started for a call that was given up, and that is an
\* error; the report has what there is.
EndChecks(c) ==
  /\ pc[c] = "check" /\ (plan[c] = <<>> \/ ctx[c] = "dead")
  /\ ended' = [ended EXCEPT ![c] = plan[c] # <<>>]
  /\ Goto(c, "diff")
  /\ UNCHANGED <<gitVars, mu, ctx, treeVars, plan, ran, results, sound, answer, cleanupVars>>

-----------------------------------------------------------------------------
(* The answer, and the cleanup that is deferred until after it. *)

PassedByReport(c) == results[c] \subseteq PassedResults
Passed(c) == ~ended[c] /\ results[c] \subseteq PassedResults

\* The diff is best effort: two git commands under the call's context.
Answer(c) ==
  /\ pc[c] = "diff"
  /\ \E read \in BOOLEAN :
       /\ read => ctx[c] = "live"
       /\ read \/ ctx[c] = "dead" \/ "git" \in Faults
       /\ answer' = [answer EXCEPT ![c] =
            [error   |-> FALSE,
             passed  |-> Passed(c),
             noted   |-> results[c] \cap NotedResults # {},
             failed  |-> ~ended[c] /\ ~(results[c] \subseteq PassedResults),
             changes |-> IF read THEN [extra |-> extra[c]] ELSE None]]
  /\ Goto(c, "remove")
  /\ UNCHANGED <<gitVars, mu, ctx, treeVars, checkVars, cleanupVars>>

\* Cleanup has a context of its own: that the call was given up does not
\* matter to it.
CleanupOnCallContext(c) == ctx[c] = "live"
CleanupMayRun(c) == TRUE

\* A git command of the cleanup of c works, or fails: by itself, or because it
\* may not run.
Works(c) == CleanupMayRun(c) /\ UNCHANGED broke
Fails(c) == \/ ~CleanupMayRun(c) /\ UNCHANGED broke
            \/ "git" \in Faults /\ broke' = broke \cup {c}

Report(c) == reported' = reported \cup {c}

\* git worktree remove; if that fails, the directory is removed without git.
Remove(c) ==
  /\ pc[c] = "remove"
  /\ \/ /\ Works(c)
        /\ dirs' = dirs \ {c} /\ registered' = registered \ {c}
        /\ Goto(c, "branch")
        /\ UNCHANGED reported
     \/ /\ Fails(c)
        /\ \/ dirs' = dirs \ {c} /\ UNCHANGED reported
           \/ "rm" \in Faults /\ Report(c) /\ UNCHANGED dirs
        /\ Goto(c, "prune")
        /\ UNCHANGED registered
  /\ UNCHANGED <<branches, mu, ctx, treeVars, checkVars, answer>>

\* git worktree prune forgets every worktree without a directory.
StaleOrNot == registered
Stale == registered \ dirs

Prune(c) ==
  /\ pc[c] = "prune"
  /\ \/ Works(c) /\ registered' = registered \ Stale /\ UNCHANGED reported
     \/ Fails(c) /\ Report(c) /\ UNCHANGED registered
  /\ Goto(c, "branch")
  /\ UNCHANGED <<dirs, branches, mu, ctx, treeVars, checkVars, answer>>

\* git branch -D, which refuses a branch that a worktree still has.
DeleteBranch(c) ==
  /\ pc[c] = "branch"
  /\ \/ Works(c) /\ c \notin registered /\ branches' = branches \ {c} /\ UNCHANGED reported
     \/ Works(c) /\ c \in registered /\ Report(c) /\ UNCHANGED branches
     \/ Fails(c) /\ Report(c) /\ UNCHANGED branches
  /\ Goto(c, "done")
  /\ UNCHANGED <<dirs, registered, mu, ctx, treeVars, checkVars, answer>>

-----------------------------------------------------------------------------
CallStep(c) ==
  \/ Ask(c) \/ Lock(c) \/ Add(c) \/ Apply(c)
  \/ Detect(c) \/ StartCheck(c) \/ EndCheck(c) \/ EndChecks(c)
  \/ Answer(c) \/ Remove(c) \/ Prune(c) \/ DeleteBranch(c)

\* Every call has returned, and nothing need happen.
AllDone == (\A c \in Calls : pc[c] = "done") /\ UNCHANGED vars

Next == AllDone \/ \E c \in Calls : CallStep(c) \/ GiveUp(c)

Spec == Init /\ [][Next]_vars

\* Every command ends, by itself or by its timeout, and the mutex is handed to
\* whoever waits for it.
FairSpec == Spec /\ \A c \in Calls : WF_vars(CallStep(c)) /\ SF_vars(Lock(c))
-----------------------------------------------------------------------------
\* The range of every variable of the gate.
TypeOK ==
  /\ dirs \subseteq Calls /\ registered \subseteq Calls /\ branches \subseteq Calls
  /\ mu \in Calls \cup {None}
  /\ pc \in [Calls -> {"start", "create", "adding", "apply", "detect", "check", "running",
                       "diff", "remove", "prune", "branch", "done"}]
  /\ ctx \in [Calls -> {"live", "dead"}]
  /\ ops \in [Calls -> Requests] /\ applied \in [Calls -> {"none", "some", "all"}]
  /\ extra \in [Calls -> BOOLEAN] /\ held \subseteq Calls
  /\ broke \subseteq Calls /\ reported \subseteq Calls
  /\ plan \in [Calls -> Seq({"lists", "plain", "tolerant", "noting"})] /\ ran \in [Calls -> 0..6]
  /\ results \in [Calls -> SUBSET ResultKinds]
  /\ sound \in [Calls -> BOOLEAN] /\ ended \in [Calls -> BOOLEAN]
  /\ answer \in [Calls -> {None} \cup Answers]

Answered(c) == answer[c] # None /\ ~answer[c].error

\* What passed was verified: every operation of the request is in the checkout,
\* every check that was detected there ran to its end and was content, and if
\* there was none to run the answer says so in a note. Giving the call up at
\* any point, a killed check, a missing tool or a refused operation never
\* yields a pass.
PassedMeansChecked ==
  \A c \in Calls : Answered(c) /\ answer[c].passed =>
    /\ applied[c] = "all"
    /\ plan[c] = <<>> /\ sound[c]
    /\ ran[c] = 0 => answer[c].noted

\* What Create returned is gone when the call is: directory, registration and
\* branch. Giving the call up takes nothing from that; where git or the file
\* system failed the cleanup, what is left was reported.
LeftoversAreReported ==
  \A c \in held : pc[c] = "done" =>
    c \in broke \cap reported \/ c \notin (dirs \cup registered \cup branches)

\* While a call works in its checkout, the cleanup of other calls takes
\* neither its directory nor its branch nor its registration away.
CheckoutStays ==
  \A c \in Calls :
    pc[c] \in {"apply", "detect", "check", "running", "diff", "remove"} =>
      c \in dirs \cap registered \cap branches

\* Every call returns: none keeps the mutex, and none waits for it for ever.
CallsReturn == \A c \in Calls : <>(pc[c] = "done")

-----------------------------------------------------------------------------
(* What a caller sees of its call, and of no other. *)

StageOf(c) ==
  CASE pc[c] \in {"start", "create", "adding"} -> "asked"
    [] pc[c] \in {"apply", "detect", "check", "running", "diff"} -> "working"
    [] pc[c] \in {"remove", "prune", "branch"} -> "leaving"
    [] OTHER -> "returned"

WorkOf(c) ==
  CASE applied[c] # "all" -> "unready"
    [] applied[c] = "all" /\ ~sound[c] -> "spoiled"
    [] applied[c] = "all" /\ sound[c] /\ ran[c] = 0 -> "ready"
    [] OTHER -> "content"

VerdictOf(c) ==
  IF answer[c] = None THEN None
  ELSE IF answer[c].error THEN "error"
  ELSE IF answer[c].passed THEN IF answer[c].noted THEN "noted" ELSE "passed"
  ELSE IF answer[c].failed THEN "failed" ELSE "unfinished"

\* The branch is the first that git makes and the last it takes away.
CheckoutOf(c) ==
  IF c \in dirs \cap registered \cap branches THEN "whole"
  ELSE IF c \in dirs \cup registered \cup branches THEN "remains" ELSE "none"

Contract == INSTANCE GateContract WITH
  stage    <- [c \in Calls |-> StageOf(c)],
  work     <- [c \in Calls |-> WorkOf(c)],
  verdict  <- [c \in Calls |-> VerdictOf(c)],
  checkout <- [c \in Calls |-> CheckoutOf(c)],
  told     <- reported

\* Calls share a repository, its registrations and a mutex, and their prunes clear
\* up after each other; to its caller each is alone. It works in a whole checkout of
\* its own, its answer is given once, was earned, and stands, and it returns when
\* its checkout is gone or an error was logged (Gate.Verify, Manager.Cleanup).
ImplementsContract == Contract!Promises

-----------------------------------------------------------------------------
(* What comments of the repository say and the code does not do. *)

\* The diff in the answer is the diff of the operations, and of nothing else.
DiffIsWhatWasApplied ==
  \A c \in Calls : Answered(c) /\ answer[c].changes # None => ~answer[c].changes.extra

\* A report that a check failed is about a check that ran to its end.
FailedMeansRan ==
  \A c \in Calls : Answered(c) /\ answer[c].failed => results[c] \cap {"failed", "manifest"} # {}

\* Nothing is left of a call that returned, however it returned, unless its
\* cleanup said so.
NothingIsLeft ==
  \A c \in Calls : pc[c] = "done" => c \in reported \/ c \notin (dirs \cup registered \cup branches)
=============================================================================
