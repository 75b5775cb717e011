----------------------------- MODULE GateContract ----------------------------
(***************************************************************************)
(* What the gate promises whoever calls it (the package comment of         *)
(* mcpserver, "A call is a question, not a job"): calls in flight at the   *)
(* same time do not meet.  Each has a checkout of its own for as long as   *)
(* it works, is answered once, passes only what was checked, and returns   *)
(* when its checkout is gone or it was said that it is not.  Gate has the  *)
(* mutex and the git repository that the calls share.                      *)
(***************************************************************************)
CONSTANTS Calls, None

VARIABLES
  stage,     \* call -> "asked", "working", "leaving" or "returned"
  work,      \* call -> how far its question is answered
  verdict,   \* call -> its answer, None as long as it has none
  checkout,  \* call -> "none", "whole", or what "remains" of one
  told       \* calls whose cleanup was said to have failed

callVars == <<stage, work, verdict, checkout, told>>

\* Operations are applied, then checks are run; one that is not content spoils
\* all of it.
Leads(from, to) ==
  \/ to \in {from, "spoiled"}
  \/ <<from, to>> \in {<<"unready", "ready">>, <<"ready", "content">>}

\* A pass is one of checks that ran, or says that there was none to run.
Earned(v, w) ==
  /\ v = "passed" => w = "content"
  /\ v = "noted"  => w \in {"ready", "content"}

Start ==
  \A c \in Calls : /\ stage[c] = "asked" /\ work[c] = "unready" /\ verdict[c] = None
                   /\ checkout[c] = "none" /\ c \notin told

Unsaid(c) == c \in told' <=> c \in told

\* No report: the request is not one, or git cannot make the checkout. What git
\* made until it was killed is nobody's.
Refuse(c) ==
  /\ stage[c] = "asked" /\ stage'[c] = "returned"
  /\ verdict'[c] = "error"
  /\ work'[c] = work[c] /\ Unsaid(c)

Open(c) ==
  /\ stage[c] = "asked" /\ stage'[c] = "working"
  /\ checkout[c] = "none" /\ checkout'[c] = "whole"
  /\ work'[c] = work[c] /\ verdict'[c] = verdict[c] /\ Unsaid(c)

Work(c) ==
  /\ stage[c] = "working" /\ stage'[c] = "working"
  /\ Leads(work[c], work'[c])
  /\ checkout[c] = "whole" /\ checkout'[c] = "whole"
  /\ verdict'[c] = verdict[c] /\ Unsaid(c)

Conclude(c) ==
  /\ stage[c] = "working" /\ stage'[c] = "leaving"
  /\ verdict[c] = None
  /\ verdict'[c] \in {"error", "passed", "noted", "failed", "unfinished"}
  /\ Earned(verdict'[c], work[c])
  /\ work'[c] = work[c]
  /\ checkout[c] = "whole" /\ checkout'[c] = "whole" /\ Unsaid(c)

\* The checkout goes, in steps, and the answer does not change with it.
Leave(c) ==
  /\ stage[c] = "leaving" /\ stage'[c] \in {"leaving", "returned"}
  /\ verdict'[c] = verdict[c] /\ work'[c] = work[c]
  /\ \/ checkout'[c] = checkout[c]
     \/ checkout[c] # "none" /\ checkout'[c] \in {"remains", "none"}
  /\ c \in told => c \in told'
  /\ stage'[c] = "returned" => checkout'[c] = "none" \/ c \in told'

Keeps(c) ==
  /\ stage'[c] = stage[c] /\ work'[c] = work[c] /\ verdict'[c] = verdict[c]
  /\ checkout'[c] = checkout[c] /\ Unsaid(c)

\* One call at a time, and the others do not notice.
Next ==
  \E c \in Calls :
    /\ Refuse(c) \/ Open(c) \/ Work(c) \/ Conclude(c) \/ Leave(c)
    /\ \A d \in Calls \ {c} : Keeps(d)

Promises == Start /\ [][Next]_callVars
=============================================================================
