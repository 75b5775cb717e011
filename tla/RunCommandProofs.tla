-------------------------- MODULE RunCommandProofs ---------------------------
(***************************************************************************)
(* Proofs about RunCommand.  A `rojo run` that has its address to itself   *)
(* is never turned away by the limiter, for every burst and rate that are  *)
(* large enough: the burst pays for the requests made once, and each nap   *)
(* for the two that follow it.  And whatever the burst, the exit code is   *)
(* true of the job and the patch handed over is its last one: what the     *)
(* client heard was so when it was said, and an end is never taken back.   *)
(* The last section is about the server's side of it, RateLimiter.         *)
(***************************************************************************)
EXTENDS RunCommand, RateLimiter, TLAPS

\* The defaults: a burst of 30, and a nap of 400 ms against a token every 200 ms.
BurstIsEnough == Burst >= 5
RateIsEnough  == PollTicks >= 2 * RefillTicks

\* What the client may yet spend on a cancellation.
Reserve(c) == IF c = "asked" THEN 0 ELSE RefillTicks

\* With t tokens and w ticks of sleep left, the client at p can pay for what it
\* asks until its next nap is over, its fetch and its cancellation included.
Enough(p, c, t, w) ==
  /\ p = "create" => t >= 5 * RefillTicks
  /\ p = "events" => t >= 3 * RefillTicks + Reserve(c)
  /\ p = "status" => t >= 2 * RefillTicks + Reserve(c)
  /\ p = "sleep"  => /\ t >= RefillTicks + Reserve(c)
                     /\ t + w >= 3 * RefillTicks + Reserve(c)
  /\ p = "diff"   => t >= RefillTicks + Reserve(c)
  /\ p = "apply"  => t >= Reserve(c)

Places == {"create", "events", "status", "sleep", "diff", "apply", "exit"}

Types ==
  /\ tokens \in Int /\ tokens <= Full
  /\ wake \in Int /\ wake >= 0
  /\ pc \in Places
  /\ ctl \in {"none", "waiting", "asked"}

\* Until its job is submitted the client asks for no cancellation.
Listening ==
  /\ ctl = "none" => pc \in {"create", "exit"}
  /\ pc = "create" => ctl = "none"

LoneIsSolvent ==
  ~setup.shared => ~throttled /\ Enough(pc, ctl, tokens, wake)

IInv == Types /\ Listening /\ LoneIsSolvent
-----------------------------------------------------------------------------
\* A full bucket pays for everything (arithmetic of the assumptions).
LEMMA FullIsEnough ==
  ASSUME BurstIsEnough
  PROVE  Full \in Int /\ Full >= 5 * RefillTicks
<1>1. Burst \in Int /\ RefillTicks \in Int /\ RefillTicks >= 1 /\ Burst >= 5
  BY RunCommandAssumption DEF BurstIsEnough
<1>2. Burst * RefillTicks >= 5 * RefillTicks
  BY <1>1
<1>. QED  BY <1>1, <1>2 DEF Full

\* A client with a full bucket can pay, wherever it is (Enough).
LEMMA FullPays ==
  ASSUME NEW t \in Int, t >= 5 * RefillTicks, NEW p, NEW c, NEW w \in Int, w >= 0
  PROVE  Enough(p, c, t, w)
<1>1. RefillTicks \in Int /\ RefillTicks >= 1
  BY RunCommandAssumption
<1>. QED  BY <1>1 DEF Enough, Reserve

\* A client that is gone owes nothing (Enough).
LEMMA GoneOwesNothing ==
  ASSUME NEW c, NEW t, NEW w
  PROVE  Enough("exit", c, t, w)
BY DEF Enough

\* A request on the main path is affordable, and what is left pays for the step
\* after it (Enough along cmdRun's requests).
LEMMA PathIsPaid ==
  ASSUME NEW t \in Int, NEW w \in Int, w >= 0, NEW c \in {"none", "waiting", "asked"}
  PROVE  /\ Enough("create", c, t, w)
              => t >= RefillTicks /\ Enough("events", "waiting", t - RefillTicks, w)
         /\ Enough("events", c, t, w)
              => t >= RefillTicks /\ Enough("status", c, t - RefillTicks, w)
         /\ Enough("status", c, t, w)
              => /\ t >= RefillTicks
                 /\ Enough("diff", c, t - RefillTicks, w)
                 /\ RateIsEnough => Enough("sleep", c, t - RefillTicks, PollTicks)
         /\ Enough("sleep", c, t, 0) => Enough("events", c, t, 0)
         /\ Enough("diff", c, t, w)
              => t >= RefillTicks /\ Enough("apply", c, t - RefillTicks, w)
<1>1. RefillTicks \in Int /\ RefillTicks >= 1 /\ PollTicks \in Int
  BY RunCommandAssumption
<1>. QED  BY <1>1 DEF Enough, Reserve, RateIsEnough

\* The cancellation is affordable wherever the client is, once, and takes nothing
\* from the main path (Enough).
LEMMA CancelIsPaid ==
  ASSUME NEW t \in Int, NEW w \in Int, w >= 0,
         NEW p \in Places \ {"create", "exit"}, Enough(p, "waiting", t, w)
  PROVE  /\ t >= RefillTicks
         /\ Enough(p, "asked", t - RefillTicks, w)
         /\ Enough(p, "asked", t, w)
<1>1. RefillTicks \in Int /\ RefillTicks >= 1
  BY RunCommandAssumption
<1>. QED  BY <1>1 DEF Enough, Reserve, Places

\* Time takes nothing (Enough along Tick).
LEMMA TimePays ==
  ASSUME NEW t \in Int, NEW w \in Int, w >= 0, NEW p, NEW c, Enough(p, c, t, w),
         BurstIsEnough
  PROVE  /\ w > 0 => Enough(p, c, t + 1, w - 1)
         /\ Enough(p, c, t + 1, w)
         /\ w > 0 => Enough(p, c, Full, w - 1)
         /\ Enough(p, c, Full, w)
<1>1. RefillTicks \in Int /\ RefillTicks >= 1
  BY RunCommandAssumption
<1>2. Enough(p, c, t + 1, w) /\ (w > 0 => Enough(p, c, t + 1, w - 1))
  BY <1>1 DEF Enough, Reserve
<1>3. Enough(p, c, Full, w) /\ (w > 0 => Enough(p, c, Full, w - 1))
  BY FullIsEnough, FullPays
<1>. QED  BY <1>2, <1>3

\* The chain takes a token of a client that has one, or none; it turns no such
\* client away (Chain).
LEMMA ChainCharges ==
  ASSUME NEW a \in Answers, Chain(a), tokens \in Int, tokens >= RefillTicks
  PROVE  /\ throttled' = throttled
         /\ tokens' = tokens \/ tokens' = tokens - RefillTicks
         /\ a = "served" => tokens' = tokens - RefillTicks
<1>1. RefillTicks \in Int /\ ~(tokens < RefillTicks)
  BY RunCommandAssumption
<1>. QED  BY <1>1 DEF Chain, Answers, limitVars

\* The chain never gives a token (Chain).
LEMMA ChainTypes ==
  ASSUME NEW a \in Answers, Chain(a), tokens \in Int, tokens <= Full, Full \in Int
  PROVE  tokens' \in Int /\ tokens' <= Full
<1>1. RefillTicks \in Int /\ RefillTicks >= 1
  BY RunCommandAssumption
<1>2. tokens' = tokens \/ tokens' = tokens - RefillTicks
  BY DEF Chain, limitVars
<1>3. tokens - RefillTicks \in Int /\ tokens - RefillTicks <= Full
  BY <1>1
<1>. QED  BY <1>2, <1>3
-----------------------------------------------------------------------------
\* It holds at the start: the bucket is full (Init).
LEMMA InitIInv ==
  ASSUME BurstIsEnough, Init
  PROVE  IInv
<1>1. tokens = Full /\ wake = 0 /\ pc = "create" /\ ctl = "none" /\ ~throttled
  BY DEF Init
<1>2. Full \in Int /\ Full >= 5 * RefillTicks
  BY FullIsEnough
<1>3. Enough(pc, ctl, tokens, wake)
  <2>1. Enough("create", "none", Full, 0)
    BY <1>2, FullPays
  <2>. QED  BY <2>1, <1>1
<1>. QED  BY <1>1, <1>2, <1>3 DEF IInv, Types, Places, Listening, LoneIsSolvent

\* A request of the main path: the chain lets it pass and charges it (Chain).
LEMMA PathStep ==
  ASSUME BurstIsEnough, IInv, NEW a \in Answers, Chain(a), NEW q \in Places,
         ~setup.shared => tokens >= RefillTicks,
         setup' = setup, ctl' \in {ctl, "waiting"}, q # "create", ctl = "none" => q = "exit" \/ ctl' # "none",
         wake' \in Int, wake' >= 0, pc' = q,
         \/ q = "exit"
         \/ /\ a = "served"
            /\ ~setup.shared => Enough(q, ctl', tokens - RefillTicks, wake')
  PROVE  IInv'
<1>1. tokens' \in Int /\ tokens' <= Full
  BY ChainTypes, FullIsEnough DEF IInv, Types
<1>2. Types'
  BY <1>1 DEF IInv, Types, Full
<1>3. Listening'
  BY DEF IInv, Types, Listening
<1>4. ASSUME ~setup.shared
      PROVE  ~throttled' /\ Enough(pc', ctl', tokens', wake')
  <2>1. throttled' = throttled /\ (a = "served" => tokens' = tokens - RefillTicks)
    BY <1>4, ChainCharges DEF IInv, Types
  <2>2. ~throttled
    BY <1>4 DEF IInv, LoneIsSolvent
  <2>3. CASE q = "exit"
    BY <2>1, <2>2, <2>3, GoneOwesNothing
  <2>4. CASE a = "served" /\ Enough(q, ctl', tokens - RefillTicks, wake')
    BY <2>1, <2>2, <2>4
  <2>. QED  BY <2>3, <2>4, <1>4
<1>. QED  BY <1>2, <1>3, <1>4 DEF IInv, LoneIsSolvent

\* A step that spends nothing and asks nothing of the limiter, after which the
\* client is where it was, or gone, or past a fetch it need not repeat.
LEMMA QuietStep ==
  ASSUME IInv, UNCHANGED <<setup, limitVars, ctl, wake>>, pc' \in {pc, "exit"}
  PROVE  IInv'
<1>1. Types' /\ Listening'
  BY DEF IInv, Types, Listening, limitVars, Places, Full
<1>2. ASSUME ~setup.shared
      PROVE  ~throttled' /\ Enough(pc', ctl', tokens', wake')
  <2>1. ~throttled /\ Enough(pc, ctl, tokens, wake)
    BY <1>2 DEF IInv, LoneIsSolvent
  <2>2. throttled' = throttled /\ tokens' = tokens
    BY DEF limitVars
  <2>. QED  BY <2>1, <2>2, GoneOwesNothing
<1>. QED  BY <1>1, <1>2 DEF IInv, LoneIsSolvent

\* The steps of cmdRun keep it (the actions of CmdRun).
LEMMA CmdRunIInv ==
  ASSUME BurstIsEnough, RateIsEnough, IInv, CmdRun
  PROVE  IInv'
<1>. USE DEF envVars, jobVars, limitVars, signalVars
<1>0. /\ tokens \in Int /\ wake \in Int /\ wake >= 0 /\ PollTicks \in Int /\ PollTicks >= 0
      /\ ctl \in {"none", "waiting", "asked"}
      /\ ~setup.shared => Enough(pc, ctl, tokens, wake)
  BY RunCommandAssumption DEF IInv, Types, LoneIsSolvent
<1>1. CASE Create
  <2>1. PICK a \in Answers :
           /\ Chain(a)
           /\ \/ a = "served" /\ pc' = "events" /\ ctl' = "waiting" /\ wake' = wake
              \/ pc' = "exit" /\ ctl' = ctl /\ wake' = wake
    BY <1>1 DEF Create, GiveUpOn, Exit, Handled
  <2>2. pc = "create" /\ setup' = setup
    BY <1>1 DEF Create
  <2>3. ~setup.shared => /\ tokens >= RefillTicks
                         /\ Enough("events", "waiting", tokens - RefillTicks, wake)
    BY <1>0, <2>2, PathIsPaid
  <2>4. CASE a = "served" /\ pc' = "events" /\ ctl' = "waiting" /\ wake' = wake
    BY <1>0, <2>1, <2>2, <2>3, <2>4, PathStep DEF Places
  <2>5. CASE pc' = "exit" /\ ctl' = ctl /\ wake' = wake
    BY <1>0, <2>1, <2>2, <2>3, <2>5, PathStep DEF Places
  <2>. QED  BY <2>1, <2>4, <2>5
<1>2. CASE PollEvents
  <2>1. PICK a \in Answers :
           /\ Chain(a) /\ wake' = wake
           /\ (a = "served" /\ pc' = "status") \/ pc' = "exit"
    BY <1>2 DEF PollEvents, GiveUpOn, Exit
  <2>2. pc = "events" /\ setup' = setup /\ ctl' = ctl
    BY <1>2 DEF PollEvents
  <2>3. ~setup.shared => /\ tokens >= RefillTicks
                         /\ Enough("status", ctl, tokens - RefillTicks, wake)
    BY <1>0, <2>2, PathIsPaid
  <2>4. ctl # "none"
    BY <2>2 DEF IInv, Listening
  <2>5. CASE pc' = "status" /\ a = "served"
    BY <1>0, <2>1, <2>2, <2>3, <2>4, <2>5, PathStep DEF Places
  <2>6. CASE pc' = "exit"
    BY <1>0, <2>1, <2>2, <2>3, <2>4, <2>6, PathStep DEF Places
  <2>. QED  BY <2>1, <2>5, <2>6
<1>3. CASE PollStatus
  <2>1. PICK a \in Answers :
           /\ Chain(a)
           /\ \/ a = "served" /\ pc' = "diff" /\ wake' = wake
              \/ a = "served" /\ pc' = "sleep" /\ wake' = PollTicks
              \/ pc' = "exit" /\ wake' = wake
    BY <1>3 DEF PollStatus, GiveUpOn, Exit, Nap
  <2>2. pc = "status" /\ setup' = setup /\ ctl' = ctl
    BY <1>3 DEF PollStatus
  <2>3. ~setup.shared => /\ tokens >= RefillTicks
                         /\ Enough("diff", ctl, tokens - RefillTicks, wake)
                         /\ Enough("sleep", ctl, tokens - RefillTicks, PollTicks)
    BY <1>0, <2>2, PathIsPaid
  <2>4. ctl # "none"
    BY <2>2 DEF IInv, Listening
  <2>5. CASE a = "served" /\ pc' = "diff" /\ wake' = wake
    BY <1>0, <2>1, <2>2, <2>3, <2>4, <2>5, PathStep DEF Places
  <2>6. CASE a = "served" /\ pc' = "sleep" /\ wake' = PollTicks
    BY <1>0, <2>1, <2>2, <2>3, <2>4, <2>6, PathStep DEF Places
  <2>7. CASE pc' = "exit" /\ wake' = wake
    BY <1>0, <2>1, <2>2, <2>3, <2>4, <2>7, PathStep DEF Places
  <2>. QED  BY <2>1, <2>5, <2>6, <2>7
<1>4. CASE Wake
  <2>1. /\ pc = "sleep" /\ wake = 0 /\ pc' = "events"
        /\ setup' = setup /\ ctl' = ctl /\ wake' = wake
        /\ tokens' = tokens /\ throttled' = throttled
    BY <1>4 DEF Wake
  <2>2. Types' /\ Listening'
    BY <2>1 DEF IInv, Types, Listening, Places, Full
  <2>3. ASSUME ~setup.shared
        PROVE  ~throttled' /\ Enough(pc', ctl', tokens', wake')
    <3>1. Enough("events", ctl, tokens, 0)
      BY <1>0, <2>1, <2>3, PathIsPaid
    <3>. QED  BY <2>1, <2>3, <3>1 DEF IInv, LoneIsSolvent
  <2>. QED  BY <2>1, <2>2, <2>3 DEF IInv, LoneIsSolvent
<1>5. CASE FetchDiff
  <2>1. PICK a \in Answers :
           /\ Chain(a)
           /\ (a = "served" /\ pc' = "apply") \/ pc' = "exit"
    BY <1>5 DEF FetchDiff, Exit
  <2>2. pc = "diff" /\ setup' = setup /\ ctl' = ctl /\ wake' = wake
    BY <1>5 DEF FetchDiff
  <2>3. ~setup.shared => /\ tokens >= RefillTicks
                         /\ Enough("apply", ctl, tokens - RefillTicks, wake)
    BY <1>0, <2>2, PathIsPaid
  <2>4. ctl # "none"
    BY <2>2 DEF IInv, Listening
  <2>5. CASE pc' = "apply" /\ a = "served"
    BY <1>0, <2>1, <2>2, <2>3, <2>4, <2>5, PathStep DEF Places
  <2>6. CASE pc' = "exit"
    BY <1>0, <2>1, <2>2, <2>3, <2>4, <2>6, PathStep DEF Places
  <2>. QED  BY <2>1, <2>5, <2>6
<1>6. CASE Apply
  BY <1>6, QuietStep DEF Apply, Exit
<1>. QED  BY <1>1, <1>2, <1>3, <1>4, <1>5, <1>6 DEF CmdRun
\* The user's steps keep it: one cancellation is paid for (Interrupt, AskToCancel,
\* StopWatching).
LEMMA UserIInv ==
  ASSUME BurstIsEnough, IInv, Interrupt \/ AskToCancel \/ StopWatching
  PROVE  IInv'
<1>. USE DEF envVars, jobVars, limitVars, signalVars
<1>1. CASE Interrupt
  BY <1>1, QuietStep DEF Interrupt, Exit
<1>2. CASE AskToCancel
  <2>1. PICK a \in Answers : Chain(a)
    BY <1>2 DEF AskToCancel
  <2>2. /\ pc # "exit" /\ ctl = "waiting" /\ ctl' = "asked"
        /\ pc' = pc /\ setup' = setup /\ wake' = wake
    BY <1>2 DEF AskToCancel, Up
  <2>3. tokens' \in Int /\ tokens' <= Full
    BY <2>1, ChainTypes, FullIsEnough DEF IInv, Types
  <2>4. Types' /\ Listening'
    BY <2>2, <2>3 DEF IInv, Types, Listening, Full
  <2>5. ASSUME ~setup.shared
        PROVE  ~throttled' /\ Enough(pc', ctl', tokens', wake')
    <3>1. ~throttled /\ Enough(pc, "waiting", tokens, wake)
      BY <2>2, <2>5 DEF IInv, LoneIsSolvent
    <3>2. pc # "create"
      BY <2>2 DEF IInv, Listening
    <3>3. /\ tokens >= RefillTicks
          /\ Enough(pc, "asked", tokens - RefillTicks, wake)
          /\ Enough(pc, "asked", tokens, wake)
      BY <2>2, <3>1, <3>2, CancelIsPaid DEF IInv, Types
    <3>4. throttled' = throttled /\ (tokens' = tokens \/ tokens' = tokens - RefillTicks)
      BY <2>1, <3>3, ChainCharges DEF IInv, Types
    <3>. QED  BY <2>2, <3>1, <3>3, <3>4
  <2>. QED  BY <2>2, <2>4, <2>5 DEF IInv, LoneIsSolvent
<1>3. CASE StopWatching
  BY <1>3, QuietStep DEF StopWatching, Exit
<1>. QED  BY <1>1, <1>2, <1>3

\* The steps of the server and of time keep it (Claim to Tick).
LEMMA ServerIInv ==
  ASSUME BurstIsEnough, IInv,
         Job \/ SavePatch \/ CancelElsewhere \/ Restart \/ Neighbour \/ Tick
  PROVE  IInv'
<1>. USE DEF envVars, jobVars, limitVars, clientVars, signalVars
<1>0. /\ tokens \in Int /\ tokens <= Full /\ wake \in Int /\ wake >= 0
      /\ RefillTicks \in Int /\ RefillTicks >= 1
      /\ Full \in Int /\ Full >= 5 * RefillTicks
      /\ ~setup.shared => ~throttled /\ Enough(pc, ctl, tokens, wake)
  BY RunCommandAssumption, FullIsEnough DEF IInv, Types, LoneIsSolvent
<1>1. CASE Job \/ SavePatch \/ CancelElsewhere
  BY <1>1, QuietStep DEF Job, Claim, Work, Release, SavePatch, CancelElsewhere
<1>2. CASE Restart
  <2>1. /\ tokens' = Full /\ throttled' = throttled /\ setup' = setup
        /\ pc' = pc /\ ctl' = ctl /\ wake' = wake
    BY <1>2 DEF Restart
  <2>2. Types' /\ Listening'
    BY <1>0, <2>1 DEF IInv, Types, Listening, Full
  <2>3. Enough(pc, ctl, Full, wake)
    BY <1>0, FullPays
  <2>. QED  BY <1>0, <2>1, <2>2, <2>3 DEF IInv, LoneIsSolvent
<1>3. CASE Neighbour
  <2>1. /\ setup.shared /\ tokens' = tokens - RefillTicks /\ setup' = setup
        /\ pc' = pc /\ ctl' = ctl /\ wake' = wake
    BY <1>3 DEF Neighbour
  <2>2. tokens - RefillTicks \in Int /\ tokens - RefillTicks <= Full
    BY <1>0
  <2>3. Types' /\ Listening'
    BY <2>1, <2>2 DEF IInv, Types, Listening, Full
  <2>. QED  BY <2>1, <2>3 DEF IInv, LoneIsSolvent
<1>4. CASE Tick
  <2>1. /\ throttled' = throttled /\ setup' = setup /\ pc' = pc /\ ctl' = ctl
        /\ \/ tokens < Full /\ tokens' = tokens + 1
           \/ tokens' = Full
        /\ \/ wake > 0 /\ wake' = wake - 1
           \/ wake = 0 /\ wake' = wake
    BY <1>0, <1>4 DEF Tick
  <2>2. /\ tokens < Full => tokens + 1 \in Int /\ tokens + 1 <= Full
        /\ wake > 0 => wake - 1 \in Int /\ wake - 1 >= 0
    BY <1>0
  <2>3. tokens' \in Int /\ tokens' <= Full /\ wake' \in Int /\ wake' >= 0
    BY <1>0, <2>1, <2>2
  <2>4. Types' /\ Listening'
    BY <2>1, <2>3 DEF IInv, Types, Listening, Full
  <2>5. ASSUME ~setup.shared
        PROVE  Enough(pc', ctl', tokens', wake')
    <3>1. /\ wake > 0 => Enough(pc, ctl, tokens + 1, wake - 1)
          /\ Enough(pc, ctl, tokens + 1, wake)
          /\ wake > 0 => Enough(pc, ctl, Full, wake - 1)
          /\ Enough(pc, ctl, Full, wake)
      BY <1>0, <2>5, TimePays
    <3>. QED  BY <2>1, <3>1
  <2>. QED  BY <1>0, <2>1, <2>4, <2>5 DEF IInv, LoneIsSolvent
<1>. QED  BY <1>1, <1>2, <1>3, <1>4

\* For every burst of five tokens or more, and every nap in which two come back: a
\* `rojo run` alone at its address is never answered 429, whatever its user and the
\* server do (pollInterval, ROJO_RATE_LIMIT_BURST, ROJO_RATE_LIMIT_RPS).
THEOREM LoneClientsAreServed ==
  ASSUME BurstIsEnough, RateIsEnough
  PROVE  Spec => []LoneClientIsServed
<1>1. Init => IInv
  BY InitIInv
<1>2. IInv /\ [Next]_vars => IInv'
  <2>1. ASSUME IInv, UNCHANGED vars
        PROVE  IInv'
    BY <2>1, QuietStep DEF vars, envVars, limitVars, clientVars, signalVars
  <2>. QED  BY <2>1, CmdRunIInv, UserIInv, ServerIInv DEF Next
<1>3. IInv => LoneClientIsServed
  BY DEF IInv, LoneIsSolvent, LoneClientIsServed
<1>. QED  BY <1>1, <1>2, <1>3, PTL DEF Spec
-----------------------------------------------------------------------------
(* What the shell is told, and what the user is handed: the invariant says what *)
(* the client knows of the job at each of its places.                           *)

\* What was heard of an end is so, and it is heard before anything is fetched.
HeardIsSo ==
  /\ heard \in Terminal => record = heard
  /\ pc \in {"create", "events", "status", "sleep"} => heard \notin Terminal
  /\ pc \in {"diff", "apply"} => heard \in Terminal
  /\ pc = "apply" => heard = "completed" /\ got = patch

\* The code and the patch are given on the way out.
ToldOnExit ==
  /\ pc # "exit" => code = None /\ applied = 0
  /\ code = 0 => heard = "completed"
  /\ code = 2 => heard = "cancelled" \/ pressed = 2
  /\ code = 1 => heard = "failed" \/ failed \ {"diff", "cancel"} # {}
  /\ code \in {0, 1, 2} /\ heard \in Terminal /\ "diff" \notin failed /\ pressed < 2
       => patch \in {printed, applied}
  /\ applied # 0 => heard = "completed" /\ applied = patch

ExitInv == HeardIsSo /\ ToldOnExit

\* The statuses at which watch returns are those no job leaves (legalTransitions).
LEMMA EndedIs ==
  /\ Terminal = {"completed", "failed", "cancelled"}
  /\ \A s : Ended(s) <=> s \in Terminal
  /\ \A s \in Terminal : ~IsInterrupted(s) /\ s # "verifying"
  /\ "failed" \in Terminal /\ "queued" \notin Terminal
<1>1. ASSUME NEW s \in {"completed", "failed", "cancelled"} PROVE legalTransitions[s] = {}
  BY <1>1 DEF legalTransitions, JobStatuses
<1>2. ASSUME NEW s \in JobStatuses \ {"completed", "failed", "cancelled"}
      PROVE  "failed" \in legalTransitions[s]
  BY <1>2 DEF legalTransitions, JobStatuses
<1>3. Terminal = {"completed", "failed", "cancelled"}
  BY <1>1, <1>2 DEF Terminal, JobStatuses
<1> QED
  BY <1>3 DEF Ended, IsInterrupted

\* What ends the client where no end was heard: an error of a call, or the user.
LEMMA CmdRunKeepsExit == ASSUME ExitInv, CmdRun PROVE ExitInv'
<1> USE DEF ExitInv, HeardIsSo, ToldOnExit, envVars, jobVars, limitVars, signalVars, None
<1>1. CASE Create
  BY <1>1 DEF Create, GiveUpOn, Exit
<1>2. CASE PollEvents
  BY <1>2 DEF PollEvents, GiveUpOn, Exit
<1>3. CASE PollStatus
  BY <1>3, EndedIs DEF PollStatus, GiveUpOn, Exit
<1>4. CASE Wake
  BY <1>4 DEF Wake
<1>5. CASE FetchDiff
  BY <1>5, EndedIs DEF FetchDiff, ToApply, Exit, CodeOf
<1>6. CASE Apply
  BY <1>6, EndedIs DEF Apply, Exit, CodeOf
<1> QED
  BY <1>1, <1>2, <1>3, <1>4, <1>5, <1>6 DEF CmdRun

\* The server's, the user's and the limiter's steps make nothing untrue that was heard.
LEMMA OthersKeepExit ==
  ASSUME ExitInv, [Next]_vars, ~CmdRun
  PROVE  ExitInv'
<1> USE DEF ExitInv, HeardIsSo, ToldOnExit, envVars, jobVars, limitVars, signalVars, clientVars, None
<1>1. CASE Interrupt
  BY <1>1 DEF Interrupt, Exit, Up, Killed
<1>2. CASE AskToCancel
  BY <1>2 DEF AskToCancel, Up
<1>3. CASE StopWatching
  BY <1>3 DEF StopWatching, Exit, Up
<1>4. CASE Claim \/ Work \/ Release \/ SavePatch \/ CancelElsewhere
  BY <1>4, EndedIs DEF Claim, Work, Release, SavePatch, CancelElsewhere
<1>5. CASE Restart
  BY <1>5, EndedIs DEF Restart
<1>6. CASE Neighbour \/ Tick
  BY <1>6 DEF Neighbour, Tick
<1>7. CASE UNCHANGED vars
  BY <1>7 DEF vars
<1> QED
  BY <1>1, <1>2, <1>3, <1>4, <1>5, <1>6, <1>7 DEF Next, Job

\* It holds from the start, at every step.
LEMMA ExitInvHolds == Spec => []ExitInv
<1>1. Init => ExitInv
  BY RunCommandAssumption DEF Init, ExitInv, HeardIsSo, ToldOnExit, None, Terminal
<1>2. ExitInv /\ [Next]_vars => ExitInv'
  BY CmdRunKeepsExit, OthersKeepExit
<1> QED
  BY <1>1, <1>2, PTL DEF Spec

\* The shell is told how the job ended, or that a call failed, or that its user
\* gave up: never success of a job that did not complete (main.go's last switch).
THEOREM ExitCodesAreTrue == Spec => []ExitCodeIsTrue
<1>1. ExitInv => ExitCodeIsTrue
  BY EndedIs DEF ExitInv, HeardIsSo, ToldOnExit, ExitCodeIsTrue
<1> QED
  BY <1>1, ExitInvHolds, PTL

\* However often a revision overwrites it, the patch a client hands over is the
\* job's last one, and what it applies is a completed job's (cmdRun).
THEOREM LastPatchesAreHandedOver == Spec => []LastPatchIsHandedOver
<1>1. ExitInv => LastPatchIsHandedOver
  BY EndedIs DEF ExitInv, HeardIsSo, ToldOnExit, LastPatchIsHandedOver
<1> QED
  BY <1>1, ExitInvHolds, PTL
-----------------------------------------------------------------------------
\* A job that is in the queue or with a worker has a record, so its moves are moves of a status.
TrackedIsThere == tracked \/ waiting => record \in JobStatuses

RangeInv == TypeOK /\ TrackedIsThere

\* What the chain does to the limiter's part keeps it in range (Chain).
LEMMA ChainKeepsTypes ==
  ASSUME TypeOK, NEW a \in Answers, Chain(a)
  PROVE  tokens' \in 0..Full /\ throttled' \in BOOLEAN
<1>1. RefillTicks \in Nat /\ Full \in Nat
  BY RunCommandAssumption DEF Full
<1>2. tokens' = tokens \/ (tokens >= RefillTicks /\ tokens' = tokens - RefillTicks)
  BY DEF Chain, limitVars, Answers
<1>3. throttled' \in BOOLEAN
  BY DEF Chain, limitVars, TypeOK
<1> HIDE DEF Full
<1> QED
  BY <1>1, <1>2, <1>3 DEF TypeOK

\* An exit code is one of those that main.go has (CodeOf).
LEMMA CodesAre ==
  ASSUME NEW s
  PROVE  CodeOf(s) \in {None, Killed, 0, 1, 2}
BY DEF CodeOf

\* The client's own steps keep every variable in its range.
LEMMA CmdRunTypes == ASSUME RangeInv, CmdRun PROVE RangeInv'
<1> USE DEF RangeInv, TrackedIsThere, envVars, jobVars, limitVars, signalVars, clientVars
<1>0. PollTicks \in Nat /\ PollTicks \in 0..PollTicks /\ "queued" \in JobStatuses
      /\ "failed" \in JobStatuses
  BY RunCommandAssumption DEF JobStatuses
<1>1. ASSUME Create PROVE RangeInv'
  <2>1. tokens' \in 0..Full /\ throttled' \in BOOLEAN
    BY <1>1, ChainKeepsTypes DEF Create
  <2>2. /\ record' \in JobStatuses \/ record' = record
        /\ waiting' \in BOOLEAN
        /\ waiting' = waiting \/ record' \in JobStatuses
        /\ ctl' \in {"none", "waiting", "asked"}
    <3>1. \/ record' = "queued" /\ waiting' = TRUE /\ (ctl' = "waiting" \/ ctl' = ctl)
          \/ record' \in {"failed"} \cup Unwritten("queued") /\ waiting' = waiting /\ ctl' = ctl
          \/ record' = record /\ waiting' = waiting /\ ctl' = ctl
      BY <1>1 DEF Create
    <3>2. {"failed"} \cup Unwritten("queued") \subseteq JobStatuses
      BY <1>0 DEF Unwritten
    <3>3. ctl \in {"none", "waiting", "asked"}
      BY DEF TypeOK
    <3>4. record' \in JobStatuses \/ record' = record
      BY <1>0, <3>1, <3>2
    <3>5. waiting' = waiting \/ record' \in JobStatuses
      BY <1>0, <3>1
    <3>7. waiting' \in BOOLEAN
      BY <3>1 DEF TypeOK
    <3>6. ctl' \in {"none", "waiting", "asked"}
      BY <3>1, <3>3
    <3> QED
      BY <3>4, <3>5, <3>6, <3>7
  <2>3. /\ pc' \in {"create", "events", "status", "sleep", "diff", "apply", "exit"}
        /\ failed' \subseteq {"create", "events", "status", "diff", "apply", "cancel"}
        /\ code' \in {None, Killed, 0, 1, 2}
    BY <1>1 DEF Create, GiveUpOn, Exit, TypeOK
  <2>4. UNCHANGED <<setup, restarts, tracked, stop, round, patch, wake, heard, got, printed,
                    applied, pressed>>
    BY <1>1 DEF Create, GiveUpOn
  <2>5. TypeOK'
    BY <2>1, <2>2, <2>3, <2>4 DEF TypeOK
  <2>6. TrackedIsThere'
    BY <2>2, <2>4
  <2> QED
    BY <2>5, <2>6
<1>2. ASSUME PollEvents \/ PollStatus \/ FetchDiff PROVE RangeInv'
  <2>1. tokens' \in 0..Full /\ throttled' \in BOOLEAN
    BY <1>2, ChainKeepsTypes DEF PollEvents, PollStatus, FetchDiff
  <2>2. wake' \in 0..PollTicks
    BY <1>0, <1>2 DEF PollEvents, PollStatus, FetchDiff, GiveUpOn, Nap, TypeOK
  <2>3. heard' \in JobStatuses \cup {Absent} /\ got' \in Nat /\ printed' \in Nat
    BY <1>2 DEF PollEvents, PollStatus, FetchDiff, GiveUpOn, TypeOK
  <2>4. pc' \in {"create", "events", "status", "sleep", "diff", "apply", "exit"}
    BY <1>2 DEF PollEvents, PollStatus, FetchDiff, GiveUpOn, Exit
  <2>5. failed' \subseteq {"create", "events", "status", "diff", "apply", "cancel"}
    BY <1>2 DEF PollEvents, PollStatus, FetchDiff, GiveUpOn, TypeOK
  <2>6. code' \in {None, Killed, 0, 1, 2}
    BY <1>2, CodesAre DEF PollEvents, PollStatus, FetchDiff, GiveUpOn, Exit, TypeOK
  <2>7. UNCHANGED <<setup, restarts, record, waiting, tracked, stop, round, patch, applied, ctl, pressed>>
    BY <1>2 DEF PollEvents, PollStatus, FetchDiff, GiveUpOn
  <2> QED
    BY <2>1, <2>2, <2>3, <2>4, <2>5, <2>6, <2>7 DEF TypeOK
<1>3. ASSUME Wake PROVE RangeInv'
  BY <1>3 DEF Wake, TypeOK
<1>4. ASSUME Apply PROVE RangeInv'
  BY <1>4, CodesAre DEF Apply, Exit, TypeOK
<1> QED
  BY <1>1, <1>2, <1>3, <1>4 DEF CmdRun

\* What the user does keeps them there.
LEMMA UserTypes ==
  ASSUME RangeInv, Interrupt \/ AskToCancel \/ StopWatching PROVE RangeInv'
<1> USE DEF RangeInv, TrackedIsThere, envVars, jobVars, limitVars, signalVars, clientVars
<1>1. CASE Interrupt
  BY <1>1 DEF Interrupt, Exit, TypeOK
<1>2. CASE AskToCancel
  <2>1. tokens' \in 0..Full /\ throttled' \in BOOLEAN
    BY <1>2, ChainKeepsTypes DEF AskToCancel
  <2>2. /\ stop' \in BOOLEAN
        /\ failed' \subseteq {"create", "events", "status", "diff", "apply", "cancel"}
    BY <1>2 DEF AskToCancel, TypeOK
  <2> QED
    BY <1>2, <2>1, <2>2 DEF AskToCancel, TypeOK
<1>3. CASE StopWatching
  BY <1>3 DEF StopWatching, Exit, TypeOK
<1> QED
  BY <1>1, <1>2, <1>3

\* A job moves from status to status (legalTransitions).
LEMMA MovesAreStatuses ==
  ASSUME NEW s \in JobStatuses, NEW t \in legalTransitions[s]
  PROVE  t \in JobStatuses
BY DEF legalTransitions, JobStatuses

\* What the server, its other clients and time do keeps them there.
LEMMA ServerTypes ==
  ASSUME RangeInv,
         Job \/ SavePatch \/ CancelElsewhere \/ Restart \/ Neighbour \/ Tick
  PROVE  RangeInv'
<1> USE DEF RangeInv, TrackedIsThere, envVars, jobVars, limitVars, signalVars, clientVars
<1>0. RefillTicks \in Nat /\ Full \in Nat /\ PollTicks \in Nat /\ MaxRestarts \in Nat
  BY RunCommandAssumption DEF Full
<1> HIDE DEF Full
<1>1. CASE Claim \/ Release \/ SavePatch \/ CancelElsewhere
  <2>1. /\ waiting' \in BOOLEAN /\ tracked' \in BOOLEAN /\ stop' \in BOOLEAN /\ patch' \in Nat
        /\ UNCHANGED <<envVars, record, round, limitVars, clientVars, signalVars>>
    BY <1>1 DEF Claim, Release, SavePatch, CancelElsewhere, TypeOK
  <2>2. tracked' \/ waiting' => tracked \/ waiting
    BY <1>1 DEF Claim, Release, SavePatch, CancelElsewhere
  <2>3. TypeOK'
    BY <2>1 DEF TypeOK
  <2>4. TrackedIsThere'
    BY <2>1, <2>2
  <2> QED
    BY <2>3, <2>4
<1>2. CASE Work
  <2>1. record' \in JobStatuses
    BY <1>2, MovesAreStatuses DEF Work, Moves
  <2>2. round' \in Nat
    BY <1>2 DEF Work, TypeOK
  <2> QED
    BY <1>2, <2>1, <2>2 DEF Work, TypeOK
<1>3. CASE Restart
  <2>1. restarts' \in 0..MaxRestarts /\ tokens' \in 0..Full
    BY <1>0, <1>3 DEF Restart, TypeOK
  <2>2. record' = record \/ record' = "failed"
    BY <1>3 DEF Restart, Unwritten
  <2>3. waiting' \in BOOLEAN /\ (waiting' => record = "queued" /\ record' = record)
    BY <1>3 DEF Restart, Unwritten, IsInterrupted
  <2>4. record' \in JobStatuses \cup {Absent} /\ (waiting' => record' \in JobStatuses)
    BY <2>2, <2>3 DEF TypeOK, JobStatuses
  <2> QED
    BY <1>3, <2>1, <2>3, <2>4 DEF Restart, TypeOK
<1>4. CASE Neighbour
  <2>1. tokens' \in 0..Full
    BY <1>0, <1>4 DEF Neighbour, TypeOK
  <2> QED
    BY <1>4, <2>1 DEF Neighbour, TypeOK
<1>5. CASE Tick
  <2>1. tokens' \in 0..Full /\ wake' \in 0..PollTicks
    BY <1>0, <1>5 DEF Tick, TypeOK
  <2> QED
    BY <1>5, <2>1 DEF Tick, TypeOK
<1> QED
  BY <1>1, <1>2, <1>3, <1>4, <1>5 DEF Job

\* Every variable keeps to its range.
LEMMA RangesHold == Spec => []RangeInv
<1>1. Init => RangeInv
  <2> SUFFICES ASSUME Init PROVE RangeInv
    OBVIOUS
  <2>1. Full \in Nat /\ MaxRestarts \in Nat /\ PollTicks \in Nat
    BY RunCommandAssumption DEF Full
  <2>2. restarts \in 0..MaxRestarts /\ tokens \in 0..Full /\ wake \in 0..PollTicks
    BY <2>1 DEF Init
  <2>3. code \in {None, Killed, 0, 1, 2} /\ failed \subseteq {"create", "events", "status",
                                                          "diff", "apply", "cancel"}
    BY DEF Init
  <2>4. /\ round \in Nat /\ patch \in Nat /\ got \in Nat /\ printed \in Nat /\ applied \in Nat
        /\ pressed \in 0..2
    BY DEF Init
  <2>5. /\ setup \in Setups /\ record \in JobStatuses \cup {Absent} /\ waiting \in BOOLEAN
        /\ tracked \in BOOLEAN /\ stop \in BOOLEAN /\ throttled \in BOOLEAN /\ heard \in JobStatuses \cup {Absent}
        /\ pc \in {"create", "events", "status", "sleep", "diff", "apply", "exit"}
        /\ ctl \in {"none", "waiting", "asked"}
    BY DEF Init
  <2>6. TypeOK
    BY <2>2, <2>3, <2>4, <2>5 DEF TypeOK
  <2>7. TrackedIsThere
    BY DEF Init, TrackedIsThere
  <2> QED
    BY <2>6, <2>7 DEF RangeInv
<1>2. RangeInv /\ [Next]_vars => RangeInv'
  <2> SUFFICES ASSUME RangeInv, [Next]_vars PROVE RangeInv'
    OBVIOUS
  <2>1. CASE Next
    BY <2>1, CmdRunTypes, UserTypes, ServerTypes DEF Next
  <2>2. CASE UNCHANGED vars
    BY <2>2 DEF vars, envVars, jobVars, limitVars, clientVars, signalVars, RangeInv, TypeOK,
                TrackedIsThere
  <2> QED
    BY <2>1, <2>2
<1> QED
  BY <1>1, <1>2, PTL DEF Spec

\* Every variable of the client and of what it sees of the server keeps to its range
\* (TypeOK): no token is spent that is not there, no exit code is one main.go has not.
THEOREM TypeCorrect == Spec => []TypeOK
<1>1. RangeInv => TypeOK
  BY DEF RangeInv
<1> QED
  BY <1>1, RangesHold, PTL
-----------------------------------------------------------------------------
(* The bucket in RunCommand is exact.  How far the server's limiter may be from *)
(* it: a client is never more than one token ahead of an exact bucket, and no   *)
(* bucket outlives two TTLs of silence, for any clients, burst, rate, TTL and   *)
(* time that RateLimiter's assumption admits.                                   *)
USE RateLimiterAssumption

\* How much of its exact bucket a client that was last seen at b.last must have
\* back by now, whatever it owed then.
CreditRecovers ==
  \A c \in Clients : buckets[c] # NoBucket =>
    Refill(-Unit, now - buckets[c].last) <= credit[c]

\* The buckets that are left were all seen since one TTL before the last sweep.
SweptClean ==
  \A k \in Keys : buckets[k] # NoBucket =>
    lastSwept # Never /\ buckets[k].last >= lastSwept - TTL

\* What needs no assumption on the constants, and what needs RefilledInTime.
BucketInv == LimiterTypes /\ SweptClean
CreditInv == CreditRecovers /\ OneTokenAtMost

\* The burst holds a token.
LEMMA FullHoldsAToken ==
  FullBucket \in Nat /\ Unit <= FullBucket
<1>1. FullBucket \in Nat
  BY DEF FullBucket
<1>2. Capacity * Unit = Unit + (Capacity - 1) * Unit /\ (Capacity - 1) * Unit \in Nat
  OBVIOUS
<1> QED
  BY <1>1, <1>2 DEF FullBucket

\* A request is charged to the client that made it, whatever is in the header.
LEMMA KeyIsTheClient ==
  ASSUME NEW c \in Clients, NEW via \in Vias
  PROVE  ClientKey(IF TrustProxyHeader THEN Proxy ELSE c,
                   IF TrustProxyHeader THEN Append(via, c) ELSE via) = c
<1>1. via \in Seq(Clients)
  <2>1. CASE via = <<>>
    BY <2>1
  <2>2. CASE via # <<>>
    <3>1. PICK d \in Clients : via = <<d>>
      BY <2>2 DEF Vias
    <3> QED
      BY <3>1
  <2> QED
    BY <2>1, <2>2
<1>2. Append(via, c) # <<>> /\ Append(via, c)[Len(Append(via, c))] = c
  BY <1>1
<1> QED
  BY <1>2 DEF ClientKey

\* What a request of c does, with the key resolved.
LEMMA RequestOfClient ==
  ASSUME NEW c \in Clients, NEW via \in Vias, Request(c, via)
  PROVE  \E fresh, due :
           /\ fresh = IF buckets[c] = NoBucket THEN inserts + 1 ELSE inserts
           /\ due = SweepDue(fresh)
           /\ buckets' = [k \in Keys |->
                            IF due /\ Idle(k) THEN NoBucket
                            ELSE IF k = c THEN Charged(Found(c)) ELSE buckets[k]]
           /\ inserts' = IF due THEN 0 ELSE fresh
           /\ lastSwept' = SweptAt(due)
           /\ credit' = IF Allowed(Found(c)) THEN [credit EXCEPT ![c] = @ - Unit] ELSE credit
           /\ now' = now
  BY KeyIsTheClient DEF Request

\* A limiter without buckets satisfies both invariants.
LEMMA InitBuckets ==
  NewRateLimiter => BucketInv /\ CreditInv
<1> SUFFICES ASSUME NewRateLimiter PROVE BucketInv /\ CreditInv
  OBVIOUS
<1>1. LimiterTypes
  BY FullHoldsAToken DEF NewRateLimiter, LimiterTypes, Bucket
<1>2. SweptClean /\ CreditRecovers
  BY DEF NewRateLimiter, SweptClean, CreditRecovers, Keys
<1>3. OneTokenAtMost
  <2> SUFFICES ASSUME NEW c \in Clients PROVE Level(c) - credit[c] \in 0..Unit
    BY DEF OneTokenAtMost
  <2>1. Found(c) = [tokens |-> FullBucket, last |-> 0] /\ credit[c] = FullBucket /\ now = 0
    BY DEF NewRateLimiter, Found, Keys
  <2>2. Level(c) = FullBucket
    BY <2>1, FullHoldsAToken DEF Level, Tokens, Refill
  <2> QED
    BY <2>1, <2>2, FullHoldsAToken
<1> QED
  BY <1>1, <1>2, <1>3 DEF BucketInv, CreditInv

\* A bucket that is found, and what is left of it, are buckets.
LEMMA FoundIsBucket ==
  ASSUME LimiterTypes, NEW k \in Keys
  PROVE  /\ Found(k) \in Bucket /\ Found(k).last <= now
         /\ Charged(Found(k)) \in Bucket /\ Charged(Found(k)).last = now
         /\ Found(k) # NoBucket /\ Charged(Found(k)) # NoBucket
         /\ Tokens(Found(k)) \in 0..FullBucket
<1>1. Found(k) \in Bucket /\ Found(k).last <= now
  BY FullHoldsAToken DEF LimiterTypes, Found, Bucket
<1>2. Tokens(Found(k)) \in 0..FullBucket
  BY <1>1, FullHoldsAToken DEF LimiterTypes, Tokens, Refill, Bucket
<1>3. Charged(Found(k)) \in Bucket /\ Charged(Found(k)).last = now
  BY <1>2, FullHoldsAToken DEF LimiterTypes, Charged, Allowed, Bucket
<1>4. NoBucket \notin Bucket
  BY FullHoldsAToken DEF Bucket
<1> QED
  BY <1>1, <1>2, <1>3, <1>4

\* Every step keeps the invariant of the buckets.
LEMMA StepBucketInv ==
  BucketInv /\ [LimiterNext]_limiterVars => BucketInv'
<1> SUFFICES ASSUME BucketInv, [LimiterNext]_limiterVars PROVE BucketInv'
  OBVIOUS
<1>1. CASE Requested
  <2>1. PICK c \in Clients, via \in Vias : Request(c, via)
    BY <1>1 DEF Requested
  <2>2. PICK fresh, due :
           /\ fresh = IF buckets[c] = NoBucket THEN inserts + 1 ELSE inserts
           /\ due = SweepDue(fresh)
           /\ buckets' = [k \in Keys |->
                            IF due /\ Idle(k) THEN NoBucket
                            ELSE IF k = c THEN Charged(Found(c)) ELSE buckets[k]]
           /\ inserts' = IF due THEN 0 ELSE fresh
           /\ lastSwept' = SweptAt(due)
           /\ credit' = IF Allowed(Found(c)) THEN [credit EXCEPT ![c] = @ - Unit] ELSE credit
           /\ now' = now
    BY <2>1, RequestOfClient
  <2>3. /\ Charged(Found(c)) \in Bucket /\ Charged(Found(c)).last = now
        /\ Charged(Found(c)) # NoBucket
    BY FoundIsBucket DEF BucketInv, Keys
  <2>4. LimiterTypes'
    BY <2>2, <2>3 DEF BucketInv, LimiterTypes, SweptAt
  <2>5. SweptClean'
    BY <2>2, <2>3 DEF BucketInv, LimiterTypes, Bucket, SweptClean, SweptAt, SweepDue, Idle
  <2> QED
    BY <2>4, <2>5 DEF BucketInv
<1>2. CASE Elapse
  <2>1. LimiterTypes'
    BY <1>2, FullHoldsAToken DEF BucketInv, LimiterTypes, Elapse, Refill, Bucket
  <2>2. SweptClean'
    BY <1>2 DEF BucketInv, SweptClean, Elapse
  <2> QED
    BY <2>1, <2>2 DEF BucketInv
<1>3. CASE UNCHANGED limiterVars
  BY <1>3 DEF BucketInv, LimiterTypes, SweptClean, limiterVars
<1> QED
  BY <1>1, <1>2, <1>3 DEF LimiterNext

\* Every step keeps the invariant of what clients were granted.
LEMMA StepCreditInv ==
  ASSUME RefilledInTime
  PROVE  BucketInv /\ CreditInv /\ [LimiterNext]_limiterVars => CreditInv'
<1> SUFFICES ASSUME BucketInv, CreditInv, [LimiterNext]_limiterVars PROVE CreditInv'
  OBVIOUS
<1>1. CASE Requested
  <2>1. PICK c \in Clients, via \in Vias : Request(c, via)
    BY <1>1 DEF Requested
  <2>2. PICK fresh, due :
           /\ fresh = IF buckets[c] = NoBucket THEN inserts + 1 ELSE inserts
           /\ due = SweepDue(fresh)
           /\ buckets' = [k \in Keys |->
                            IF due /\ Idle(k) THEN NoBucket
                            ELSE IF k = c THEN Charged(Found(c)) ELSE buckets[k]]
           /\ inserts' = IF due THEN 0 ELSE fresh
           /\ lastSwept' = SweptAt(due)
           /\ credit' = IF Allowed(Found(c)) THEN [credit EXCEPT ![c] = @ - Unit] ELSE credit
           /\ now' = now
    BY <2>1, RequestOfClient
  <2> SUFFICES ASSUME NEW d \in Clients
               PROVE  /\ buckets'[d] # NoBucket => Refill(-Unit, now - buckets'[d].last) <= credit'[d]
                      /\ Level(d)' - credit'[d] \in 0..Unit
    BY <2>2 DEF CreditInv, CreditRecovers, OneTokenAtMost
  <2>3. /\ FullBucket \in Nat /\ Unit \in Nat /\ Unit <= FullBucket
        /\ now \in Nat /\ now' = now
        /\ credit[d] \in Int /\ credit'[d] \in Int
        /\ Level(d) \in 0..FullBucket /\ Level(d) - credit[d] \in 0..Unit
        /\ Found(d) \in Bucket
        /\ Charged(Found(d)) \in Bucket /\ Charged(Found(d)).last = now
        /\ NoBucket \notin Bucket
    <3>1. d \in Keys /\ Level(d) \in 0..FullBucket
      BY FoundIsBucket DEF BucketInv, Keys, Level
    <3>2. credit' \in [Clients -> Int]
      BY <2>2 DEF BucketInv, LimiterTypes
    <3> QED
      BY <2>2, <3>1, <3>2, FoundIsBucket, FullHoldsAToken
         DEF BucketInv, CreditInv, LimiterTypes, OneTokenAtMost, Bucket
  \* A bucket that is forgotten was full, and so was the exact one.
  <2>4. Idle(d) => credit[d] = FullBucket /\ Level(d) = FullBucket
    <3> SUFFICES ASSUME Idle(d) PROVE credit[d] = FullBucket /\ Level(d) = FullBucket
      OBVIOUS
    <3>1. /\ buckets[d] \in Bucket /\ Found(d) = buckets[d] /\ buckets[d] # NoBucket
          /\ now - buckets[d].last > FullBucket + Unit
      BY <2>3 DEF Idle, Found, RefilledInTime, Bucket
    <3>2. Level(d) = FullBucket
      BY <2>3, <3>1 DEF Level, Tokens, Refill, Bucket
    <3>3. Refill(-Unit, now - buckets[d].last) = FullBucket
      BY <2>3, <3>1 DEF Refill, Bucket
    <3>4. FullBucket <= credit[d]
      BY <3>1, <3>3 DEF CreditInv, CreditRecovers
    <3> QED
      BY <2>3, <3>2, <3>4
  \* What a bucket is worth once it is forgotten, charged, or left alone.
  <2>5. buckets'[d] = NoBucket => Level(d)' = FullBucket
    BY <2>3 DEF Level, Tokens, Found, Refill
  <2>6. buckets'[d] = Charged(Found(d)) =>
          /\ Level(d)' = Charged(Found(d)).tokens
          /\ Refill(-Unit, now - buckets'[d].last) = -Unit
    BY <2>3 DEF Level, Tokens, Found, Refill, Bucket
  <2>7. buckets'[d] = buckets[d] => Level(d)' = Level(d)
    BY <2>3 DEF Level, Tokens, Found
  <2>8. CASE d = c
    <3>1. /\ Allowed(Found(d)) <=> Level(d) >= Unit
          /\ credit'[d] = IF Level(d) >= Unit THEN credit[d] - Unit ELSE credit[d]
          /\ Charged(Found(d)).tokens = IF Level(d) >= Unit THEN Level(d) - Unit ELSE Level(d)
      BY <2>2, <2>8 DEF BucketInv, LimiterTypes, Allowed, Level, Charged
    <3>2. CASE due /\ Idle(d)
      BY <2>2, <2>3, <2>4, <2>5, <2>8, <3>1, <3>2 DEF Keys
    <3>3. CASE ~(due /\ Idle(d))
      BY <2>2, <2>3, <2>6, <2>8, <3>1, <3>3 DEF Keys
    <3> QED
      BY <3>2, <3>3
  <2>9. CASE d # c
    <3>1. credit'[d] = credit[d]
      BY <2>2, <2>9 DEF BucketInv, LimiterTypes
    <3>2. CASE due /\ Idle(d)
      BY <2>2, <2>3, <2>4, <2>5, <3>1, <3>2 DEF Keys
    <3>3. CASE ~(due /\ Idle(d))
      BY <2>2, <2>3, <2>7, <2>9, <3>1, <3>3 DEF Keys, CreditInv, CreditRecovers
    <3> QED
      BY <3>2, <3>3
  <2> QED
    BY <2>8, <2>9
<1>2. CASE Elapse
  <2> SUFFICES ASSUME NEW d \in Clients
               PROVE  /\ buckets'[d] # NoBucket => Refill(-Unit, now' - buckets'[d].last) <= credit'[d]
                      /\ Level(d)' - credit'[d] \in 0..Unit
    BY DEF CreditInv, CreditRecovers, OneTokenAtMost, Refill
  <2>1. /\ FullBucket \in Nat /\ Unit \in Nat /\ now \in Nat /\ now' = now + 1 /\ buckets' = buckets
        /\ credit[d] \in Int /\ credit'[d] = Refill(credit[d], 1)
        /\ Level(d) - credit[d] \in 0..Unit
        /\ Found(d) \in Bucket /\ Found(d).last <= now
    BY <1>2, FoundIsBucket, FullHoldsAToken
       DEF BucketInv, CreditInv, LimiterTypes, OneTokenAtMost, Elapse, Keys
  <2>2. Level(d)' = Refill(Level(d), 1)
    BY <2>1 DEF Level, Tokens, Found, Refill, Bucket
  <2>3. Level(d)' - credit'[d] \in 0..Unit
    BY <2>1, <2>2, FoundIsBucket DEF BucketInv, Level, Refill, Keys
  <2>4. ASSUME buckets[d] # NoBucket
        PROVE  Refill(-Unit, now' - buckets'[d].last) <= credit'[d]
    <3>1. Found(d) = buckets[d] /\ Refill(-Unit, now - buckets[d].last) <= credit[d]
      BY <2>4 DEF Found, CreditInv, CreditRecovers
    <3> QED
      BY <2>1, <3>1 DEF Refill, Bucket
  <2> QED
    BY <2>1, <2>3, <2>4
<1>3. CASE UNCHANGED limiterVars
  BY <1>3 DEF CreditInv, CreditRecovers, OneTokenAtMost, Level, Tokens, Found,
              Refill, limiterVars
<1> QED
  BY <1>1, <1>2, <1>3 DEF LimiterNext

\* Types, and that sweeps leave nothing older than one TTL behind.
LEMMA BucketsHold ==
  LimiterSpec => []BucketInv
<1>1. NewRateLimiter => BucketInv
  BY InitBuckets
<1> QED
  BY <1>1, StepBucketInv, PTL DEF LimiterSpec

\* Buckets, times and counters have the types of TypeOK.
THEOREM BucketsAreTyped ==
  LimiterSpec => []LimiterTypes
<1>1. BucketInv => LimiterTypes
  BY DEF BucketInv
<1> QED
  BY <1>1, BucketsHold, PTL

\* If an idle bucket is full before it may be forgotten, forgetting buckets
\* gives a client one token at most, and takes none, however requests, sweeps
\* and time fall (ratelimit.go, all of it).
THEOREM ClientsKeepToTheirLimit ==
  ASSUME RefilledInTime PROVE LimiterSpec => []OneTokenAtMost
<1>1. NewRateLimiter => CreditInv
  BY InitBuckets
<1>2. BucketInv /\ CreditInv /\ [LimiterNext]_limiterVars => CreditInv'
  BY StepCreditInv
<1>3. CreditInv => OneTokenAtMost
  BY DEF CreditInv
<1> QED
  BY <1>1, <1>2, <1>3, BucketsHold, PTL DEF LimiterSpec

\* After any request, no bucket is left that was last seen two TTLs before: the
\* last sweep is less than one TTL ago, and left nothing older than that.
THEOREM SweepsForgetTheIdle ==
  LimiterSpec => IdleAreForgotten
<1>1. BucketInv /\ Requested =>
        \A k \in Keys : buckets'[k] # NoBucket => buckets'[k].last > now - 2 * TTL
  <2> SUFFICES ASSUME BucketInv, Requested, NEW k \in Keys, buckets'[k] # NoBucket
               PROVE  buckets'[k].last > now - 2 * TTL
    OBVIOUS
  <2>1. BucketInv'
    BY StepBucketInv DEF LimiterNext
  <2>2. PICK c \in Clients, via \in Vias : Request(c, via)
    BY DEF Requested
  <2>3. PICK due : /\ lastSwept' = SweptAt(due) /\ now' = now
                   /\ ~due => \E n \in Int : ~SweepDue(n)
    <3>1. inserts \in Int /\ inserts + 1 \in Int
      BY DEF BucketInv, LimiterTypes
    <3> QED
      BY <2>2, <3>1, RequestOfClient
  <2>4. now \in Int /\ lastSwept' \in Int /\ now - lastSwept' < TTL
    BY <2>3 DEF BucketInv, LimiterTypes, SweptAt, SweepDue
  <2>5. buckets'[k].last \in Int /\ buckets'[k].last >= lastSwept' - TTL
    BY <2>1 DEF BucketInv, LimiterTypes, SweptClean, Bucket
  <2>6. ASSUME NEW last \in Int, NEW swept \in Int, NEW n \in Int,
                 last >= swept - TTL, n - swept < TTL
         PROVE  last > n - 2 * TTL
    BY <2>6
  <2> QED
    BY <2>4, <2>5, <2>6, Zenon
<1>2. BucketInv /\ [LimiterNext]_limiterVars =>
        [Requested =>
           \A k \in Keys : buckets'[k] # NoBucket => buckets'[k].last > now - 2 * TTL]_limiterVars
  BY <1>1
<1> QED
  BY <1>2, BucketsHold, PTL DEF LimiterSpec, IdleAreForgotten
=============================================================================
