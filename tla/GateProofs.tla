------------------------------ MODULE GateProofs -----------------------------
(***************************************************************************)
(* Proofs about Gate, for any number of calls in flight, any stacks and    *)
(* every fault: what passed was checked, a checkout stays while it is      *)
(* worked in, and what is left of one is reported.  A call meets the other *)
(* calls only in what git keeps, so each part of the invariant is about    *)
(* one call, and the other calls keep it because they leave it alone.      *)
(***************************************************************************)
EXTENDS Gate, SequenceTheorems, TLAPS

Places == {"start", "create", "adding", "apply", "detect", "check", "running",
           "diff", "remove", "prune", "branch", "done"}

\* The shapes of what is kept for each call.
Shapes ==
  /\ pc \in [Calls -> Places]
  /\ applied = [c \in Calls |-> applied[c]]
  /\ plan = [c \in Calls |-> plan[c]]
  /\ ran \in [Calls -> Nat]
  /\ results = [c \in Calls |-> results[c]]
  /\ sound = [c \in Calls |-> sound[c]] /\ ended = [c \in Calls |-> ended[c]]
  /\ answer = [c \in Calls |-> answer[c]]

\* What a call may report at each of its places: a report that would pass is one
\* of checks that all ran and were content.
ReportIsSound(c) ==
  /\ pc[c] \in {"start", "create", "adding", "apply", "detect"} => sound[c]
  /\ pc[c] \in {"detect", "check", "running", "diff"} => applied[c] = "all"
  /\ pc[c] \in {"check", "running", "diff"} /\ results[c] \subseteq PassedResults =>
       /\ sound[c]
       /\ ran[c] = 0 /\ plan[c] = <<>> => results[c] \cap NotedResults # {}
  /\ pc[c] = "diff" /\ ~ended[c] => plan[c] = <<>>
  /\ pc[c] \notin {"remove", "prune", "branch", "done"} => answer[c] = None
  /\ Answered(c) /\ answer[c].passed =>
       /\ applied[c] = "all" /\ plan[c] = <<>> /\ sound[c]
       /\ ran[c] = 0 => answer[c].noted

\* What a call has on disk while it works there.
HasCheckout(c) ==
  pc[c] \in {"apply", "detect", "check", "running", "diff", "remove"} =>
    c \in dirs \cap registered \cap branches

\* What is left of a checkout at each step of its cleanup.
IsAccountedFor(c) ==
  c \in held =>
    /\ pc[c] \notin {"start", "create", "adding"}
    /\ pc[c] = "prune"  => c \in broke /\ (c \notin dirs \/ c \in reported)
    /\ pc[c] = "branch" => c \in broke \cap reported \/ c \notin dirs \cup registered
    /\ pc[c] = "done"   => c \in broke \cap reported
                             \/ c \notin dirs \cup registered \cup branches

CallInv(c) == ReportIsSound(c) /\ HasCheckout(c) /\ IsAccountedFor(c)

IInv == Shapes /\ \A c \in Calls : CallInv(c)

-----------------------------------------------------------------------------
(* Detection: no check without a note. *)

\* A stack that can be used has a check at least (Preset).
LEMMA PresetIs ==
  ASSUME NEW s
  PROVE  Preset(s) # <<>> /\ Preset(s) \in Seq({"lists", "plain", "tolerant", "noting"})
<1>1. Preset(s) \in {<<"lists", "plain", "noting">>, <<"tolerant">>, <<"plain">>}
  BY DEF Preset
<1>2. <<"lists", "plain", "noting">> \in Seq({"lists", "plain", "tolerant", "noting"})
  OBVIOUS
<1>3. <<"tolerant">> \in Seq({"lists", "plain", "tolerant", "noting"})
  OBVIOUS
<1>4. <<"plain">> \in Seq({"lists", "plain", "tolerant", "noting"})
  OBVIOUS
<1>5. Preset(s) # <<>>
  BY <1>1
<1> QED
  BY <1>1, <1>2, <1>3, <1>4, <1>5, Zenon

\* A stack without a check is not usable.
LEMMA UsableIsChecked ==
  ASSUME NEW found, NEW s, ChecksOf(found, s) = <<>>, s \in DOMAIN found
  PROVE  found[s] # "usable"
BY PresetIs DEF ChecksOf

\* The checks of a stack are a sequence of kinds of check.
LEMMA ChecksAreASequence ==
  ASSUME NEW found, NEW s
  PROVE  ChecksOf(found, s) \in Seq({"lists", "plain", "tolerant", "noting"})
BY PresetIs DEF ChecksOf

\* Where nothing is planned, nothing can be used (AutoRunner.detect).
LEMMA NothingPlanned ==
  ASSUME NEW found, PlanOf(found) = <<>>, NEW s \in AllStacks, s \in DOMAIN found
  PROVE  found[s] # "usable"
<1> DEFINE Kinds == {"lists", "plain", "tolerant", "noting"}
           a == ChecksOf(found, "go")
           b == ChecksOf(found, "node")
           c == ChecksOf(found, "python")
           d == ChecksOf(found, "rust")
<1>1. a \in Seq(Kinds) /\ b \in Seq(Kinds) /\ c \in Seq(Kinds) /\ d \in Seq(Kinds)
  BY ChecksAreASequence
<1>2. a \o b \o c \o d = <<>>
  BY DEF PlanOf
<1> HIDE DEF a, b, c, d, Kinds
<1>3. Len(a) = 0 /\ Len(b) = 0 /\ Len(c) = 0 /\ Len(d) = 0
  BY <1>1, <1>2
<1>4. a = <<>> /\ b = <<>> /\ c = <<>> /\ d = <<>>
  BY <1>1, <1>3, EmptySeq
<1> QED
  BY <1>4, UsableIsChecked DEF AllStacks, a, b, c, d

\* So where nothing is planned and nothing is wrong, a note says so.
LEMMA NothingGoesUnsaid ==
  ASSUME NEW c \in Calls, NEW found,
         DOMAIN found = Stacks[c], \A s \in Stacks[c] : found[s] \in Findings(s),
         PlanOf(found) = <<>>, NotesOf(found) \subseteq PassedResults
  PROVE  NotesOf(found) \cap NotedResults # {}
<1>1. Stacks[c] \subseteq AllStacks
  BY GateAssumption
<1>2. CASE \A s \in DOMAIN found : found[s] = "absent"
  BY <1>2 DEF NotesOf, NotedResults
<1>3. CASE ~\A s \in DOMAIN found : found[s] = "absent"
  <2>1. PICK s \in DOMAIN found : found[s] # "absent"
    BY <1>3
  <2>2. found[s] \in {"no tool", "no script", "broken"}
    <3>1. s \in AllStacks /\ found[s] \in Findings(s)
      BY <1>1, <2>1
    <3>2. found[s] # "usable"
      BY <2>1, <3>1, NothingPlanned
    <3> QED
      BY <2>1, <3>1, <3>2 DEF Findings
  <2>3. NoteOf(found[s]) \subseteq NotesOf(found)
    BY <1>3, <2>1 DEF NotesOf
  <2>4. found[s] # "broken"
    BY <2>3 DEF NoteOf, PassedResults
  <2>5. "skipped" \in NotesOf(found)
    BY <2>2, <2>3, <2>4 DEF NoteOf
  <2> QED
    BY <2>5 DEF NotedResults
<1> QED
  BY <1>2, <1>3

-----------------------------------------------------------------------------
(* The other calls leave a call alone. *)

\* What a step of d leaves of another call: its own state, and on disk everything
\* but the registration of a checkout that has no directory.
Untouched(c) ==
  /\ pc'[c] = pc[c] /\ applied'[c] = applied[c] /\ plan'[c] = plan[c] /\ ran'[c] = ran[c]
  /\ results'[c] = results[c] /\ sound'[c] = sound[c] /\ ended'[c] = ended[c]
  /\ answer'[c] = answer[c]
  /\ c \in held' <=> c \in held
  /\ c \in dirs' <=> c \in dirs
  /\ c \in branches' <=> c \in branches
  /\ c \in registered' => c \in registered
  /\ c \in registered /\ c \in dirs => c \in registered'
  /\ c \in broke => c \in broke'
  /\ c \in reported => c \in reported'

\* A step of one call leaves what is kept for the others alone.
LEMMA OthersAreUntouched ==
  ASSUME Shapes, NEW d \in Calls, CallStep(d) \/ GiveUp(d), NEW c \in Calls, c # d
  PROVE  Untouched(c)
<1> USE DEF Shapes, Untouched, Goto, Refuse, gitVars, checkVars, treeVars, cleanupVars
<1>1. CASE Ask(d)
  BY <1>1 DEF Ask
<1>2. CASE Lock(d)
  BY <1>2 DEF Lock
<1>3. CASE Add(d)
  BY <1>3 DEF Add
<1>4. CASE Apply(d)
  BY <1>4 DEF Apply
<1>5. CASE Detect(d)
  BY <1>5 DEF Detect
<1>6. CASE StartCheck(d)
  BY <1>6 DEF StartCheck
<1>7. CASE EndCheck(d)
  BY <1>7 DEF EndCheck
<1>8. CASE EndChecks(d)
  BY <1>8 DEF EndChecks
<1>9. CASE Answer(d)
  BY <1>9 DEF Answer
<1>10. CASE Remove(d)
  BY <1>10 DEF Remove, Works, Fails, Report
<1>11. CASE Prune(d)
  BY <1>11 DEF Prune, Works, Fails, Report, Stale
<1>12. CASE DeleteBranch(d)
  BY <1>12 DEF DeleteBranch, Works, Fails, Report
<1>13. CASE GiveUp(d)
  BY <1>13 DEF GiveUp
<1> QED
  BY <1>1, <1>2, <1>3, <1>4, <1>5, <1>6, <1>7, <1>8, <1>9, <1>10, <1>11, <1>12, <1>13
     DEF CallStep

\* A call that is left alone keeps its part of the invariant.
LEMMA UntouchedKeeps ==
  ASSUME NEW c \in Calls, CallInv(c), Untouched(c)
  PROVE  CallInv(c)'
<1>1. ReportIsSound(c)'
  BY DEF CallInv, Untouched, ReportIsSound, Answered
<1>2. HasCheckout(c)'
  BY DEF CallInv, Untouched, HasCheckout
<1>3. IsAccountedFor(c)'
  BY DEF CallInv, Untouched, IsAccountedFor
<1> QED
  BY <1>1, <1>2, <1>3 DEF CallInv

-----------------------------------------------------------------------------
(* A call keeps its own part. *)

\* Every step keeps the shapes.
LEMMA ShapesStep == ASSUME Shapes, [Next]_vars PROVE Shapes'
<1> USE DEF Shapes, Goto, Refuse, gitVars, checkVars, treeVars, cleanupVars, Places
<1>1. ASSUME NEW c \in Calls, Ask(c) \/ Lock(c) \/ Add(c) \/ Apply(c) PROVE Shapes'
  BY <1>1 DEF Ask, Lock, Add, Apply
<1>2. ASSUME NEW c \in Calls, Detect(c) \/ StartCheck(c) PROVE Shapes'
  BY <1>2 DEF Detect, StartCheck
<1>3. ASSUME NEW c \in Calls, EndCheck(c) PROVE Shapes'
  <2>1. pc' \in [Calls -> Places] /\ ran' \in [Calls -> Nat]
    BY <1>3 DEF EndCheck
  <2>2. /\ plan' = [d \in Calls |-> plan'[d]] /\ results' = [d \in Calls |-> results'[d]]
        /\ sound' = [d \in Calls |-> sound'[d]]
    BY <1>3 DEF EndCheck
  <2>3. UNCHANGED <<applied, ended, answer>>
    BY <1>3 DEF EndCheck
  <2> QED
    BY <2>1, <2>2, <2>3
<1>4. ASSUME NEW c \in Calls, EndChecks(c) \/ Answer(c) PROVE Shapes'
  <2>1. CASE EndChecks(c)
    BY <2>1 DEF EndChecks
  <2>2. CASE Answer(c)
    <3>1. answer' = [d \in Calls |-> answer'[d]]
      BY <2>2 DEF Answer
    <3>2. pc' = [pc EXCEPT ![c] = "remove"] /\ UNCHANGED <<applied, checkVars>>
      BY <2>2 DEF Answer
    <3> QED
      BY <3>1, <3>2
  <2> QED
    BY <1>4, <2>1, <2>2
<1>5. ASSUME NEW c \in Calls, Remove(c) \/ Prune(c) \/ DeleteBranch(c) \/ GiveUp(c) PROVE Shapes'
  BY <1>5 DEF Remove, Prune, DeleteBranch, GiveUp
<1>6. CASE UNCHANGED vars
  BY <1>6 DEF vars
<1> QED
  BY <1>1, <1>2, <1>3, <1>4, <1>5, <1>6 DEF Next, CallStep, AllDone

\* What a call reports.
LEMMA ReportStep ==
  ASSUME Shapes, NEW c \in Calls, ReportIsSound(c), CallStep(c) \/ GiveUp(c)
  PROVE  ReportIsSound(c)'
<1> USE DEF Shapes, ReportIsSound, Answered, Goto, gitVars, checkVars, treeVars, cleanupVars
<1>0. Refused # None => Refused.error
  BY DEF Refused
<1>1. CASE Ask(c)
  BY <1>0, <1>1 DEF Ask, Refuse
<1>2. CASE Lock(c)
  BY <1>2 DEF Lock
<1>3. CASE Add(c)
  BY <1>0, <1>3 DEF Add, Refuse
<1>4. CASE Apply(c)
  BY <1>0, <1>4 DEF Apply, Refuse
<1>5. CASE Detect(c)
  <2>1. PICK found \in [Stacks[c] -> UNION {Findings(s) : s \in Stacks[c]}] :
           /\ \A s \in Stacks[c] : found[s] \in Findings(s)
           /\ plan' = [plan EXCEPT ![c] = PlanOf(found)]
           /\ results' = [results EXCEPT ![c] = NotesOf(found)]
    BY <1>5 DEF Detect
  <2>2. plan'[c] = <<>> /\ results'[c] \subseteq PassedResults => results'[c] \cap NotedResults # {}
    BY <2>1, NothingGoesUnsaid
  <2>3. /\ pc[c] = "detect" /\ pc'[c] = "check" /\ answer' = answer
        /\ applied' = applied /\ sound' = sound /\ ran' = ran
    BY <1>5 DEF Detect
  <2> QED
    BY <2>2, <2>3
<1>6. CASE StartCheck(c)
  BY <1>6 DEF StartCheck
<1>7. CASE EndCheck(c)
  <2>1. PICK exit \in Exits(Head(plan[c])) \cup {"killed"}, inTime \in BOOLEAN :
           /\ exit = "killed" => ~Trusted(c, inTime)
           /\ results' = [results EXCEPT ![c] =
                            @ \cup {IF Trusted(c, inTime) THEN Judged(exit) ELSE "unrun"}]
           /\ sound' = [sound EXCEPT ![c] = @ /\ Judged(exit) # "failed" /\ inTime]
    BY <1>7 DEF EndCheck
  <2>2. /\ pc[c] = "running" /\ pc'[c] = "check" /\ answer' = answer
        /\ applied' = applied /\ ran'[c] # 0
    BY <1>7 DEF EndCheck
  <2>3. results'[c] \subseteq PassedResults => results[c] \subseteq PassedResults
        /\ Trusted(c, inTime) /\ Judged(exit) # "failed"
    BY <2>1 DEF PassedResults
  <2>4. results'[c] \subseteq PassedResults => sound'[c]
    BY <2>1, <2>2, <2>3 DEF Trusted
  <2> QED
    BY <2>2, <2>4
<1>8. CASE EndChecks(c)
  BY <1>8 DEF EndChecks
<1>9. CASE Answer(c)
  <2>1. /\ pc[c] = "diff" /\ pc'[c] = "remove" /\ applied' = applied /\ plan' = plan
        /\ ran' = ran /\ sound' = sound
    BY <1>9 DEF Answer
  <2>2. /\ answer'[c].passed => ~ended[c] /\ results[c] \subseteq PassedResults
        /\ results[c] \cap NotedResults # {} => answer'[c].noted
    <3> DEFINE Told(changes) ==
                 [error |-> FALSE, passed |-> Passed(c), noted |-> results[c] \cap NotedResults # {},
                  failed |-> ~ended[c] /\ ~(results[c] \subseteq PassedResults), changes |-> changes]
    <3>0. PICK read \in BOOLEAN :
            answer' = [answer EXCEPT ![c] = Told(IF read THEN [extra |-> extra[c]] ELSE None)]
      BY <1>9, Zenon DEF Answer
    <3>1. PICK changes : answer'[c] = Told(changes)
      <4> HIDE DEF Told
      <4> QED
        BY <3>0, Zenon
    <3>2. answer'[c].passed = Passed(c) /\ answer'[c].noted = (results[c] \cap NotedResults # {})
      BY <3>1
    <3> QED
      BY <3>2 DEF Passed
  <2> QED
    BY <2>1, <2>2
<1>10. CASE Remove(c) \/ Prune(c) \/ DeleteBranch(c)
  BY <1>10 DEF Remove, Prune, DeleteBranch
<1>11. CASE GiveUp(c)
  BY <1>11 DEF GiveUp
<1> QED
  BY <1>1, <1>2, <1>3, <1>4, <1>5, <1>6, <1>7, <1>8, <1>9, <1>10, <1>11 DEF CallStep

\* What a call keeps on disk, and what it leaves there.
LEMMA CheckoutStep ==
  ASSUME Shapes, NEW c \in Calls, HasCheckout(c), IsAccountedFor(c), CallStep(c) \/ GiveUp(c)
  PROVE  HasCheckout(c)' /\ IsAccountedFor(c)'
<1> USE DEF Shapes, HasCheckout, IsAccountedFor, Goto, gitVars, checkVars, treeVars, cleanupVars
<1>1. CASE Ask(c) \/ Lock(c)
  BY <1>1 DEF Ask, Lock
<1>2. CASE Add(c)
  BY <1>2 DEF Add, Parts
<1>3. CASE Apply(c) \/ Detect(c) \/ StartCheck(c)
  BY <1>3 DEF Apply, Detect, StartCheck
<1>4. CASE EndCheck(c) \/ EndChecks(c) \/ Answer(c)
  BY <1>4 DEF EndCheck, EndChecks, Answer
<1>5. CASE Remove(c)
  BY <1>5 DEF Remove, Works, Fails, Report, CleanupMayRun
<1>6. CASE Prune(c)
  BY <1>6 DEF Prune, Works, Fails, Report, Stale, CleanupMayRun
<1>7. CASE DeleteBranch(c)
  BY <1>7 DEF DeleteBranch, Works, Fails, Report, CleanupMayRun
<1>8. CASE GiveUp(c)
  BY <1>8 DEF GiveUp
<1> QED
  BY <1>1, <1>2, <1>3, <1>4, <1>5, <1>6, <1>7, <1>8 DEF CallStep

-----------------------------------------------------------------------------
\* Before the first call the invariant holds.
LEMMA StartsWell == ASSUME Init PROVE IInv
<1>1. Shapes
  BY DEF Init, Shapes, Places
<1>2. ASSUME NEW c \in Calls PROVE CallInv(c)
  BY DEF Init, CallInv, ReportIsSound, HasCheckout, IsAccountedFor, Answered
<1> QED
  BY <1>1, <1>2 DEF IInv

\* Every step of every call keeps it.
LEMMA Inductive == ASSUME IInv, [Next]_vars PROVE IInv'
<1>1. Shapes'
  BY ShapesStep DEF IInv
<1>2. ASSUME NEW d \in Calls, CallStep(d) \/ GiveUp(d), NEW c \in Calls PROVE CallInv(c)'
  <2>1. CASE c = d
    BY <1>2, <2>1, ReportStep, CheckoutStep DEF IInv, CallInv
  <2>2. CASE c # d
    BY <1>2, <2>2, OthersAreUntouched, UntouchedKeeps DEF IInv
  <2> QED
    BY <2>1, <2>2
<1>3. ASSUME UNCHANGED vars, NEW c \in Calls PROVE CallInv(c)'
  <2>1. Untouched(c)
    BY <1>3 DEF vars, gitVars, checkVars, treeVars, cleanupVars, Untouched
  <2> QED
    BY <2>1, UntouchedKeeps DEF IInv
<1> QED
  BY <1>1, <1>2, <1>3 DEF IInv, Next, AllDone

\* The inductive invariant of the gate, for all calls in flight.
THEOREM Invariant == Spec => []IInv
<1>1. Init => IInv
  BY StartsWell
<1>2. IInv /\ [Next]_vars => IInv'
  BY Inductive
<1> QED
  BY <1>1, <1>2, PTL DEF Spec

\* A pass that the tool reports is one of a checkout that has every operation of
\* the request and whose checks, as many as were detected, all ran and were
\* content, however calls, cancellations and timeouts interleave (Gate.Verify).
THEOREM PassesAreChecked == Spec => []PassedMeansChecked
<1>1. IInv => PassedMeansChecked
  BY DEF IInv, CallInv, ReportIsSound, PassedMeansChecked
<1> QED
  BY <1>1, Invariant, PTL

\* A call that has returned has left nothing on disk of what Create gave it, but
\* what its cleanup reported (Manager.Cleanup).
THEOREM LeftoversAreAccountedFor == Spec => []LeftoversAreReported
<1>1. held \subseteq Calls /\ IInv => LeftoversAreReported
  BY DEF IInv, CallInv, IsAccountedFor, LeftoversAreReported
<1>2. Init => held \subseteq Calls
  BY DEF Init
<1>3. held \subseteq Calls /\ [Next]_vars => (held \subseteq Calls)'
  <2>1. ASSUME NEW c \in Calls, CallStep(c) \/ GiveUp(c) PROVE held' \subseteq held \cup {c}
    BY <2>1 DEF CallStep, Ask, Lock, Add, Apply, Detect, StartCheck, EndCheck, EndChecks, Answer,
       Remove, Prune, DeleteBranch, GiveUp, treeVars
  <2> QED
    BY <2>1 DEF Next, AllDone, vars, treeVars
<1> QED
  BY <1>1, <1>2, <1>3, Invariant, PTL DEF Spec

\* No other call's cleanup, and no prune, takes a checkout from a call that works
\* in it (Manager.Cleanup, git worktree prune).
THEOREM CheckoutsStay == Spec => []CheckoutStays
<1>1. IInv => CheckoutStays
  BY DEF IInv, CallInv, HasCheckout, CheckoutStays
<1> QED
  BY <1>1, Invariant, PTL
-----------------------------------------------------------------------------
(* Ranges. *)

Kinds == {"lists", "plain", "tolerant", "noting"}

\* No more checks than the presets of four stacks have are ever planned or run.
ChecksLeft(c) ==
  /\ pc[c] \in {"start", "create", "adding", "apply", "detect"} => ran[c] = 0
  /\ pc[c] = "running" => plan[c] # <<>>
  /\ ran[c] + Len(plan[c]) <= 6

RangeInv == TypeOK /\ \A c \in Calls : ChecksLeft(c)

\* A plan has one preset for each stack (PlanOf).
LEMMA PlanIsShort ==
  ASSUME NEW found
  PROVE  PlanOf(found) \in Seq(Kinds) /\ Len(PlanOf(found)) <= 6
<1> DEFINE a == ChecksOf(found, "go")
           b == ChecksOf(found, "node")
           c == ChecksOf(found, "python")
           d == ChecksOf(found, "rust")
<1>1. /\ a \in Seq(Kinds) /\ b \in Seq(Kinds) /\ c \in Seq(Kinds) /\ d \in Seq(Kinds)
  BY ChecksAreASequence DEF Kinds
<1>2. Len(a) \in {0, 3}
  <2>1. a \in {<<>>, <<"lists", "plain", "noting">>}
    BY DEF ChecksOf, Preset
  <2>2. Len(<<"lists", "plain", "noting">>) = 3 /\ Len(<<>>) = 0
    OBVIOUS
  <2> HIDE DEF a
  <2> QED
    BY <2>1, <2>2, Zenon
<1>3. Len(b) \in {0, 1} /\ Len(c) \in {0, 1} /\ Len(d) \in {0, 1}
  <2>1. /\ b \in {<<>>, <<"plain">>} /\ c \in {<<>>, <<"tolerant">>}
        /\ d \in {<<>>, <<"plain">>}
    BY DEF ChecksOf, Preset
  <2>2. Len(<<"plain">>) = 1 /\ Len(<<"tolerant">>) = 1 /\ Len(<<>>) = 0
    OBVIOUS
  <2> HIDE DEF b, c, d
  <2> QED
    BY <2>1, <2>2, Zenon
<1>4. PlanOf(found) = a \o b \o c \o d
  BY DEF PlanOf
<1> HIDE DEF a, b, c, d, Kinds
<1>5. a \o b \in Seq(Kinds) /\ Len(a \o b) = Len(a) + Len(b)
  BY <1>1
<1>6. a \o b \o c \in Seq(Kinds) /\ Len(a \o b \o c) = Len(a \o b) + Len(c)
  BY <1>1, <1>5
<1>7. a \o b \o c \o d \in Seq(Kinds) /\ Len(a \o b \o c \o d) = Len(a \o b \o c) + Len(d)
  BY <1>1, <1>6
<1>8. Len(a \o b \o c \o d) <= 6
  <2>1. \A x \in {0, 3}, y, z, w \in {0, 1} : ((x + y) + z) + w <= 6
    OBVIOUS
  <2>2. Len(a \o b \o c \o d) = ((Len(a) + Len(b)) + Len(c)) + Len(d)
    BY <1>5, <1>6, <1>7, Zenon
  <2> QED
    BY <2>1, <2>2, <1>2, <1>3, Zenon
<1> QED
  BY <1>4, <1>7, <1>8

\* What detection says of a stack is a set of results (NotesOf).
LEMMA NotesAreResults ==
  ASSUME NEW found
  PROVE  NotesOf(found) \subseteq ResultKinds
<1>1. ASSUME NEW x PROVE NoteOf(x) \subseteq ResultKinds
  BY DEF NoteOf, ResultKinds
<1> QED
  BY <1>1 DEF NotesOf, ResultKinds

\* An exit is judged one of the results (Judged).
LEMMA JudgedIsAResult ==
  ASSUME NEW x
  PROVE  Judged(x) \in ResultKinds /\ "unrun" \in ResultKinds
BY DEF Judged, ResultKinds

\* What the end of a check (EndCheck) does to the lists of its call.
LEMMA EndCheckIs ==
  ASSUME NEW c \in Calls, EndCheck(c)
  PROVE  /\ \E r \in ResultKinds : results' = [results EXCEPT ![c] = @ \cup {r}]
         /\ \E b \in BOOLEAN : sound' = [sound EXCEPT ![c] = b]
         /\ \E b \in BOOLEAN : extra' = [extra EXCEPT ![c] = b]
         /\ plan' = [plan EXCEPT ![c] = Tail(@)]
<1>1. PICK exit \in Exits(Head(plan[c])) \cup {"killed"}, inTime \in BOOLEAN,
           wrote \in BOOLEAN : EndCheck(c)!2!(exit, inTime, wrote)
  BY DEF EndCheck
<1>2. \E r \in ResultKinds : results' = [results EXCEPT ![c] = @ \cup {r}]
  BY <1>1, JudgedIsAResult
<1>3. \E b \in BOOLEAN : sound' = [sound EXCEPT ![c] = b]
  BY <1>1, Zenon
<1>4. \E b \in BOOLEAN : extra' = [extra EXCEPT ![c] = b]
  BY <1>1, Zenon
<1>5. plan' = [plan EXCEPT ![c] = Tail(@)]
  BY <1>1 DEF Remaining
<1> QED
  BY <1>2, <1>3, <1>4, <1>5

\* Every step of a call keeps the ranges.
LEMMA RangeStep ==
  ASSUME TypeOK, NEW c \in Calls, ChecksLeft(c), CallStep(c) \/ GiveUp(c)
  PROVE  TypeOK' /\ ChecksLeft(c)'
<1> USE DEF TypeOK, ChecksLeft, Goto, gitVars, checkVars, treeVars, cleanupVars
<1>0. Refused \in Answers
  BY DEF Refused, Answers
<1>00. Refuse(c) \/ UNCHANGED answer => answer' \in [Calls -> {None} \cup Answers]
  BY <1>0 DEF Refuse
<1>1. CASE Ask(c)
  <2>1. ops' \in [Calls -> Requests]
    BY <1>1 DEF Ask
  <2>2. answer' \in [Calls -> {None} \cup Answers]
    BY <1>1, <1>00 DEF Ask
  <2>3. /\ pc[c] = "start"
        /\ pc' = [pc EXCEPT ![c] = "create"] \/ pc' = [pc EXCEPT ![c] = "done"]
        /\ UNCHANGED <<gitVars, mu, ctx, applied, extra, held, checkVars, cleanupVars>>
    BY <1>1 DEF Ask
  <2> QED
    BY <2>1, <2>2, <2>3
<1>2. CASE Lock(c)
  BY <1>2 DEF Lock
<1>3. CASE Add(c)
  <2>1. answer' \in [Calls -> {None} \cup Answers]
    BY <1>3, <1>00 DEF Add
  <2>2. /\ branches' \subseteq Calls /\ registered' \subseteq Calls /\ dirs' \subseteq Calls
        /\ mu' \in Calls \cup {None} /\ held' \subseteq Calls
    BY <1>3 DEF Add, Unlock
  <2>3. /\ pc[c] = "adding"
        /\ pc' = [pc EXCEPT ![c] = "apply"] \/ pc' = [pc EXCEPT ![c] = "done"]
        /\ UNCHANGED <<ctx, ops, applied, extra, checkVars, cleanupVars>>
    BY <1>3 DEF Add
  <2> QED
    BY <2>1, <2>2, <2>3
<1>4. CASE Apply(c)
  <2>1. answer' \in [Calls -> {None} \cup Answers]
    BY <1>00, <1>4 DEF Apply
  <2>2. applied' \in [Calls -> {"none", "some", "all"}]
    <3>1. \E some \in {"none", "some", "all"} : applied' = [applied EXCEPT ![c] = some]
      BY <1>4 DEF Apply
    <3> QED
      BY <3>1
  <2>3. /\ pc[c] = "apply"
        /\ pc' = [pc EXCEPT ![c] = "detect"] \/ pc' = [pc EXCEPT ![c] = "remove"]
        /\ UNCHANGED <<gitVars, mu, ctx, ops, extra, held, checkVars, cleanupVars>>
    BY <1>4 DEF Apply
  <2> QED
    BY <2>1, <2>2, <2>3
<1>5. CASE Detect(c)
  <2>1. PICK found :
           /\ plan' = [plan EXCEPT ![c] = PlanOf(found)]
           /\ results' = [results EXCEPT ![c] = NotesOf(found)]
    BY <1>5 DEF Detect
  <2>2. plan' \in [Calls -> Seq(Kinds)] /\ Len(plan'[c]) \in Nat /\ Len(plan'[c]) <= 6
    BY <2>1, PlanIsShort DEF Kinds
  <2>3. results' \in [Calls -> SUBSET ResultKinds]
    BY <2>1, NotesAreResults
  <2>4. /\ pc[c] = "detect" /\ pc' = [pc EXCEPT ![c] = "check"]
        /\ UNCHANGED <<gitVars, mu, ctx, treeVars, ran, sound, ended, answer, cleanupVars>>
    BY <1>5 DEF Detect
  <2>5. TypeOK'
    BY <2>2, <2>3, <2>4 DEF Kinds
  <2>6. ChecksLeft(c)'
    BY <2>2, <2>4
  <2> QED
    BY <2>5, <2>6
<1>6. CASE StartCheck(c)
  BY <1>6 DEF StartCheck
<1>7. CASE EndCheck(c)
  <2>1. /\ \E r \in ResultKinds : results' = [results EXCEPT ![c] = @ \cup {r}]
        /\ \E b \in BOOLEAN : sound' = [sound EXCEPT ![c] = b]
        /\ \E b \in BOOLEAN : extra' = [extra EXCEPT ![c] = b]
        /\ plan' = [plan EXCEPT ![c] = Tail(@)]
    BY <1>7, EndCheckIs
  <2>2. results' \in [Calls -> SUBSET ResultKinds]
    BY <2>1
  <2>3. sound' \in [Calls -> BOOLEAN] /\ extra' \in [Calls -> BOOLEAN]
    BY <2>1
  <2>4. /\ pc[c] = "running" /\ pc' = [pc EXCEPT ![c] = "check"]
        /\ ran' = [ran EXCEPT ![c] = @ + 1]
        /\ UNCHANGED <<gitVars, mu, ctx, ops, applied, held, ended, answer, cleanupVars>>
    BY <1>7 DEF EndCheck
  <2>5. /\ Tail(plan[c]) \in Seq(Kinds) /\ Len(plan[c]) \in Nat
        /\ Len(Tail(plan[c])) = Len(plan[c]) - 1
    BY <2>4 DEF Kinds
  <2>6. plan' \in [Calls -> Seq(Kinds)] /\ plan'[c] = Tail(plan[c])
    BY <2>1, <2>5 DEF Kinds
  <2>7. ran[c] \in 0..6 /\ ran[c] + 1 \in 0..6 /\ ran[c] + 1 + Len(plan'[c]) <= 6
    BY <2>5, <2>6
  <2>8. TypeOK'
    BY <2>2, <2>3, <2>4, <2>6, <2>7 DEF Kinds
  <2>9. ChecksLeft(c)'
    BY <2>4, <2>6, <2>7
  <2> QED
    BY <2>8, <2>9
<1>8. CASE EndChecks(c)
  BY <1>8 DEF EndChecks
<1>9. CASE Answer(c)
  BY <1>9 DEF Answer, Answers, Passed
<1>10. CASE Remove(c)
  BY <1>10 DEF Remove, Works, Fails, Report
<1>11. CASE Prune(c)
  BY <1>11 DEF Prune, Works, Fails, Report, Stale
<1>12. CASE DeleteBranch(c)
  BY <1>12 DEF DeleteBranch, Works, Fails, Report
<1>13. CASE GiveUp(c)
  BY <1>13 DEF GiveUp
<1> QED
  BY <1>1, <1>2, <1>3, <1>4, <1>5, <1>6, <1>7, <1>8, <1>9, <1>10, <1>11, <1>12, <1>13
     DEF CallStep

\* Each call begins in its range, and keeps to it whoever moves.
LEMMA RangesHold == Spec => []RangeInv
<1>1. Init => RangeInv
  <2> SUFFICES ASSUME Init PROVE RangeInv
    OBVIOUS
  <2>1. TypeOK
    BY DEF Init, TypeOK, Requests
  <2>2. ASSUME NEW c \in Calls PROVE ChecksLeft(c)
    BY DEF Init, ChecksLeft
  <2> QED
    BY <2>1, <2>2 DEF RangeInv
<1>2. IInv /\ RangeInv /\ [Next]_vars => RangeInv'
  <2> SUFFICES ASSUME IInv, RangeInv, [Next]_vars PROVE RangeInv'
    OBVIOUS
  <2>1. ASSUME NEW d \in Calls, CallStep(d) \/ GiveUp(d) PROVE RangeInv'
    <3>1. TypeOK' /\ ChecksLeft(d)'
      BY <2>1, RangeStep DEF RangeInv
    <3>2. ASSUME NEW c \in Calls, c # d PROVE ChecksLeft(c)'
      BY <2>1, <3>2, OthersAreUntouched DEF IInv, RangeInv, Untouched, ChecksLeft
    <3> QED
      BY <3>1, <3>2 DEF RangeInv
  <2>2. CASE UNCHANGED vars
    BY <2>2 DEF vars, gitVars, treeVars, checkVars, cleanupVars, RangeInv, TypeOK, ChecksLeft
  <2> QED
    BY <2>1, <2>2 DEF Next, AllDone
<1> QED
  BY <1>1, <1>2, Invariant, PTL DEF Spec

\* Every variable of the gate keeps to its range (TypeOK).
THEOREM TypeCorrect == Spec => []TypeOK
<1>1. RangeInv => TypeOK
  BY DEF RangeInv
<1> QED
  BY <1>1, RangesHold, PTL

-----------------------------------------------------------------------------
(* The gate implements what it promises. Git makes the branch first, then the   *)
(* registration, then the directory, and takes them away the other way round,   *)
(* so that one of the three says how much there is of a checkout, and no prune  *)
(* of another call changes that.                                                *)

Nested == dirs \subseteq registered /\ registered \subseteq branches

\* A call has nothing on disk before its Create, nothing in its checkout before its
\* operations, and holds what Create returned until it returns.
Opens(c) ==
  /\ pc[c] \in {"start", "create", "adding"} => c \notin branches
  /\ pc[c] \in {"start", "create", "adding", "apply"} => applied[c] = "none"
  /\ pc[c] \in {"apply", "detect", "check", "running", "diff", "remove", "prune", "branch"} =>
       c \in held

DiskInv == Nested /\ \A c \in Calls : Opens(c)

\* A step of a call keeps what git keeps nested.
LEMMA NestedStep ==
  ASSUME Nested, NEW c \in Calls, Opens(c), CallStep(c) \/ GiveUp(c)
  PROVE  Nested'
<1> USE DEF Nested, gitVars
<1>1. CASE Add(c)
  BY <1>1 DEF Add, Far, Parts
<1>2. CASE Remove(c)
  BY <1>2 DEF Remove
<1>3. CASE Prune(c)
  BY <1>3 DEF Prune, Stale
<1>4. CASE DeleteBranch(c)
  BY <1>4 DEF DeleteBranch
<1>5. CASE Ask(c) \/ Lock(c) \/ Apply(c) \/ Detect(c) \/ StartCheck(c) \/ EndCheck(c)
             \/ EndChecks(c) \/ Answer(c) \/ GiveUp(c)
  BY <1>5 DEF Ask, Lock, Apply, Detect, StartCheck, EndCheck, EndChecks, Answer, GiveUp
<1> QED
  BY <1>1, <1>2, <1>3, <1>4, <1>5 DEF CallStep

\* A call opens its checkout once.
LEMMA OpensStep ==
  ASSUME TypeOK, Nested, NEW c \in Calls, Opens(c), CallStep(c) \/ GiveUp(c)
  PROVE  Opens(c)'
<1> USE DEF TypeOK, Opens, Goto, gitVars, treeVars
<1>1. CASE Ask(c) \/ Lock(c) \/ Add(c)
  BY <1>1 DEF Ask, Lock, Add
<1>2. CASE Apply(c) \/ Detect(c) \/ StartCheck(c)
  BY <1>2 DEF Apply, Detect, StartCheck
<1>3. CASE EndCheck(c) \/ EndChecks(c) \/ Answer(c)
  BY <1>3 DEF EndCheck, EndChecks, Answer
<1>4. CASE Remove(c) \/ Prune(c) \/ DeleteBranch(c)
  BY <1>4 DEF Remove, Prune, DeleteBranch
<1>5. CASE GiveUp(c)
  BY <1>5 DEF GiveUp
<1> QED
  BY <1>1, <1>2, <1>3, <1>4, <1>5 DEF CallStep

\* What git keeps stays nested, in every behaviour.
LEMMA DiskInvHolds == Spec => []DiskInv
<1>1. Init => DiskInv
  BY DEF Init, DiskInv, Nested, Opens
<1>2. IInv /\ RangeInv /\ DiskInv /\ [Next]_vars => DiskInv'
  <2> SUFFICES ASSUME IInv, RangeInv, DiskInv, [Next]_vars PROVE DiskInv'
    OBVIOUS
  <2>1. ASSUME NEW d \in Calls, CallStep(d) \/ GiveUp(d) PROVE DiskInv'
    <3>1. Nested' /\ Opens(d)'
      BY <2>1, NestedStep, OpensStep DEF DiskInv, RangeInv
    <3>2. ASSUME NEW c \in Calls, c # d PROVE Opens(c)'
      BY <2>1, <3>2, OthersAreUntouched DEF IInv, DiskInv, Untouched, Opens
    <3> QED
      BY <3>1, <3>2 DEF DiskInv
  <2>2. CASE UNCHANGED vars
    BY <2>2 DEF vars, gitVars, treeVars, DiskInv, Nested, Opens
  <2> QED
    BY <2>1, <2>2 DEF Next, AllDone
<1> QED
  BY <1>1, <1>2, Invariant, RangesHold, PTL DEF Spec

\* What the contract says of a step of one call, in terms of what Gate maps to it.
RefuseOf(c) ==
  /\ StageOf(c) = "asked" /\ StageOf(c)' = "returned" /\ VerdictOf(c)' = "error"
  /\ WorkOf(c)' = WorkOf(c) /\ (c \in reported' <=> c \in reported)

OpenOf(c) ==
  /\ StageOf(c) = "asked" /\ StageOf(c)' = "working"
  /\ CheckoutOf(c) = "none" /\ CheckoutOf(c)' = "whole"
  /\ WorkOf(c)' = WorkOf(c) /\ VerdictOf(c)' = VerdictOf(c)
  /\ (c \in reported' <=> c \in reported)

WorkingOf(c) ==
  /\ StageOf(c) = "working" /\ StageOf(c)' = "working"
  /\ Contract!Leads(WorkOf(c), WorkOf(c)')
  /\ CheckoutOf(c) = "whole" /\ CheckoutOf(c)' = "whole"
  /\ VerdictOf(c)' = VerdictOf(c) /\ (c \in reported' <=> c \in reported)

ConcludeOf(c) ==
  /\ StageOf(c) = "working" /\ StageOf(c)' = "leaving"
  /\ VerdictOf(c) = None
  /\ VerdictOf(c)' \in {"error", "passed", "noted", "failed", "unfinished"}
  /\ Contract!Earned(VerdictOf(c)', WorkOf(c))
  /\ WorkOf(c)' = WorkOf(c)
  /\ CheckoutOf(c) = "whole" /\ CheckoutOf(c)' = "whole"
  /\ (c \in reported' <=> c \in reported)

LeaveOf(c) ==
  /\ StageOf(c) = "leaving" /\ StageOf(c)' \in {"leaving", "returned"}
  /\ VerdictOf(c)' = VerdictOf(c) /\ WorkOf(c)' = WorkOf(c)
  /\ \/ CheckoutOf(c)' = CheckoutOf(c)
     \/ CheckoutOf(c) # "none" /\ CheckoutOf(c)' \in {"remains", "none"}
  /\ c \in reported => c \in reported'
  /\ StageOf(c)' = "returned" => CheckoutOf(c)' = "none" \/ c \in reported'

KeepsOf(c) ==
  /\ StageOf(c)' = StageOf(c) /\ WorkOf(c)' = WorkOf(c) /\ VerdictOf(c)' = VerdictOf(c)
  /\ CheckoutOf(c)' = CheckoutOf(c) /\ (c \in reported' <=> c \in reported)

\* These are the contract's own steps.
LEMMA StepsAreTheContracts ==
  ASSUME NEW c \in Calls
  PROVE  /\ RefuseOf(c) => Contract!Refuse(c)
         /\ OpenOf(c) => Contract!Open(c)
         /\ WorkingOf(c) => Contract!Work(c)
         /\ ConcludeOf(c) => Contract!Conclude(c)
         /\ LeaveOf(c) => Contract!Leave(c)
         /\ KeepsOf(c) => Contract!Keeps(c)
<1>1. RefuseOf(c) => Contract!Refuse(c)
  BY DEF RefuseOf, Contract!Refuse, Contract!Unsaid
<1>2. OpenOf(c) => Contract!Open(c)
  BY DEF OpenOf, Contract!Open, Contract!Unsaid
<1>3. WorkingOf(c) => Contract!Work(c)
  BY DEF WorkingOf, Contract!Work, Contract!Unsaid
<1>4. ConcludeOf(c) => Contract!Conclude(c)
  BY DEF ConcludeOf, Contract!Conclude, Contract!Unsaid
<1>5. LeaveOf(c) => Contract!Leave(c)
  BY DEF LeaveOf, Contract!Leave
<1>6. KeepsOf(c) => Contract!Keeps(c)
  BY DEF KeepsOf, Contract!Keeps, Contract!Unsaid
<1> QED
  BY <1>1, <1>2, <1>3, <1>4, <1>5, <1>6

\* A refusal is an answer, and an error.
LEMMA RefusalIsAnError ==
  ASSUME NEW c \in Calls, answer'[c] = Refused
  PROVE  VerdictOf(c)' = "error"
<1>1. Refused \in Answers /\ Refused.error
  BY DEF Refused, Answers
<1>2. Refused # None
  BY <1>1, GateAssumption, Zenon
<1> QED
  BY <1>1, <1>2 DEF VerdictOf

\* Before its checkout a call is refused, or opens it.
LEMMA OpeningKeepsTheContract ==
  ASSUME TypeOK, Nested', NEW c \in Calls, Opens(c), Nested, Ask(c) \/ Lock(c) \/ Add(c)
  PROVE  RefuseOf(c) \/ OpenOf(c) \/ KeepsOf(c)
<1> USE DEF TypeOK, Goto, gitVars, checkVars, treeVars, cleanupVars
<1>1. CASE Ask(c)
  <2>1. /\ pc[c] = "start" /\ UNCHANGED <<gitVars, applied, sound, ran, reported>>
        /\ \/ pc'[c] = "create" /\ UNCHANGED answer
           \/ pc'[c] = "done" /\ answer'[c] = Refused
    BY <1>1 DEF Ask, Refuse
  <2>2. CASE UNCHANGED answer /\ pc'[c] = "create"
    BY <2>1, <2>2 DEF KeepsOf, StageOf, WorkOf, VerdictOf, CheckoutOf
  <2>3. CASE answer'[c] = Refused /\ pc'[c] = "done"
    BY <2>1, <2>3, RefusalIsAnError DEF RefuseOf, StageOf, WorkOf
  <2> QED
    BY <2>1, <2>2, <2>3
<1>2. CASE Lock(c)
  BY <1>2 DEF Lock, KeepsOf, StageOf, WorkOf, VerdictOf, CheckoutOf
<1>3. CASE Add(c)
  <2>1. /\ pc[c] = "adding" /\ UNCHANGED <<applied, sound, ran, reported>>
        /\ \/ /\ pc'[c] = "apply" /\ UNCHANGED answer
              /\ c \in dirs' /\ c \in registered' /\ c \in branches'
           \/ pc'[c] = "done" /\ answer'[c] = Refused
    BY <1>3 DEF Add, Refuse, Parts
  <2>2. CASE pc'[c] = "apply" /\ UNCHANGED answer /\ c \in dirs'
    BY <2>1, <2>2 DEF OpenOf, StageOf, WorkOf, VerdictOf, CheckoutOf, Opens, Nested
  <2>3. CASE pc'[c] = "done" /\ answer'[c] = Refused
    BY <2>1, <2>3, RefusalIsAnError DEF RefuseOf, StageOf, WorkOf
  <2> QED
    BY <2>1, <2>2, <2>3
<1> QED
  BY <1>1, <1>2, <1>3

\* In its checkout a call goes on, or concludes.
LEMMA WorkingKeepsTheContract ==
  ASSUME TypeOK, NEW c \in Calls, Opens(c), ChecksLeft(c), CallInv(c),
         Apply(c) \/ Detect(c) \/ StartCheck(c) \/ EndCheck(c) \/ EndChecks(c)
  PROVE  WorkingOf(c) \/ ConcludeOf(c)
<1> USE DEF TypeOK, Goto, gitVars, checkVars, treeVars, cleanupVars
<1>1. c \in dirs /\ c \in registered /\ c \in branches /\ answer[c] = None
  BY DEF CallInv, HasCheckout, ReportIsSound, Apply, Detect, StartCheck, EndCheck, EndChecks
<1>2. UNCHANGED gitVars /\ UNCHANGED reported
  BY DEF Apply, Detect, StartCheck, EndCheck, EndChecks
<1>3. CheckoutOf(c) = "whole" /\ CheckoutOf(c)' = "whole" /\ VerdictOf(c) = None
  BY <1>1, <1>2 DEF CheckoutOf, VerdictOf
<1>4. CASE Apply(c)
  <2>1. /\ pc[c] = "apply" /\ UNCHANGED <<sound, ran>> /\ sound[c] /\ ran[c] = 0
        /\ applied[c] = "none"
        /\ \/ pc'[c] = "detect" /\ UNCHANGED answer /\ applied'[c] = "all"
           \/ pc'[c] = "remove" /\ answer'[c] = Refused /\ applied'[c] \in {"none", "some"}
    BY <1>4 DEF Apply, Refuse, CallInv, ReportIsSound, ChecksLeft, Opens
  <2>2. CASE pc'[c] = "detect" /\ UNCHANGED answer /\ applied'[c] = "all"
    <3>1. WorkOf(c) = "unready" /\ WorkOf(c)' = "ready"
      BY <2>1, <2>2 DEF WorkOf
    <3> QED
      BY <1>2, <1>3, <2>1, <2>2, <3>1 DEF WorkingOf, StageOf, VerdictOf, Contract!Leads
  <2>3. CASE pc'[c] = "remove" /\ answer'[c] = Refused /\ applied'[c] \in {"none", "some"}
    <3>1. WorkOf(c) = "unready" /\ WorkOf(c)' = "unready"
      BY <2>1, <2>3 DEF WorkOf
    <3>2. VerdictOf(c)' = "error"
      BY <2>3, RefusalIsAnError
    <3> QED
      BY <1>2, <1>3, <2>1, <2>3, <3>1, <3>2 DEF ConcludeOf, StageOf, Contract!Earned
  <2> QED
    BY <2>1, <2>2, <2>3
<1>5. CASE Detect(c) \/ StartCheck(c) \/ EndChecks(c)
  <2>1. UNCHANGED <<applied, sound, ran, answer>>
    BY <1>5 DEF Detect, StartCheck, EndChecks
  <2>2. /\ pc[c] \in {"detect", "check", "running"}
        /\ pc'[c] \in {"check", "running", "diff"}
    BY <1>5 DEF Detect, StartCheck, EndChecks
  <2>3. WorkOf(c)' = WorkOf(c) /\ VerdictOf(c)' = VerdictOf(c)
    BY <2>1 DEF WorkOf, VerdictOf
  <2> QED
    BY <1>2, <1>3, <2>2, <2>3 DEF WorkingOf, StageOf, Contract!Leads
<1>6. CASE EndCheck(c)
  <2>1. /\ pc[c] = "running" /\ pc'[c] = "check" /\ UNCHANGED <<applied, answer>>
        /\ ran' = [ran EXCEPT ![c] = @ + 1]
    BY <1>6 DEF EndCheck
  <2>0. sound'[c] => sound[c]
    <3>1. PICK exit \in Exits(Head(plan[c])) \cup {"killed"}, inTime \in BOOLEAN :
            sound' = [sound EXCEPT ![c] = @ /\ Judged(exit) # "failed" /\ inTime]
      BY <1>6 DEF EndCheck
    <3> QED
      BY <3>1
  <2>2. applied[c] = "all" /\ ran'[c] # 0
    <3>1. ran[c] \in 0..6 /\ ran'[c] = ran[c] + 1
      BY <2>1
    <3> QED
      BY <2>1, <3>1 DEF CallInv, ReportIsSound
  <2>3. WorkOf(c)' \in {"content", "spoiled"} /\ WorkOf(c) \in {"ready", "content", "spoiled"}
        /\ (WorkOf(c) = "spoiled" => WorkOf(c)' = "spoiled")
    BY <2>0, <2>1, <2>2 DEF WorkOf
  <2>4. VerdictOf(c)' = VerdictOf(c)
    BY <2>1 DEF VerdictOf
  <2> QED
    BY <1>2, <1>3, <2>1, <2>3, <2>4 DEF WorkingOf, StageOf, Contract!Leads
<1> QED
  BY <1>4, <1>5, <1>6

\* The answer is earned.
LEMMA AnswerKeepsTheContract ==
  ASSUME TypeOK, TypeOK', NEW c \in Calls, CallInv(c), CallInv(c)', Answer(c)
  PROVE  ConcludeOf(c)
<1> USE DEF TypeOK, Goto, gitVars, checkVars, treeVars, cleanupVars
<1>1. /\ pc[c] = "diff" /\ pc'[c] = "remove"
      /\ UNCHANGED <<gitVars, applied, sound, ran, plan, reported>>
  BY DEF Answer
<1>2. c \in dirs /\ c \in registered /\ c \in branches /\ answer[c] = None /\ applied[c] = "all"
  BY <1>1 DEF CallInv, HasCheckout, ReportIsSound
<1>3. answer'[c] \in Answers /\ answer'[c] # None /\ ~answer'[c].error
  <2>1. PICK read \in BOOLEAN :
          answer' = [answer EXCEPT ![c] =
                       [error |-> FALSE, passed |-> Passed(c),
                        noted |-> results[c] \cap NotedResults # {},
                        failed |-> ~ended[c] /\ ~(results[c] \subseteq PassedResults),
                        changes |-> IF read THEN [extra |-> extra[c]] ELSE None]]
    BY Zenon DEF Answer
  <2>2. ~answer'[c].error
    BY <2>1
  <2>3. answer'[c] \in Answers
    BY <2>1 DEF Answers, Passed
  <2> QED
    BY <2>2, <2>3, GateAssumption, Zenon
<1>4. answer'[c].passed => sound[c] /\ (ran[c] = 0 => answer'[c].noted)
  BY <1>1, <1>3 DEF CallInv, ReportIsSound, Answered
<1>5. WorkOf(c)' = WorkOf(c)
  BY <1>1 DEF WorkOf
<1>6. CheckoutOf(c) = "whole" /\ CheckoutOf(c)' = "whole"
  BY <1>1, <1>2 DEF CheckoutOf
<1>7. /\ VerdictOf(c) = None /\ VerdictOf(c)' \in {"passed", "noted", "failed", "unfinished"}
      /\ VerdictOf(c)' \in {"passed", "noted"} => answer'[c].passed
      /\ VerdictOf(c)' = "passed" => ~answer'[c].noted
  BY <1>2, <1>3 DEF VerdictOf
<1>8. Contract!Earned(VerdictOf(c)', WorkOf(c))
  BY <1>2, <1>4, <1>7 DEF Contract!Earned, WorkOf
<1> QED
  BY <1>1, <1>5, <1>6, <1>7, <1>8 DEF ConcludeOf, StageOf

\* The cleanup takes the checkout and nothing else.
LEMMA LeavingKeepsTheContract ==
  ASSUME TypeOK, NEW c \in Calls, Nested, Nested', CallInv(c)', c \in held,
         Remove(c) \/ Prune(c) \/ DeleteBranch(c)
  PROVE  LeaveOf(c)
<1> USE DEF TypeOK, Goto, gitVars, checkVars, treeVars, cleanupVars
<1>1. /\ pc[c] \in {"remove", "prune", "branch"} /\ pc'[c] \in {"prune", "branch", "done"}
      /\ UNCHANGED <<applied, sound, ran, answer, held>>
  BY DEF Remove, Prune, DeleteBranch
<1>2. StageOf(c) = "leaving" /\ StageOf(c)' \in {"leaving", "returned"}
      /\ (StageOf(c)' = "returned" => pc'[c] = "done")
  BY <1>1 DEF StageOf
<1>3. VerdictOf(c)' = VerdictOf(c) /\ WorkOf(c)' = WorkOf(c)
  BY <1>1 DEF VerdictOf, WorkOf
<1>4. dirs' \subseteq dirs /\ registered' \subseteq registered /\ branches' \subseteq branches
  BY DEF Remove, Prune, DeleteBranch
<1>5. \/ CheckoutOf(c)' = CheckoutOf(c)
      \/ CheckoutOf(c) # "none" /\ CheckoutOf(c)' \in {"remains", "none"}
  BY <1>4 DEF CheckoutOf, Nested
<1>6. c \in reported => c \in reported'
  BY DEF Remove, Prune, DeleteBranch, Report
<1>7. pc'[c] = "done" => CheckoutOf(c)' = "none" \/ c \in reported'
  BY <1>1 DEF CallInv, IsAccountedFor, CheckoutOf
<1> QED
  BY <1>2, <1>3, <1>5, <1>6, <1>7 DEF LeaveOf

\* A call that is given up does not change.
LEMMA GiveUpIsNotSeen ==
  ASSUME NEW c \in Calls, GiveUp(c)
  PROVE  KeepsOf(c)
BY DEF GiveUp, gitVars, checkVars, treeVars, cleanupVars, KeepsOf, StageOf, WorkOf, VerdictOf,
       CheckoutOf

\* What a step of another call does to the registrations does not show.
LEMMA OthersAreNotSeen ==
  ASSUME Nested, Nested', NEW c \in Calls, Untouched(c), c \in reported' <=> c \in reported
  PROVE  KeepsOf(c)
<1>1. StageOf(c)' = StageOf(c)
  BY DEF Untouched, StageOf
<1>2. WorkOf(c)' = WorkOf(c)
  BY DEF Untouched, WorkOf
<1>3. VerdictOf(c)' = VerdictOf(c)
  BY DEF Untouched, VerdictOf
<1>4. CheckoutOf(c)' = CheckoutOf(c)
  BY DEF Untouched, CheckoutOf, Nested
<1> QED
  BY <1>1, <1>2, <1>3, <1>4 DEF KeepsOf

\* Only a call's own cleanup reports its failure.
LEMMA OthersAreNotReported ==
  ASSUME NEW d \in Calls, CallStep(d) \/ GiveUp(d), NEW c \in Calls, c # d
  PROVE  c \in reported' <=> c \in reported
BY DEF CallStep, Ask, Lock, Add, Apply, Detect, StartCheck, EndCheck, EndChecks, Answer, Remove,
       Prune, DeleteBranch, GiveUp, Report, cleanupVars

\* A step of a call is one of the contract for it, or is not seen.
LEMMA OwnStep ==
  ASSUME IInv, IInv', RangeInv, RangeInv', DiskInv, DiskInv',
         NEW c \in Calls, CallStep(c) \/ GiveUp(c)
  PROVE  RefuseOf(c) \/ OpenOf(c) \/ WorkingOf(c) \/ ConcludeOf(c) \/ LeaveOf(c) \/ KeepsOf(c)
<1>1. /\ TypeOK /\ TypeOK' /\ ChecksLeft(c) /\ Nested /\ Nested' /\ Opens(c)
      /\ CallInv(c) /\ CallInv(c)'
  BY DEF IInv, RangeInv, DiskInv
<1>2. CASE Ask(c) \/ Lock(c) \/ Add(c)
  BY <1>1, <1>2, OpeningKeepsTheContract
<1>3. CASE Apply(c) \/ Detect(c) \/ StartCheck(c) \/ EndCheck(c) \/ EndChecks(c)
  BY <1>1, <1>3, WorkingKeepsTheContract
<1>4. CASE Answer(c)
  BY <1>1, <1>4, AnswerKeepsTheContract
<1>5. CASE Remove(c) \/ Prune(c) \/ DeleteBranch(c)
  <2>1. c \in held
    BY <1>1, <1>5 DEF Opens, Remove, Prune, DeleteBranch
  <2> QED
    BY <1>1, <1>5, <2>1, LeavingKeepsTheContract
<1>6. CASE GiveUp(c)
  BY <1>6, GiveUpIsNotSeen
<1> QED
  BY <1>2, <1>3, <1>4, <1>5, <1>6 DEF CallStep

\* Nothing is seen of a step that every call keeps through.
LEMMA NothingSeen ==
  ASSUME reported \subseteq Calls, reported' \subseteq Calls, \A c \in Calls : KeepsOf(c)
  PROVE  UNCHANGED Contract!callVars
<1>1. reported' = reported
  BY DEF KeepsOf
<1>2. /\ [c \in Calls |-> StageOf(c)]' = [c \in Calls |-> StageOf(c)]
      /\ [c \in Calls |-> WorkOf(c)]' = [c \in Calls |-> WorkOf(c)]
      /\ [c \in Calls |-> VerdictOf(c)]' = [c \in Calls |-> VerdictOf(c)]
      /\ [c \in Calls |-> CheckoutOf(c)]' = [c \in Calls |-> CheckoutOf(c)]
  BY DEF KeepsOf
<1> QED
  BY <1>1, <1>2 DEF Contract!callVars

\* For any calls in flight, any stacks and every fault: each call works in a whole
\* checkout of its own, is answered once and as its checks had it, and returns when
\* its checkout is gone or an error was logged, and no call sees another (Gate.Verify,
\* Manager.Create, Manager.Cleanup).
THEOREM Refinement == Spec => ImplementsContract
<1>1. Init => Contract!Start
  <2> SUFFICES ASSUME Init, NEW c \in Calls
               PROVE  /\ StageOf(c) = "asked" /\ WorkOf(c) = "unready" /\ VerdictOf(c) = None
                      /\ CheckoutOf(c) = "none" /\ c \notin reported
    BY DEF Contract!Start
  <2> QED
    BY DEF Init, StageOf, WorkOf, VerdictOf, CheckoutOf
<1>2. /\ IInv /\ RangeInv /\ DiskInv /\ IInv' /\ RangeInv' /\ DiskInv' /\ [Next]_vars
      => [Contract!Next]_(Contract!callVars)
  <2> SUFFICES ASSUME IInv, RangeInv, DiskInv, IInv', RangeInv', DiskInv', [Next]_vars
               PROVE  Contract!Next \/ UNCHANGED Contract!callVars
    OBVIOUS
  <2>1. reported \subseteq Calls /\ reported' \subseteq Calls
    BY DEF RangeInv, TypeOK
  <2>2. ASSUME NEW d \in Calls, CallStep(d) \/ GiveUp(d)
        PROVE  Contract!Next \/ UNCHANGED Contract!callVars
    <3>1. ASSUME NEW c \in Calls, c # d PROVE KeepsOf(c)
      BY <2>2, <3>1, OthersAreUntouched, OthersAreNotReported, OthersAreNotSeen
         DEF IInv, DiskInv
    <3>2. CASE KeepsOf(d)
      BY <2>1, <3>1, <3>2, NothingSeen
    <3>3. CASE RefuseOf(d) \/ OpenOf(d) \/ WorkingOf(d) \/ ConcludeOf(d) \/ LeaveOf(d)
      <4>1. \/ Contract!Refuse(d) \/ Contract!Open(d) \/ Contract!Work(d)
            \/ Contract!Conclude(d) \/ Contract!Leave(d)
        BY <3>3, StepsAreTheContracts
      <4>2. \A c \in Calls \ {d} : Contract!Keeps(c)
        BY <3>1, StepsAreTheContracts
      <4> QED
        BY <4>1, <4>2 DEF Contract!Next
    <3> QED
      BY <2>2, <3>2, <3>3, OwnStep
  <2>3. CASE UNCHANGED vars
    <3>1. ASSUME NEW c \in Calls PROVE KeepsOf(c)
      BY <2>3 DEF vars, gitVars, checkVars, treeVars, cleanupVars, KeepsOf, StageOf, WorkOf,
                  VerdictOf, CheckoutOf
    <3> QED
      BY <2>1, <3>1, NothingSeen
  <2> QED
    BY <2>2, <2>3 DEF Next, AllDone
<1> QED
  BY <1>1, <1>2, Invariant, RangesHold, DiskInvHolds, PTL
     DEF Spec, ImplementsContract, Contract!Promises
=============================================================================
