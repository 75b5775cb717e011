--------------------------- MODULE BenchmarkProofs ---------------------------
(***************************************************************************)
(* What rojo-bench reports of a case is true of its own job, for any       *)
(* number of cases and of workers and with every failure.                  *)
(***************************************************************************)
EXTENDS Benchmark, TLAPS

\* Cases are run in order: the later ones have left no trace, and of those
\* before only the ones in left have a job that is not over.
InOrder ==
  /\ pc # "over" => current <= N
  /\ \A d \in left : d < current
  /\ \A c \in Cases : c >= current => result[c] = NoResult
  /\ \A c \in Cases : c > current => job[c] = "none" /\ spent[c] = 0
  /\ \A c \in Cases : c < current /\ job[c] \in {"queued", "running"} => c \in left

\* The case in hand: its job is made by Submit, is over once it was waited for,
\* and is the only one that makes calls.
InHand ==
  /\ ~seen.measured
  /\ pc \in {"before", "prepare", "submit", "wait", "after"} => seen.calls = Unread
  /\ pc # "over" =>
       /\ pc \in {"before", "prepare", "submit"} => job[current] = "none" /\ spent[current] = 0
       /\ pc \in {"after", "diff", "apply", "assert"} => Terminal(job[current])
       /\ left = {} /\ pc \in {"prepare", "submit", "wait", "after"} => counter = base + spent[current]
       /\ left = {} /\ pc \in {"diff", "apply", "assert"} /\ seen.calls # Unread =>
            seen.calls = spent[current]

\* What was measured is over, and what it was measured by stays.
MeasuredIsOver == \A c \in Cases : Measured(c) => Terminal(job[c])

IInv == TypeOK /\ InOrder /\ InHand /\ MeasuredIsOver /\ TaskSuccessIsTrue /\ AttributionIsExact

USE DEF Cases, Unread, NoResult, JobStates, Terminal

\* With the real assertions laid over the patched copy, go test passes for a
\* patch that does the task or evades them, and for no other.
LEMMA JudgedIsTrue == \A p \in Patches : TestsPass(Judged(p)) <=> p \in Counts
  BY DEF Patches, TestsPass, Judged, Overlaid, Patched, Clean, Counts

\* Before the first case the invariant holds.
LEMMA InitIInv == Init => IInv
<1> SUFFICES ASSUME Init PROVE IInv
  OBVIOUS
<1> USE BenchmarkAssumption
<1>1. TypeOK
  BY DEF Init, TypeOK, Patches
<1>2. InOrder /\ InHand
  BY DEF Init, InOrder, InHand
<1>3. MeasuredIsOver /\ TaskSuccessIsTrue /\ AttributionIsExact
  BY DEF Init, MeasuredIsOver, TaskSuccessIsTrue, AttributionIsExact, Measured
<1> QED
  BY <1>1, <1>2, <1>3 DEF IInv

\* A case returns with r, its job as it is or just submitted.
LEMMA ReturnKeeps ==
  ASSUME IInv, pc # "over", NEW r, Return(r),
         r \in [error : BOOLEAN, measured : BOOLEAN, pipeline : BOOLEAN, truth : BOOLEAN,
                calls : Int],
         UNCHANGED <<spent, patch, counter>>,
         \/ job' = job
         \/ pc = "submit" /\ ~r.measured /\ job' = [job EXCEPT ![current] = "queued"],
         r.measured => /\ pc \in {"apply", "assert"} /\ r.calls = seen.calls
                       /\ r.truth => patch[current] \in Counts
  PROVE  IInv'
<1> USE BenchmarkAssumption
<1>1. current \in Cases /\ current + 1 \in 1..(N + 1)
  BY DEF IInv, TypeOK, InOrder
<1>2. /\ result' = [result EXCEPT ![current] = r]
      /\ left' = IF job'[current] \in {"queued", "running"} THEN left \cup {current} ELSE left
      /\ seen' = NoResult /\ base' = 0 /\ current' = current + 1
      /\ pc' \in {"over", "before"}
      /\ pc' # "over" => current' <= N
      /\ ctx' \in {"live", "late", "stopped"}
  BY <1>1 DEF Return, Goto, IInv, TypeOK
<1>3. /\ job' \in [Cases -> JobStates]
      /\ \A c \in Cases : c # current => job'[c] = job[c]
  BY <1>1 DEF IInv, TypeOK
<1>4. TypeOK'
  BY <1>1, <1>2, <1>3 DEF IInv, TypeOK
<1>5. InOrder'
  <2>1. \A d \in left' : d < current'
    <3>1. left' \subseteq left \cup {current}
      BY <1>2
    <3>2. \A d \in left : d \in Int /\ d < current
      BY DEF IInv, TypeOK, InOrder
    <3>3. current \in Int /\ current' = current + 1
      BY <1>1, <1>2
    <3> QED
      BY <3>1, <3>2, <3>3
  <2>2. \A c \in Cases : c >= current' => c > current /\ result'[c] = NoResult
    <3>1. \A c \in Cases : c >= current' => c > current
      BY <1>1, <1>2
    <3>2. \A c \in Cases : c > current => result'[c] = result[c] /\ result[c] = NoResult
      BY <1>1, <1>2 DEF IInv, TypeOK, InOrder
    <3> QED
      BY <3>1, <3>2
  <2>3. \A c \in Cases : c > current' => job'[c] = "none" /\ spent'[c] = 0
    BY <1>1, <1>2, <1>3 DEF IInv, TypeOK, InOrder
  <2>4. \A c \in Cases : c < current' /\ job'[c] \in {"queued", "running"} => c \in left'
    BY <1>1, <1>2, <1>3 DEF IInv, TypeOK, InOrder
  <2> QED
    BY <1>2, <2>1, <2>2, <2>3, <2>4 DEF InOrder
<1>6. InHand'
  BY <1>1, <1>2, <1>3 DEF IInv, TypeOK, InOrder, InHand
<1>7. \A c \in Cases : c # current => result'[c] = result[c]
  BY <1>1, <1>2 DEF IInv, TypeOK
<1>8. result'[current] = r /\ (r.measured => job' = job)
  BY <1>1, <1>2 DEF IInv, TypeOK
<1>9. MeasuredIsOver'
  BY <1>1, <1>3, <1>7, <1>8 DEF IInv, MeasuredIsOver, Measured, InHand
<1>10. TaskSuccessIsTrue'
  BY <1>1, <1>7, <1>8 DEF IInv, TaskSuccessIsTrue, Measured
<1>11. AttributionIsExact'
  <2> SUFFICES ASSUME NEW c \in Cases, Measured(c)', result'[c].calls # Unread, \A d \in left' : d > c
               PROVE  result'[c].calls = spent[c]
    BY DEF AttributionIsExact
  <2>1. CASE c = current
    <3>1. left = {}
      BY <1>1, <1>2, <2>1 DEF IInv, InOrder, TypeOK
    <3> QED
      BY <1>8, <2>1, <3>1 DEF IInv, InHand, Measured
  <2>2. CASE c # current
    BY <1>2, <1>7, <2>2 DEF IInv, AttributionIsExact, Measured
  <2> QED
    BY <2>1, <2>2
<1> QED
  BY <1>4, <1>5, <1>6, <1>9, <1>10, <1>11 DEF IInv

\* Every step keeps it.
LEMMA StepIInv == IInv /\ [Next]_vars => IInv'
<1> SUFFICES ASSUME IInv, [Next]_vars PROVE IInv'
  OBVIOUS
<1> USE BenchmarkAssumption
<1>1. ASSUME NEW c \in Cases, StartJob(c) PROVE IInv'
  <2> USE <1>1 DEF StartJob, IInv, TypeOK
  <2>1. TypeOK'
    OBVIOUS
  <2>2. InOrder'
    BY DEF InOrder
  <2>3. InHand'
    <3>1. InHand /\ UNCHANGED <<spent, counter, current, pc, base, seen, left>>
      OBVIOUS
    <3>2. job' = [job EXCEPT ![c] = "running"] /\ job[c] = "queued" /\ job \in [Cases -> JobStates]
      OBVIOUS
    <3>3. pc # "over" => current \in Cases
      BY DEF InOrder, Cases
    <3> HIDE <1>1 DEF StartJob, IInv, TypeOK
    <3>4. pc # "over" => job'[current] = job[current] \/ job[current] = "queued"
      BY <3>2, <3>3
    <3> QED
      BY <3>1, <3>4 DEF InHand, Terminal
  <2>4. MeasuredIsOver' /\ TaskSuccessIsTrue' /\ AttributionIsExact'
    BY DEF MeasuredIsOver, TaskSuccessIsTrue, AttributionIsExact, Measured
  <2> QED
    BY <2>1, <2>2, <2>3, <2>4
<1>2. ASSUME NEW c \in Cases, CallModel(c) PROVE IInv'
  <2> USE <1>2 DEF CallModel, IInv, TypeOK
  <2>1. TypeOK'
    <3>1. spent' = [spent EXCEPT ![c] = @ + 1] /\ spent[c] < MaxCalls /\ counter' = counter + 1
      OBVIOUS
    <3>2. UNCHANGED <<job, patch, current, pc, ctx, base, seen, result, left>>
      OBVIOUS
    <3>3. TypeOK
      OBVIOUS
    <3> HIDE <1>2 DEF CallModel, IInv
    <3>4. spent' \in [Cases -> 0..MaxCalls] /\ counter' \in Nat
      <4>1. spent \in [Cases -> 0..MaxCalls] /\ counter \in Nat
        BY <3>3
      <4> HIDE DEF TypeOK
      <4> QED
        BY <3>1, <4>1
    <3> QED
      BY <3>2, <3>3, <3>4
  <2>2. InOrder'
    BY DEF InOrder
  <2>3. left = {} /\ pc # "over" => c = current
    BY DEF InOrder
  <2>4. InHand'
    <3>1. CASE c # current
      <4>1. left = {} => pc = "over"
        BY <2>3, <3>1
      <4>2. InHand /\ UNCHANGED <<job, current, pc, base, seen, left>>
        OBVIOUS
      <4>3. spent' = [spent EXCEPT ![c] = @ + 1] /\ spent \in [Cases -> 0..MaxCalls]
        OBVIOUS
      <4>4. pc # "over" => current \in Cases
        BY DEF InOrder, Cases
      <4> HIDE <1>2 DEF CallModel, IInv, TypeOK
      <4>5. pc # "over" => spent'[current] = spent[current]
        BY <3>1, <4>3, <4>4
      <4> QED
        BY <4>1, <4>2, <4>5 DEF InHand
    <3>2. CASE c = current
      <4>1. counter' = counter + 1 /\ spent'[current] = spent[current] + 1 /\ job[current] = "running"
        BY <3>2
      <4>2. pc # "over" => pc = "wait"
        BY <4>1 DEF InHand
      <4>3. left = {} /\ pc = "wait" => counter' = base + spent'[current]
        BY <4>1, <3>2 DEF InHand
      <4> HIDE <1>2 DEF CallModel, IInv, TypeOK
      <4>4. /\ job' = job /\ UNCHANGED <<current, pc, base, seen, left>> /\ ~seen.measured
            /\ pc = "wait" => seen.calls = Unread
        BY <1>2 DEF CallModel, IInv, InHand
      <4> QED
        BY <4>1, <4>2, <4>3, <4>4 DEF InHand
    <3> QED
      BY <3>1, <3>2
  <2>5. MeasuredIsOver' /\ TaskSuccessIsTrue' /\ AttributionIsExact'
    BY DEF MeasuredIsOver, TaskSuccessIsTrue, AttributionIsExact, Measured
  <2> QED
    BY <2>1, <2>2, <2>4, <2>5
<1>3. ASSUME NEW c \in Cases, EndJob(c) PROVE IInv'
  <2> USE <1>3 DEF EndJob, IInv, TypeOK
  <2>1. TypeOK'
    <3>1. job' \in [Cases -> JobStates] /\ patch' \in [Cases -> Patches]
      OBVIOUS
    <3>2. UNCHANGED <<spent, counter, current, pc, ctx, base, seen, result, left>>
      OBVIOUS
    <3>3. TypeOK
      OBVIOUS
    <3> HIDE <1>3 DEF EndJob, IInv
    <3> QED
      BY <3>1, <3>2, <3>3
  <2>2. InOrder'
    BY DEF InOrder
  <2>3. InHand'
    BY DEF InHand, InOrder
  <2>4. /\ ~Measured(c) /\ UNCHANGED <<spent, result, left>>
        /\ \A d \in Cases : d # c => job'[d] = job[d] /\ patch'[d] = patch[d]
    BY DEF MeasuredIsOver, Terminal
  <2>5. MeasuredIsOver /\ TaskSuccessIsTrue /\ AttributionIsExact
    OBVIOUS
  <2> HIDE <1>3 DEF EndJob, IInv, TypeOK
  <2>6. MeasuredIsOver' /\ TaskSuccessIsTrue'
    BY <2>4, <2>5 DEF MeasuredIsOver, TaskSuccessIsTrue, Measured, Terminal
  <2>7. AttributionIsExact'
    BY <2>4, <2>5 DEF AttributionIsExact, Measured
  <2> QED
    BY <2>1, <2>2, <2>3, <2>6, <2>7 DEF IInv
<1>4. ASSUME Expire \/ Interrupt \/ Over \/ UNCHANGED vars PROVE IInv'
  <2>1. UNCHANGED <<serverVars, current, pc, base, seen, result, left>> /\ ctx' \in {"live", "late", "stopped"}
    BY <1>4 DEF Expire, Interrupt, Over, vars, IInv, TypeOK
  <2> QED
    BY <2>1 DEF serverVars, IInv, TypeOK, InOrder, InHand, MeasuredIsOver, TaskSuccessIsTrue,
                AttributionIsExact, Measured
<1>5. CASE pc # "over" /\ UNCHANGED serverVars /\ GiveUp
  <2>1. [seen EXCEPT !.error = TRUE] \in [error : BOOLEAN, measured : BOOLEAN, pipeline : BOOLEAN,
                                         truth : BOOLEAN, calls : Int]
    BY DEF IInv, TypeOK
  <2> QED
    BY <1>5, <2>1, ReturnKeeps DEF GiveUp, serverVars, IInv, InHand
<1>6. ASSUME NEW passed \in BOOLEAN, UNCHANGED serverVars, Verdict(passed),
             pc \in {"apply", "assert"}, passed => patch[current] \in Counts
      PROVE  IInv'
  <2>1. [seen EXCEPT !.measured = TRUE, !.truth = passed]
          \in [error : BOOLEAN, measured : BOOLEAN, pipeline : BOOLEAN, truth : BOOLEAN, calls : Int]
    BY DEF IInv, TypeOK
  <2>2. [seen EXCEPT !.measured = TRUE, !.truth = passed].calls = seen.calls
    BY DEF IInv, TypeOK
  <2>3. [seen EXCEPT !.measured = TRUE, !.truth = passed].truth = passed
    BY DEF IInv, TypeOK
  <2> QED
    BY <1>6, <2>1, <2>2, <2>3, ReturnKeeps DEF Verdict, serverVars
<1>7. ASSUME ReadBefore PROVE IInv'
  <2>1. CASE GiveUp
    BY <1>5, <1>7, <2>1 DEF ReadBefore
  <2>2. CASE base' = counter /\ Goto("prepare") /\ UNCHANGED <<current, ctx, seen, result, left>>
    <3>1. UNCHANGED serverVars /\ pc = "before"
      BY <1>7 DEF ReadBefore
    <3> QED
      BY <2>2, <3>1 DEF Goto, serverVars, IInv, TypeOK, InOrder, InHand, MeasuredIsOver,
                        TaskSuccessIsTrue, AttributionIsExact, Measured
  <2> QED
    BY <1>7, <2>1, <2>2 DEF ReadBefore
<1>8. ASSUME Prepare PROVE IInv'
  <2>1. CASE GiveUp
    BY <1>5, <1>8, <2>1 DEF Prepare
  <2>2. CASE Goto("submit") /\ UNCHANGED <<current, ctx, base, seen, result, left>>
    <3>1. UNCHANGED serverVars /\ pc = "prepare"
      BY <1>8 DEF Prepare
    <3> QED
      BY <2>2, <3>1 DEF Goto, serverVars, IInv, TypeOK, InOrder, InHand, MeasuredIsOver,
                        TaskSuccessIsTrue, AttributionIsExact, Measured
  <2> QED
    BY <1>8, <2>1, <2>2 DEF Prepare
<1>9. ASSUME Submit PROVE IInv'
  <2> UNCHANGED <<spent, patch, counter>> /\ pc = "submit" /\ current \in Cases
    BY <1>9 DEF Submit, IInv, TypeOK, InOrder
  <2>1. ASSUME GiveUp, NEW state \in {"none", "queued"}, job' = [job EXCEPT ![current] = state]
        PROVE  IInv'
    <3>1. job' = job \/ job' = [job EXCEPT ![current] = "queued"]
      BY <2>1 DEF IInv, TypeOK, InHand
    <3>2. [seen EXCEPT !.error = TRUE] \in [error : BOOLEAN, measured : BOOLEAN, pipeline : BOOLEAN,
                                           truth : BOOLEAN, calls : Int]
      BY DEF IInv, TypeOK
    <3>3. ~[seen EXCEPT !.error = TRUE].measured
      BY DEF IInv, TypeOK, InHand
    <3> QED
      BY <2>1, <3>1, <3>2, <3>3, ReturnKeeps DEF GiveUp
  <2>2. ASSUME job' = [job EXCEPT ![current] = "queued"], Goto("wait"),
               UNCHANGED <<current, ctx, base, seen, result, left>>
        PROVE  IInv'
    <3> USE <2>2 DEF Goto, IInv, TypeOK
    <3>1. TypeOK' /\ InOrder'
      BY DEF InOrder
    <3>2. InHand'
      BY DEF InHand
    <3>3. MeasuredIsOver' /\ TaskSuccessIsTrue' /\ AttributionIsExact'
      BY DEF MeasuredIsOver, TaskSuccessIsTrue, AttributionIsExact, Measured, InHand
    <3> QED
      BY <3>1, <3>2, <3>3
  <2> QED
    BY <1>9, <2>1, <2>2 DEF Submit
<1>10. ASSUME Wait PROVE IInv'
  <2>1. CASE GiveUp
    BY <1>5, <1>10, <2>1 DEF Wait
  <2>2. ASSUME Terminal(job[current]), Goto("after"), UNCHANGED <<current, ctx, base, result, left>>,
               seen' = [seen EXCEPT !.pipeline = job[current] = "completed"]
        PROVE  IInv'
    <3>1. UNCHANGED serverVars /\ pc = "wait"
      BY <1>10 DEF Wait
    <3>2. (job[current] = "completed") \in BOOLEAN
      OBVIOUS
    <3> QED
      BY <2>2, <3>1, <3>2 DEF Goto, serverVars, IInv, TypeOK, InOrder, InHand, MeasuredIsOver,
                        TaskSuccessIsTrue, AttributionIsExact, Measured
  <2> QED
    BY <1>10, <2>1, <2>2 DEF Wait
<1>11. ASSUME ReadAfter PROVE IInv'
  <2>1. UNCHANGED <<serverVars, current, ctx, base, result, left>> /\ pc = "after" /\ pc' = "diff"
    BY <1>11 DEF ReadAfter, Goto
  <2>2. seen' = seen \/ seen' = [seen EXCEPT !.calls = counter - base]
    BY <1>11 DEF ReadAfter
  <2>3. TypeOK'
    <3>1. TypeOK
      BY DEF IInv
    <3>2. seen'.measured = seen.measured /\ seen' = [seen EXCEPT !.calls = seen'.calls]
          /\ seen'.calls \in Int
      BY <2>2, <3>1 DEF TypeOK
    <3> QED
      BY <2>1, <3>1, <3>2 DEF serverVars, TypeOK
  <2>4. InOrder'
    BY <2>1 DEF serverVars, IInv, InOrder
  <2>5. InHand'
    <3>1. ~seen'.measured
      BY <2>2 DEF IInv, InHand, TypeOK
    <3>2. left = {} => counter - base = spent[current]
      BY <2>1 DEF IInv, InHand, TypeOK, InOrder
    <3>3. CASE seen' = seen
      BY <2>1, <3>3 DEF serverVars, IInv, InHand, InOrder
    <3>4. CASE seen' = [seen EXCEPT !.calls = counter - base]
      <4>1. seen'.calls = counter - base
        BY <3>4 DEF IInv, TypeOK
      <4> QED
        BY <2>1, <3>1, <3>2, <4>1 DEF serverVars, IInv, InHand
    <3> QED
      BY <2>2, <3>3, <3>4
  <2>6. MeasuredIsOver' /\ TaskSuccessIsTrue' /\ AttributionIsExact'
    BY <2>1 DEF serverVars, IInv, MeasuredIsOver, TaskSuccessIsTrue, AttributionIsExact, Measured
  <2> QED
    BY <2>3, <2>4, <2>5, <2>6 DEF IInv
<1>12. ASSUME FetchDiff PROVE IInv'
  <2>1. CASE GiveUp
    BY <1>5, <1>12, <2>1 DEF FetchDiff
  <2>2. CASE pc' \in {"apply", "assert"} /\ UNCHANGED <<current, ctx, base, seen, result, left>>
    <3>1. UNCHANGED serverVars /\ pc = "diff"
      BY <1>12 DEF FetchDiff
    <3> QED
      BY <2>2, <3>1 DEF serverVars, IInv, TypeOK, InOrder, InHand, MeasuredIsOver,
                        TaskSuccessIsTrue, AttributionIsExact, Measured
  <2> QED
    BY <1>12, <2>1, <2>2 DEF FetchDiff, Goto
<1>13. ASSUME Apply PROVE IInv'
  <2>1. CASE Verdict(FALSE)
    BY <1>6, <1>13, <2>1 DEF Apply
  <2>2. CASE Goto("assert") /\ UNCHANGED <<current, ctx, base, seen, result, left>>
    <3>1. UNCHANGED serverVars /\ pc = "apply"
      BY <1>13 DEF Apply
    <3> QED
      BY <2>2, <3>1 DEF Goto, serverVars, IInv, TypeOK, InOrder, InHand, MeasuredIsOver,
                        TaskSuccessIsTrue, AttributionIsExact, Measured
  <2> QED
    BY <1>13, <2>1, <2>2 DEF Apply
<1>14. ASSUME Assert PROVE IInv'
  <2>1. CASE GiveUp
    BY <1>5, <1>14, <2>1 DEF Assert
  <2>2. CASE Verdict(TestsPass(Judged(patch[current])))
    <3>1. current \in Cases /\ patch[current] \in Patches
      BY <1>14 DEF Assert, IInv, TypeOK, InOrder
    <3>2. TestsPass(Judged(patch[current])) \in BOOLEAN
      BY <3>1 DEF TestsPass, Judged, Overlaid, Patched, Clean
    <3> QED
      BY <1>6, <1>14, <2>2, <3>1, <3>2, JudgedIsTrue DEF Assert
  <2> QED
    BY <1>14, <2>1, <2>2 DEF Assert
<1> QED
  BY <1>1, <1>2, <1>3, <1>4, <1>7, <1>8, <1>9, <1>10, <1>11, <1>12, <1>13, <1>14
  DEF Next, Server, Harness

\* Every reachable state satisfies the inductive invariant.
THEOREM Invariant == Spec => []IInv
<1> QED
  BY InitIInv, StepIInv, PTL DEF Spec

\* The variables of the harness have the types of TypeOK.
THEOREM TypeCorrect == Spec => []TypeOK
<1>1. IInv => TypeOK
  BY DEF IInv
<1> QED
  BY <1>1, Invariant, PTL

\* A success that is reported is one by the hidden assertions, or one of a patch
\* that kept go test from judging by them (CheckPatch).
THEOREM SuccessesAreTrue == Spec => []TaskSuccessIsTrue
<1>1. IInv => TaskSuccessIsTrue
  BY DEF IInv
<1> QED
  BY <1>1, Invariant, PTL

\* A case is charged for its own job, whole, while none was left behind
\* (RunCase, RunAll).
THEOREM ChargesAreExact == Spec => []AttributionIsExact
<1>1. IInv => AttributionIsExact
  BY DEF IInv
<1> QED
  BY <1>1, Invariant, PTL
=============================================================================
