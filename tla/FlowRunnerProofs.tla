-------------------------- MODULE FlowRunnerProofs --------------------------
(***************************************************************************)
(* Theorems about the run of a flow, for every list of steps; the publishing  *)
(* of install plans; and the checks of plans and flows.                       *)
(***************************************************************************)
EXTENDS FlowRunner, InstallPlan, FiniteSetTheorems, WellFoundedInduction, TLAPS

\* A set of naturals has a least element: the intervals below its elements are
\* finite sets, and strict inclusion of finite sets is well-founded.
LEMMA LeastExists ==
  ASSUME NEW S \in SUBSET Nat, S # {}
  PROVE  \E n \in S : \A m \in S : n <= m
<1> DEFINE T == {0..n : n \in S}
<1>1. T \subseteq FiniteSubsetsOf(Nat) /\ T # {}
  <2>1. ASSUME NEW n \in S PROVE 0..n \in FiniteSubsetsOf(Nat)
    <3>1. IsFiniteSet(0..n) /\ 0..n \subseteq Nat
      BY FS_Interval
    <3> QED BY <3>1 DEF FiniteSubsetsOf
  <2> QED BY <2>1
<1>2. IsWellFoundedOn(StrictSubsetOrdering(Nat), FiniteSubsetsOf(Nat))
  BY FS_StrictSubsetOrderingWellFounded
<1>3. PICK x \in T : \A y \in T : <<y, x>> \notin StrictSubsetOrdering(Nat)
  <2> HIDE DEF T
  <2> QED BY ONLY <1>1, <1>2, WFMin, Zenon
<1>4. PICK n \in S : x = 0..n
  BY <1>3
<1>5. ASSUME NEW m \in S, m < n PROVE FALSE
  <2>1. 0..m \subseteq 0..n /\ 0..m # 0..n
    BY <1>5
  <2>2. 0..m \in SUBSET Nat /\ 0..n \in SUBSET Nat
    OBVIOUS
  <2>3. <<0..m, 0..n>> \in StrictSubsetOrdering(Nat)
    BY <2>1, <2>2, Zenon DEF StrictSubsetOrdering
  <2> QED BY <1>3, <1>4, <2>3
<1> QED BY <1>5

LEMMA StepsTyped ==
  /\ N \in Nat
  /\ \A k \in Index : Steps[k] \in StepSpec
  /\ FlowStep \subseteq Index
  /\ Volatile \subseteq Condition
BY StepsAssumption DEF N, Index, FlowStep

\* What a reference reads is one of the results so far, the first that matches.
LEMMA FirstMatch ==
  ASSUME TypeOK, NEW ref, Matches(ref) # {}
  PROVE  \E n \in Matches(ref) :
           /\ \A m \in Matches(ref) : n <= m
           /\ _find_result_by_path(ref) = results[n]
<1>1. DOMAIN results = 1..Len(results) /\ Len(results) \in Nat
  BY DEF TypeOK
<1>2. Matches(ref) \in SUBSET Nat
  BY <1>1 DEF Matches
<1>3. \E n \in Matches(ref) : \A m \in Matches(ref) : n <= m
  BY <1>2, LeastExists
<1> QED BY <1>3 DEF _find_result_by_path

LEMMA FoundIsStep ==
  ASSUME TypeOK, NEW ref, Matches(ref) # {}
  PROVE  _find_result_by_path(ref) \in Index
<1>1. \A n \in DOMAIN results : results[n] \in Index
  BY DEF TypeOK
<1> QED BY <1>1, FirstMatch DEF Matches

\* Where the code has a step in hand, it is a task of the list.
InStep == pc \in {"run_step", "task", "post_task"} => at \in Index \ FlowStep

Typed == TypeOK /\ InStep

LEMMA TypedInit == Init => Typed
<1> SUFFICES ASSUME Init PROVE Typed
  OBVIOUS
<1>1. 1 \in 1..(N + 1)
  BY StepsTyped
<1>2. results \in Seq(Index) /\ calls \in Seq(Call \X (0..N))
  BY DEF Init
<1> QED BY <1>1, <1>2 DEF Init, Typed, TypeOK, InStep, Control, Verdict

\* Calling back keeps the list of calls one of calls.
LEMMA CallsTyped ==
  ASSUME TypeOK, NEW call \in Call, NEW k \in 0..N, Calls(call, k)
  PROVE  calls' \in Seq(Call \X (0..N))
BY DEF TypeOK, Calls

LEMMA TypedStep == Typed /\ [Next]_vars => Typed'
<1> SUFFICES ASSUME Typed, [Next]_vars PROVE Typed'
  OBVIOUS
<1> USE StepsTyped
<1>0. TypeOK /\ InStep
  BY DEF Typed
<1>1. CASE _init_org
  BY <1>0, <1>1 DEF _init_org, Typed, TypeOK, InStep, Control
<1>2. CASE PreFlow
  <2>1. calls' \in Seq(Call \X (0..N))
    BY <1>0, <1>2, CallsTyped DEF PreFlow, Call
  <2> QED BY <1>0, <1>2, <2>1 DEF PreFlow, Typed, TypeOK, InStep, Control
<1>3. CASE EvaluateFlows
  <2>1. skippedFlows' \subseteq {Steps[k].path : k \in Index}
    BY <1>0, <1>3 DEF EvaluateFlows, TypeOK
  <2>2. verdict' \in [Index -> Verdict]
    BY <1>0, <1>3 DEF EvaluateFlows, TypeOK, Verdict
  <2> QED BY <1>0, <1>3, <2>1, <2>2
          DEF EvaluateFlows, Raise, Typed, TypeOK, InStep, Control
<1>4. CASE PassFlowStep
  BY <1>0, <1>4 DEF PassFlowStep, Typed, TypeOK, InStep, Index
<1>5. ASSUME NEW why \in Verdict, AtTask, Pass(why) PROVE Typed'
  BY <1>0, <1>5 DEF AtTask, Pass, Typed, TypeOK, InStep, Index
<1>6. CASE PassInSkippedFlow
  BY <1>5, <1>6 DEF PassInSkippedFlow, Verdict
<1>7. CASE PassSkipped
  BY <1>5, <1>7 DEF PassSkipped, Verdict
<1>8. CASE PassUnmet
  BY <1>5, <1>8 DEF PassUnmet, ToEvaluate, Verdict
<1>9. CASE WhenRaises
  BY <1>0, <1>9 DEF WhenRaises, Raise, Typed, TypeOK, InStep, Control
<1>10. CASE PreTask
  <2>1. at \in Index \ FlowStep /\ at \in 0..N
    BY <1>10 DEF PreTask, ToEvaluate, AtTask, Index
  <2>2. calls' \in Seq(Call \X (0..N))
    BY <1>0, <1>10, <2>1, CallsTyped DEF PreTask, Call
  <2>3. verdict' \in [Index -> Verdict]
    BY <1>0, <1>10 DEF PreTask, TypeOK, Verdict
  <2> QED BY <1>0, <1>10, <2>1, <2>2, <2>3
          DEF PreTask, Raise, Typed, TypeOK, InStep, Control
<1>11. CASE Resolve
  <2>1. at \in Index \ FlowStep
    BY <1>0, <1>11 DEF Resolve, InStep
  <2>2. \A ref \in Steps[at].refs : ref \in Seq(STRING) /\ _find_result_by_path(ref) \in Index
    BY <1>0, <1>11, <2>1, FoundIsStep DEF Resolve, StepSpec
  <2>3. options' \in [Index -> SUBSET (Seq(STRING) \X Index)]
    <3> DEFINE S == {<<ref, _find_result_by_path(ref)>> : ref \in Steps[at].refs}
    <3>1. S \in SUBSET (Seq(STRING) \X Index)
      BY <2>2
    <3>2. options' = [options EXCEPT ![at] = S]
      BY <1>11 DEF Resolve
    <3> HIDE DEF S
    <3> QED BY <1>0, <3>1, <3>2 DEF TypeOK
  <2>4. verdict' \in [Index -> Verdict]
    BY <1>0, <1>11 DEF Resolve, TypeOK, Verdict
  <2> QED BY <1>0, <1>11, <2>1, <2>3, <2>4
          DEF Resolve, Raise, Typed, TypeOK, InStep, Control
<1>12. CASE NotFound
  BY <1>0, <1>12 DEF NotFound, Raise, Typed, TypeOK, InStep, Control
<1>13. CASE RunTask
  <2>1. verdict' \in [Index -> Verdict]
    BY <1>0, <1>13 DEF RunTask, TypeOK, Verdict
  <2> QED BY <1>0, <1>13, <2>1 DEF RunTask, Typed, TypeOK, InStep, Control
<1>14. CASE PostTask
  <2>1. at \in Index /\ at \in 0..N
    BY <1>0, <1>14 DEF PostTask, InStep, Index
  <2>2. calls' \in Seq(Call \X (0..N))
    BY <1>0, <1>14, <2>1, CallsTyped DEF PostTask, Call
  <2>3. results' \in Seq(Index) /\ at' \in 1..(N + 1)
    <3>1. results' = Append(results, at) \/ results' = results
      BY <1>14 DEF PostTask
    <3>2. at' = at + 1 \/ at' = at
      BY <1>14 DEF PostTask
    <3>3. results' \in Seq(Index)
      <4>1. results \in Seq(Index)
        BY <1>0 DEF TypeOK
      <4> QED BY <2>1, <3>1, <4>1
    <3> QED BY <1>0, <2>1, <3>2, <3>3 DEF TypeOK, Index
  <2> QED BY <1>0, <1>14, <2>2, <2>3
          DEF PostTask, Raise, Typed, TypeOK, InStep, Control
<1>15. CASE Completed
  BY <1>0, <1>15 DEF Completed, Typed, TypeOK, InStep, Control
<1>16. CASE PostFlow
  <2>1. calls' \in Seq(Call \X (0..N))
    BY <1>0, <1>16, CallsTyped DEF PostFlow, Call
  <2> QED BY <1>0, <1>16, <2>1 DEF PostFlow, Typed, TypeOK, InStep, Control
<1>17. CASE Ended \/ UNCHANGED vars
  BY <1>0, <1>17 DEF Ended, vars, Typed, TypeOK, InStep
<1> QED
  BY <1>1, <1>2, <1>3, <1>4, <1>6, <1>7, <1>8, <1>9, <1>10, <1>11, <1>12,
     <1>13, <1>14, <1>15, <1>16, <1>17 DEF Next, Run

\* Every step of the run keeps the variables in their types, whatever raises.
THEOREM FlowTypeCorrect == Spec => []TypeOK
<1>1. Typed => TypeOK
  BY DEF Typed
<1> QED BY <1>1, TypedInit, TypedStep, PTL DEF Spec

-----------------------------------------------------------------------------
(* How far the run is.                                                     *)

Early == {"init_org", "pre_flow", "conditions"}
Late == {"post_flow", "ended"}

\* The verdicts a step may have before its turn: those that EvaluateFlows gives.
Given == {"pending", "held", "unmet"}

\* Before the loop nothing is decided.
NothingYet == pc \in Early => at = 1 /\ \A k \in Index : verdict[k] = "pending"

\* Steps whose turn has not come have been given at most what their condition says.
NotReached ==
  /\ \A m \in Index : m > at => verdict[m] \in Given
  /\ pc = "steps" /\ at \in Index => verdict[at] \in Given

\* The loop has left no fatal failure behind.
NoneFatal == \A k \in Index : k < at => ~Fatal(k)

Progress == NothingYet /\ NotReached /\ NoneFatal

\* Until post_flow nothing was raised; then the loop is at its end or something was.
RaisedLate ==
  /\ pc \notin Late => raised = "no"
  /\ pc \in Late /\ raised = "no" => at = N + 1

\* The conditions of the sub-flows were all evaluated, and remembered by path.
FlowsDecided ==
  pc \notin Early /\ raised = "no" =>
    /\ \A f \in FlowStep : verdict[f] \in {"held", "unmet"}
    /\ skippedFlows = {Steps[f].path : f \in {g \in FlowStep : verdict[g] = "unmet"}}

LEMMA ProgressInit == Init => Progress /\ RaisedLate /\ FlowsDecided
BY StepsTyped DEF Init, Progress, NothingYet, NotReached, NoneFatal, Early, Late,
   Given, Fatal, Index, RaisedLate, FlowsDecided

\* A step passed over has a verdict that is no failure.
LEMMA PassProgress ==
  ASSUME Typed, Progress, AtTask, NEW why \in Verdict \ {"failed"}, Pass(why)
  PROVE  Progress'
<1> USE StepsTyped DEF Index
<1>1. at \in 1..N /\ at' = at + 1 /\ pc = "steps" /\ pc' = "steps"
  BY DEF AtTask, Pass
<1>2. \A k \in Index : verdict'[k] = IF k = at THEN why ELSE verdict[k]
  BY DEF Pass, Typed, TypeOK
<1>3. NothingYet'
  BY <1>1 DEF NothingYet, Early
<1>4. NotReached'
  BY <1>1, <1>2 DEF Progress, NotReached
<1>5. NoneFatal'
  BY <1>1, <1>2 DEF Progress, NoneFatal, Fatal
<1> QED BY <1>3, <1>4, <1>5 DEF Progress

\* A step that leaves the loop where it is changes at most the verdict there, and
\* takes place where the loop has a step in hand.
LEMMA StayProgress ==
  ASSUME Typed, Progress, pc \notin Early, pc' \notin Early \cup {"steps"}, at' = at,
         \A k \in Index : k # at => verdict'[k] = verdict[k]
  PROVE  Progress'
<1> USE StepsTyped DEF Index
<1>0. at \in 1..(N + 1)
  BY DEF Typed, TypeOK
<1>1. NothingYet'
  BY DEF NothingYet
<1>2. NotReached'
  BY <1>0 DEF Progress, NotReached
<1>3. NoneFatal'
  BY <1>0 DEF Progress, NoneFatal, Fatal
<1> QED BY <1>1, <1>2, <1>3 DEF Progress

LEMMA ProgressStep == Typed /\ Progress /\ [Next]_vars => Progress'
<1> SUFFICES ASSUME Typed, Progress, [Next]_vars PROVE Progress'
  OBVIOUS
<1> USE StepsTyped
<1>0. TypeOK /\ InStep /\ NothingYet /\ NotReached /\ NoneFatal
  BY DEF Typed, Progress
<1>1. CASE _init_org
  BY <1>0, <1>1
     DEF _init_org, Progress, NothingYet, NotReached, NoneFatal, Fatal, Early
<1>2. CASE PreFlow
  BY <1>0, <1>2 DEF PreFlow, Progress, NothingYet, NotReached, NoneFatal, Fatal, Early
<1>3. CASE EvaluateFlows
  <2>1. \A k \in Index : verdict'[k] \in Given
    BY <1>0, <1>3 DEF EvaluateFlows, NothingYet, Early, Given
  <2>2. at' = 1 /\ pc' \notin Early
    BY <1>0, <1>3 DEF EvaluateFlows, Raise, NothingYet, Early
  <2> QED BY <1>3, <2>1, <2>2
          DEF EvaluateFlows, Progress, NothingYet, NotReached, NoneFatal, Fatal, Given, Index
<1>4. CASE PassFlowStep
  <2>1. at \in Index /\ pc' = "steps" /\ at' = at + 1 /\ verdict' = verdict
    BY <1>4 DEF PassFlowStep
  <2>2. pc = "steps"
    BY <1>4 DEF PassFlowStep
  <2>3. ~Fatal(at)
    BY <1>0, <2>1, <2>2 DEF NotReached, Fatal, Given
  <2> QED BY <1>0, <2>1, <2>2, <2>3
          DEF Progress, NothingYet, NotReached, NoneFatal, Fatal, Early, Index
<1>5. CASE PassInSkippedFlow
  BY <1>5, PassProgress DEF PassInSkippedFlow, Verdict
<1>6. CASE PassSkipped
  BY <1>6, PassProgress DEF PassSkipped, Verdict
<1>7. CASE PassUnmet
  BY <1>7, PassProgress DEF PassUnmet, ToEvaluate, Verdict
<1>8. CASE WhenRaises
  BY <1>8, StayProgress DEF WhenRaises, ToEvaluate, AtTask, Raise, Early
<1>9. CASE PreTask
  BY <1>0, <1>9, StayProgress DEF PreTask, ToEvaluate, AtTask, Raise, Early, TypeOK
<1>10. CASE Resolve
  BY <1>0, <1>10, StayProgress DEF Resolve, Raise, Early, TypeOK
<1>11. CASE NotFound
  BY <1>11, StayProgress DEF NotFound, Raise, Early
<1>12. CASE RunTask
  BY <1>0, <1>12, StayProgress DEF RunTask, Early, TypeOK
<1>13. CASE PostTask
  <2>1. CASE at' = at /\ pc' = "post_flow"
    BY <1>13, <2>1, StayProgress DEF PostTask, Early
  <2>2. CASE at' = at + 1 /\ pc' = "steps" /\ ~Fatal(at)
    <3>1. at \in Index /\ verdict' = verdict
      BY <1>0, <1>13 DEF PostTask, InStep
    <3> QED BY <1>0, <2>2, <3>1
            DEF Progress, NothingYet, NotReached, NoneFatal, Fatal, Early, Index
  <2> QED BY <1>13, <2>1, <2>2 DEF PostTask, Raise
<1>14. CASE Completed
  BY <1>14, StayProgress DEF Completed, Early
<1>15. CASE PostFlow
  BY <1>15, StayProgress DEF PostFlow, Early
<1>16. CASE Ended \/ UNCHANGED vars
  BY <1>0, <1>16
     DEF Ended, vars, Progress, NothingYet, NotReached, NoneFatal, Fatal
<1> QED
  BY <1>1, <1>2, <1>3, <1>4, <1>5, <1>6, <1>7, <1>8, <1>9, <1>10, <1>11, <1>12,
     <1>13, <1>14, <1>15, <1>16 DEF Next, Run

\* After a failure that is not to be ignored the run looks at no later step,
\* whatever the callbacks do: run() leaves the loop, or raises before it goes on.
THEOREM NothingRunsAfterFailure == Spec => []NothingAfterFailure
<1>1. Typed /\ Progress => NothingAfterFailure
  <2> SUFFICES ASSUME Typed, Progress, NEW k \in Index, NEW m \in Index,
                      k < m, Fatal(k)
               PROVE  verdict[m] \in {"pending", "held", "unmet"}
    BY DEF NothingAfterFailure
  <2>1. at <= k
    BY StepsTyped DEF Progress, NoneFatal, Typed, TypeOK, Index
  <2>2. m > at
    BY <2>1, StepsTyped DEF Typed, TypeOK, Index
  <2> QED BY <2>2 DEF Progress, NotReached, Given
<1> QED
  BY <1>1, TypedInit, TypedStep, ProgressInit, ProgressStep, PTL DEF Spec

-----------------------------------------------------------------------------
(***************************************************************************)
(* What a run of a flow is worth: the steps that ran are the ones due, and *)
(* a run that ends without an exception is complete.                       *)
(***************************************************************************)

\* The verdict of the step in hand is where the code is.
InHand ==
  /\ pc = "run_step" => verdict[at] = "begun"
  /\ pc = "task" => verdict[at] = "running"
  /\ pc = "post_task" => verdict[at] \in {"succeeded", "failed"}

Decided == RaisedLate /\ FlowsDecided /\ InHand

\* A run that raises nothing stays where RaisedLate and FlowsDecided hold, as long
\* as it leaves the sub-flows alone.
LEMMA DecidedFrame ==
  ASSUME FlowsDecided, pc \notin Early, raised' = "no" => raised = "no",
         skippedFlows' = skippedFlows,
         \A f \in FlowStep : verdict'[f] = verdict[f]
  PROVE  FlowsDecided'
BY DEF FlowsDecided

LEMMA ValueTyped ==
  ASSUME TypeOK, NEW k \in Index
  PROVE  Value(k) \in {"true", "false", "raises"}
<1>1. Steps[k].when \in Condition \cup {NoWhen}
  BY StepsTyped DEF StepSpec
<1> QED BY <1>1 DEF TypeOK, Value

LEMMA EvaluatedFlows ==
  ASSUME Typed, EvaluateFlows
  PROVE  FlowsDecided'
<1> SUFFICES ASSUME raised' = "no", pc' \notin Early
             PROVE  /\ \A f \in FlowStep : verdict'[f] \in {"held", "unmet"}
                    /\ skippedFlows' =
                         {Steps[f].path : f \in {g \in FlowStep : verdict'[g] = "unmet"}}
  BY DEF FlowsDecided
<1>1. /\ \A f \in FlowStep : Value(f) # "raises"
      /\ skippedFlows' = {Steps[k].path : k \in {f \in FlowStep : Value(f) = "false"}}
      /\ verdict' = [k \in Index |->
           IF k \notin FlowStep THEN verdict[k]
           ELSE IF Value(k) = "true" THEN "held" ELSE "unmet"]
  BY DEF EvaluateFlows, Raise
<1>2. \A f \in FlowStep : Value(f) \in {"true", "false"}
  BY <1>1, ValueTyped, StepsTyped DEF Typed
<1>3. \A f \in FlowStep : verdict'[f] = IF Value(f) = "true" THEN "held" ELSE "unmet"
  BY <1>1, StepsTyped
<1>4. {g \in FlowStep : verdict'[g] = "unmet"} = {f \in FlowStep : Value(f) = "false"}
  BY <1>2, <1>3
<1> QED BY <1>1, <1>3, <1>4

LEMMA DecidedInit == Init => Decided
BY ProgressInit DEF Decided, InHand, Init

\* Steps after which the loop has no step in hand, and the sub-flows are untouched.
LEMMA PassDecided ==
  ASSUME Typed, Decided, AtTask, NEW why \in Verdict, Pass(why)
  PROVE  Decided'
<1>1. at \notin FlowStep /\ pc = "steps" /\ pc' = "steps" /\ raised' = raised
  BY DEF AtTask, Pass
<1>2. RaisedLate'
  BY <1>1 DEF Decided, RaisedLate, Late
<1>3. \A f \in FlowStep : verdict'[f] = verdict[f]
  BY <1>1, StepsTyped DEF Pass, Typed, TypeOK
<1>4. FlowsDecided'
  BY <1>1, <1>3, DecidedFrame DEF Decided, Pass, Early
<1> QED BY <1>1, <1>2, <1>4 DEF Decided, InHand

LEMMA DecidedStep == Typed /\ Decided /\ [Next]_vars => Decided'
<1> SUFFICES ASSUME Typed, Decided, [Next]_vars PROVE Decided'
  OBVIOUS
<1> USE StepsTyped
<1>0. TypeOK /\ InStep /\ RaisedLate /\ FlowsDecided /\ InHand
  BY DEF Typed, Decided
<1>1. CASE _init_org
  BY <1>0, <1>1 DEF _init_org, Decided, RaisedLate, FlowsDecided, InHand, Early, Late
<1>2. CASE PreFlow
  BY <1>0, <1>2 DEF PreFlow, Decided, RaisedLate, FlowsDecided, InHand, Early, Late
<1>3. CASE EvaluateFlows
  <2>1. RaisedLate' /\ InHand'
    BY <1>0, <1>3 DEF EvaluateFlows, Raise, RaisedLate, InHand, Late
  <2> QED BY <1>3, <2>1, EvaluatedFlows DEF Decided
<1>4. CASE PassFlowStep
  BY <1>0, <1>4, DecidedFrame
     DEF PassFlowStep, Decided, RaisedLate, InHand, Early, Late
<1>5. CASE PassInSkippedFlow
  BY <1>5, PassDecided DEF PassInSkippedFlow, Verdict
<1>6. CASE PassSkipped
  BY <1>6, PassDecided DEF PassSkipped, Verdict
<1>7. CASE PassUnmet
  BY <1>7, PassDecided DEF PassUnmet, ToEvaluate, Verdict
<1>8. CASE WhenRaises
  BY <1>0, <1>8, DecidedFrame
     DEF WhenRaises, ToEvaluate, AtTask, Raise, Decided, RaisedLate, InHand, Early, Late
<1>9. ASSUME at \in Index \ FlowStep, pc \notin Early,
             \A k \in Index : k # at => verdict'[k] = verdict[k],
             skippedFlows' = skippedFlows, raised' = "no" => raised = "no"
      PROVE  FlowsDecided'
  BY <1>0, <1>9, DecidedFrame
<1>10. CASE PreTask
  <2>1. verdict'[at] = "begun" /\ at' = at /\ at \in Index \ FlowStep
    BY <1>0, <1>10 DEF PreTask, ToEvaluate, AtTask, TypeOK
  <2>2. RaisedLate' /\ InHand'
    BY <1>0, <1>10, <2>1
       DEF PreTask, ToEvaluate, AtTask, Raise, RaisedLate, InHand, Late
  <2>3. FlowsDecided'
    BY <1>0, <1>9, <1>10, <2>1 DEF PreTask, ToEvaluate, AtTask, Raise, TypeOK, Early
  <2> QED BY <2>2, <2>3 DEF Decided
<1>11. CASE Resolve
  <2>1. at' = at /\ at \in Index \ FlowStep
    BY <1>0, <1>11 DEF Resolve, InStep
  <2>2. pc' = "task" => verdict'[at] = "running"
    BY <1>0, <1>11, <2>1 DEF Resolve, Raise, TypeOK
  <2>3. RaisedLate' /\ InHand'
    BY <1>0, <1>11, <2>1, <2>2 DEF Resolve, Raise, RaisedLate, InHand, Late
  <2>4. FlowsDecided'
    BY <1>0, <1>9, <1>11, <2>1 DEF Resolve, Raise, TypeOK, Early
  <2> QED BY <2>3, <2>4 DEF Decided
<1>12. CASE NotFound
  BY <1>0, <1>12, DecidedFrame
     DEF NotFound, Raise, Decided, RaisedLate, InHand, Early, Late
<1>13. CASE RunTask
  <2>1. at' = at /\ at \in Index \ FlowStep
    BY <1>0, <1>13 DEF RunTask, InStep
  <2>2. verdict'[at] \in {"succeeded", "failed"}
    BY <1>0, <1>13, <2>1 DEF RunTask, TypeOK
  <2>3. RaisedLate' /\ InHand'
    BY <1>0, <1>13, <2>1, <2>2 DEF RunTask, RaisedLate, InHand, Late
  <2>4. FlowsDecided'
    BY <1>0, <1>9, <1>13, <2>1 DEF RunTask, TypeOK, Early
  <2> QED BY <2>3, <2>4 DEF Decided
<1>14. CASE PostTask
  BY <1>0, <1>14, DecidedFrame
     DEF PostTask, Raise, Decided, RaisedLate, InHand, Early, Late
<1>15. CASE Completed
  <2>1. at = N + 1
    BY <1>0, <1>15 DEF Completed, TypeOK, Index
  <2> QED BY <1>0, <1>15, <2>1, DecidedFrame
          DEF Completed, Decided, RaisedLate, InHand, Early, Late
<1>16. CASE PostFlow
  BY <1>0, <1>16, DecidedFrame DEF PostFlow, Decided, RaisedLate, InHand, Early, Late
<1>17. CASE Ended \/ UNCHANGED vars
  BY <1>0, <1>17 DEF Ended, vars, Decided, RaisedLate, FlowsDecided, InHand
<1> QED
  BY <1>1, <1>2, <1>3, <1>4, <1>5, <1>6, <1>7, <1>8, <1>10, <1>11, <1>12,
     <1>13, <1>14, <1>15, <1>16, <1>17 DEF Next, Run

-----------------------------------------------------------------------------
(* The steps that run are those due.                                       *)

IsDue(k) ==
  /\ verdict[k] \in Ran =>
       /\ ~Steps[k].skip
       /\ \A f \in FlowStep : Encloses(f, k) => verdict[f] = "held"
  /\ verdict[k] = "inSkipped" =>
       \E f \in FlowStep : Encloses(f, k) /\ verdict[f] = "unmet"

\* A step that changes at most the verdict of a task, to one that is due, keeps all due.
LEMMA DueFrame ==
  ASSUME RunsWhatIsDue, \A f \in FlowStep : verdict'[f] = verdict[f],
         \A k \in Index : verdict'[k] = verdict[k] \/ IsDue(k)'
  PROVE  RunsWhatIsDue'
<1> SUFFICES ASSUME NEW k \in Index PROVE IsDue(k)'
  BY DEF RunsWhatIsDue, IsDue
<1>1. CASE verdict'[k] = verdict[k]
  BY <1>1 DEF RunsWhatIsDue, IsDue
<1> QED BY <1>1

\* The paths looked up in the set say which sub-flows enclose the step at hand.
LEMMA PathsEnclose ==
  ASSUME PathsTellFlows(Steps), Typed, Decided, AtTask
  PROVE  _is_task_in_skipped_flow(at) <=>
           \E f \in FlowStep : Encloses(f, at) /\ verdict[f] = "unmet"
<1>1. at \in Index /\ pc \notin Early /\ raised = "no"
  BY DEF AtTask, Decided, RaisedLate, Early, Late
<1>2. skippedFlows = {Steps[f].path : f \in {g \in FlowStep : verdict[g] = "unmet"}}
  BY <1>1 DEF Decided, FlowsDecided
<1>3. Index = DOMAIN Steps
  BY StepsAssumption DEF Index, N
<1>4. ASSUME NEW f \in FlowStep
      PROVE  Encloses(f, at) <=> IsPrefix(Steps[f].path \o <<".">>, Steps[at].path)
  <2>1. f \in DOMAIN Steps /\ at \in DOMAIN Steps /\ Steps[f].flow
    BY <1>1, <1>3 DEF FlowStep
  <2> QED BY <2>1 DEF PathsTellFlows, Encloses
<1> QED BY <1>2, <1>4 DEF _is_task_in_skipped_flow

LEMMA DueStep ==
  PathsTellFlows(Steps) /\ Typed /\ Progress /\ Decided /\ RunsWhatIsDue /\ [Next]_vars
    => RunsWhatIsDue'
<1> SUFFICES ASSUME PathsTellFlows(Steps), Typed, Progress, Decided, RunsWhatIsDue,
                    [Next]_vars
             PROVE  RunsWhatIsDue'
  OBVIOUS
<1> USE StepsTyped
<1>0. TypeOK /\ InStep /\ FlowsDecided /\ InHand
  BY DEF Typed, Decided
<1>1. CASE verdict' = verdict
  BY <1>1, DueFrame
<1>2. CASE EvaluateFlows
  <2>1. \A k \in Index : verdict'[k] \in Given
    BY <1>0, <1>2 DEF EvaluateFlows, Progress, NothingYet, Early, Given
  <2> QED BY <2>1 DEF RunsWhatIsDue, Given, Ran
<1>3. ASSUME at \in Index \ FlowStep, at' = at, NEW to,
             verdict' = [verdict EXCEPT ![at] = to], IsDue(at)'
      PROVE  RunsWhatIsDue'
  <2>1. \A k \in Index : k # at => verdict'[k] = verdict[k]
    BY <1>0, <1>3 DEF TypeOK
  <2>2. \A f \in FlowStep : verdict'[f] = verdict[f]
    BY <1>0, <1>3 DEF TypeOK
  <2>3. ASSUME NEW k \in Index, k = at PROVE IsDue(k)'
    BY <1>3, <2>3 DEF IsDue, Encloses
  <2> QED BY <2>1, <2>2, <2>3, DueFrame
<1>4. CASE PassInSkippedFlow
  <2>1. PICK f \in FlowStep : Encloses(f, at) /\ verdict[f] = "unmet"
    BY <1>4, PathsEnclose DEF PassInSkippedFlow
  <2>2. /\ at \in Index \ FlowStep /\ at' = at + 1
        /\ verdict' = [verdict EXCEPT ![at] = "inSkipped"]
    BY <1>4 DEF PassInSkippedFlow, AtTask, Pass
  <2>3. verdict'[f] = "unmet" /\ verdict'[at] = "inSkipped"
    BY <1>0, <2>1, <2>2 DEF TypeOK
  <2>4. \A k \in Index : verdict'[k] = verdict[k] \/ IsDue(k)'
    BY <1>0, <2>1, <2>2, <2>3 DEF TypeOK, IsDue, Encloses, Ran
  <2> QED BY <1>0, <2>2, <2>4, DueFrame DEF TypeOK
<1>5. CASE PassSkipped \/ PassUnmet
  <2>1. PICK why \in {"skip", "unmet"} :
          at \in Index \ FlowStep /\ verdict' = [verdict EXCEPT ![at] = why]
    BY <1>5 DEF PassSkipped, PassUnmet, ToEvaluate, AtTask, Pass
  <2>2. \A k \in Index : verdict'[k] = verdict[k] \/ verdict'[k] = why
    BY <1>0, <2>1 DEF TypeOK
  <2>3. \A k \in Index : verdict'[k] = verdict[k] \/ IsDue(k)'
    BY <2>1, <2>2 DEF IsDue, Ran
  <2> QED BY <1>0, <2>1, <2>3, DueFrame DEF TypeOK
<1>6. CASE PreTask
  <2>1. /\ at \in Index \ FlowStep /\ ~Steps[at].skip /\ at' = at
        /\ verdict' = [verdict EXCEPT ![at] = "begun"]
        /\ ~_is_task_in_skipped_flow(at)
    BY <1>6 DEF PreTask, ToEvaluate, AtTask
  <2>2. ASSUME NEW f \in FlowStep, Encloses(f, at)
        PROVE  verdict[f] = "held"
    <3>1. verdict[f] # "unmet"
      BY <1>6, <2>1, <2>2, PathsEnclose DEF PreTask, ToEvaluate
    <3>2. pc \notin Early /\ raised = "no"
      BY <1>6 DEF PreTask, ToEvaluate, AtTask, Decided, RaisedLate, Early, Late
    <3> QED BY <1>0, <3>1, <3>2 DEF FlowsDecided
  <2>3. \A f \in FlowStep : verdict'[f] = verdict[f]
    BY <1>0, <2>1 DEF TypeOK
  <2>4. IsDue(at)'
    BY <1>0, <2>1, <2>2, <2>3 DEF TypeOK, IsDue, Encloses, Ran
  <2> QED BY <1>3, <2>1, <2>4
<1>7. CASE verdict[at] \in Ran /\ at \in Index \ FlowStep /\ at' = at
           /\ \E to \in Ran : verdict' = [verdict EXCEPT ![at] = to]
  <2>1. \A f \in FlowStep : verdict'[f] = verdict[f]
    BY <1>0, <1>7 DEF TypeOK
  <2>2. IsDue(at)'
    BY <1>0, <1>7, <2>1 DEF TypeOK, RunsWhatIsDue, IsDue, Encloses, Ran
  <2> QED BY <1>3, <1>7, <2>2
<1>8. CASE Resolve
  BY <1>0, <1>1, <1>7, <1>8 DEF Resolve, Raise, InHand, InStep, Ran
<1>9. CASE RunTask
  BY <1>0, <1>7, <1>9 DEF RunTask, InHand, InStep, Ran
<1> QED
  BY <1>1, <1>2, <1>4, <1>5, <1>6, <1>8, <1>9
  DEF Next, Run, Ended, vars, _init_org, PreFlow, PassFlowStep, WhenRaises, NotFound,
      PostTask, Completed, PostFlow

\* Where paths tell the uses of sub-flows apart, a task runs only if every sub-flow
\* around it was to run, and is passed over only if one was not: the conditions that
\* run() evaluates beforehand and looks up by path mean what the flow says.
THEOREM WhatRunsIsDue ==
  ASSUME PathsTellFlows(Steps)
  PROVE  Spec => []RunsWhatIsDue
<1>1. Init => RunsWhatIsDue
  BY DEF Init, RunsWhatIsDue, Ran
<1>2. Typed /\ Progress /\ Decided /\ RunsWhatIsDue /\ [Next]_vars => RunsWhatIsDue'
  BY DueStep
<1> QED
  BY <1>1, <1>2, TypedInit, TypedStep, ProgressInit, ProgressStep, DecidedInit,
     DecidedStep, PTL DEF Spec
-----------------------------------------------------------------------------
(* A run is whole: its results, its calls and its references.              *)

\* The results are those of the steps that ended, in their order, and every step the loop
\* has left is decided.
ResultsInv ==
  /\ \A n \in DOMAIN results :
       /\ verdict[results[n]] \in {"succeeded", "failed"}
       /\ results[n] <= at /\ (pc \notin Late => results[n] < at)
  /\ \A n, m \in DOMAIN results : n < m => results[n] < results[m]
  /\ raised = "no" =>
       \A k \in Index : k < at =>
         /\ verdict[k] \notin {"pending", "begun", "running"}
         /\ verdict[k] \in Ran => \E n \in DOMAIN results : results[n] = k

\* Results stay, and with them what is said of them, while the loop is not moved and the
\* verdict changes at most for a step in hand.
LEMMA ResultsFrame ==
  ASSUME Typed, ResultsInv, pc \notin Late, results' = results, at' = at,
         \A k \in Index : k # at => verdict'[k] = verdict[k],
         raised' = "no" => raised = "no"
  PROVE  ResultsInv'
<1>1. /\ at \in 1..(N + 1) /\ \A n \in DOMAIN results : results[n] \in Index /\ results[n] \in Nat
  BY StepsTyped DEF Typed, TypeOK, Index
<1>2. \A n \in DOMAIN results : results[n] < at /\ results[n] # at
  BY <1>1, StepsTyped DEF ResultsInv
<1>3. \A n \in DOMAIN results : verdict'[results[n]] = verdict[results[n]]
  BY <1>1, <1>2
<1>4. \A k \in Index : k < at => k # at
  BY <1>1, StepsTyped DEF Index
<1> QED BY <1>1, <1>2, <1>3, <1>4 DEF ResultsInv

\* The loop goes on from a step that is decided, and is no result or the last one.
LEMMA ResultsPass ==
  ASSUME Typed, ResultsInv, pc = "steps", pc' = "steps", at \in Index, at' = at + 1, results' = results,
         raised' = raised, \A k \in Index : k # at => verdict'[k] = verdict[k],
         verdict'[at] \in {"inSkipped", "skip", "unmet", "held"}
  PROVE  ResultsInv'
<1>1. /\ N \in Nat /\ at \in 1..N /\ \A n \in DOMAIN results : results[n] \in Index
      /\ \A k \in Index : k \in Int
  BY StepsTyped DEF Typed, TypeOK, Index
<1>2. \A n \in DOMAIN results : results[n] < at
  BY DEF ResultsInv, Late
<1>3. \A n \in DOMAIN results : verdict'[results[n]] = verdict[results[n]] /\ results[n] <= at' /\ results[n] < at'
  <2> TAKE n \in DOMAIN results
  <2>1. results[n] \in Index /\ results[n] \in Int /\ at \in Int /\ results[n] < at
    BY <1>1, <1>2
  <2>2. results[n] # at
    BY <2>1
  <2> QED BY <2>1, <2>2
<1>4. \A k \in Index : k < at' => k < at \/ k = at
  BY <1>1
<1>5. ASSUME raised = "no", NEW k \in Index, k < at'
      PROVE  /\ verdict'[k] \notin {"pending", "begun", "running"}
             /\ verdict'[k] \in Ran => \E n \in DOMAIN results : results[n] = k
  <2>1. CASE k = at
    BY <2>1 DEF Ran
  <2>2. CASE k # at
    BY <1>4, <1>5, <2>2 DEF ResultsInv
  <2> QED BY <2>1, <2>2
<1> QED BY <1>3, <1>5 DEF ResultsInv

LEMMA ResultsPost ==
  ASSUME Typed, Decided, ResultsInv, PostTask
  PROVE  ResultsInv'
<1>1. /\ N \in Nat /\ at \in Index /\ verdict[at] \in {"succeeded", "failed"} /\ verdict' = verdict
      /\ raised = "no" /\ \A k \in Index : k \in Int
  BY StepsTyped DEF Typed, InStep, Decided, InHand, RaisedLate, Late, PostTask, Index
<1>2. \A n \in DOMAIN results : results[n] \in Index /\ results[n] < at /\ results[n] <= at
  BY <1>1 DEF Typed, TypeOK, ResultsInv, PostTask, Late
<1>3. CASE results' = results
  <2>1. pc' \in Late /\ raised' # "no" /\ at' = at
    <3>1. results # Append(results, at)
      BY <1>1 DEF Typed, TypeOK
    <3> QED BY <1>3, <3>1 DEF PostTask, Raise, Late
  <2> QED BY <1>1, <1>2, <1>3, <2>1 DEF ResultsInv
<1>4. CASE results' = Append(results, at)
  <2>1. /\ Len(results) \in Nat /\ DOMAIN results = 1..Len(results) /\ DOMAIN results' = 1..(Len(results) + 1)
        /\ results'[Len(results) + 1] = at /\ \A n \in DOMAIN results : results'[n] = results[n]
    BY <1>1, <1>4 DEF Typed, TypeOK
  <2>2. (at' = at /\ pc' \in Late /\ raised' # "no") \/ at' = at + 1
    BY <1>4, <1>1 DEF PostTask, Raise, Late, Typed, TypeOK
  <2>3. \A n \in DOMAIN results' : n \in DOMAIN results \/ n = Len(results) + 1
    BY <2>1
  <2>4. \A n \in DOMAIN results' :
          /\ verdict'[results'[n]] \in {"succeeded", "failed"}
          /\ results'[n] <= at' /\ (pc' \notin Late => results'[n] < at')
    <3> TAKE n \in DOMAIN results'
    <3>1. CASE n \in DOMAIN results
      BY <1>1, <1>2, <2>1, <2>2, <3>1 DEF ResultsInv
    <3>2. CASE n = Len(results) + 1
      BY <1>1, <2>1, <2>2, <3>2
    <3> QED BY <2>3, <3>1, <3>2
  <2>5. \A n, m \in DOMAIN results' : n < m => results'[n] < results'[m]
    <3> SUFFICES ASSUME NEW n \in DOMAIN results', NEW m \in DOMAIN results', n < m PROVE results'[n] < results'[m]
      OBVIOUS
    <3>1. n \in DOMAIN results
      BY <2>1
    <3>2. CASE m \in DOMAIN results
      BY <2>1, <3>1, <3>2 DEF ResultsInv
    <3>3. CASE m = Len(results) + 1
      BY <1>2, <2>1, <3>1, <3>3
    <3> QED BY <2>3, <3>2, <3>3
  <2>6. ASSUME raised' = "no", NEW k \in Index, k < at'
        PROVE  /\ verdict'[k] \notin {"pending", "begun", "running"}
               /\ verdict'[k] \in Ran => \E n \in DOMAIN results' : results'[n] = k
    <3>1. k < at \/ k = at
      BY <1>1, <2>2, <2>6
    <3>2. CASE k < at
      BY <1>1, <2>1, <3>2 DEF ResultsInv
    <3>3. CASE k = at
      BY <1>1, <2>1, <3>3
    <3> QED BY <3>1, <3>2, <3>3
  <2> QED BY <2>4, <2>5, <2>6 DEF ResultsInv
<1> QED BY <1>3, <1>4 DEF PostTask

LEMMA ResultsStep == Typed /\ Progress /\ Decided /\ ResultsInv /\ [Next]_vars => ResultsInv'
<1> SUFFICES ASSUME Typed, Progress, Decided, ResultsInv, [Next]_vars PROVE ResultsInv'
  OBVIOUS
<1> USE StepsTyped
<1>0. verdict \in [Index -> Verdict] /\ (at \in Index \/ at = N + 1)
  BY DEF Typed, TypeOK, Index
<1>1. CASE _init_org \/ PreFlow
  BY <1>1, ResultsFrame DEF _init_org, PreFlow, Late
<1>2. CASE EvaluateFlows
  <2>1. at = 1 /\ at' = 1 /\ results' = results /\ pc \notin Late
    BY <1>2 DEF EvaluateFlows, Progress, NothingYet, Early, Late
  <2>2. \A n \in DOMAIN results : results[n] \in Index /\ results[n] < 1
    BY <2>1 DEF ResultsInv, Typed, TypeOK
  <2>3. \A k \in Index : ~(k < 1)
    BY DEF Index
  <2>4. DOMAIN results = {}
    BY <2>2, <2>3
  <2> QED BY <2>1, <2>3, <2>4 DEF ResultsInv
<1>3. CASE PassFlowStep
  <2>1. verdict[at] \in {"unmet", "held"}
    BY <1>3 DEF PassFlowStep, Decided, RaisedLate, FlowsDecided, Early, Late
  <2> QED BY <1>3, <2>1, ResultsPass DEF PassFlowStep
<1>4. ASSUME AtTask, NEW why \in {"inSkipped", "skip", "unmet"}, Pass(why) PROVE ResultsInv'
  <2>1. pc = "steps" /\ pc' = pc /\ at \in Index /\ at' = at + 1 /\ results' = results /\ raised' = raised
    BY <1>4 DEF AtTask, Pass
  <2>2. verdict'[at] = why /\ \A k \in Index : k # at => verdict'[k] = verdict[k]
    BY <1>0, <1>4, <2>1 DEF Pass
  <2> QED BY <2>1, <2>2, ResultsPass
<1>5. CASE PassInSkippedFlow \/ PassSkipped \/ PassUnmet
  BY <1>4, <1>5 DEF PassInSkippedFlow, PassSkipped, PassUnmet, ToEvaluate
<1>6. CASE WhenRaises \/ PreTask
  <2>1. pc \notin Late /\ results' = results /\ at' = at /\ (raised' = raised \/ raised' # "no")
    BY <1>6 DEF WhenRaises, PreTask, ToEvaluate, AtTask, Raise, Late
  <2>2. \A k \in Index : k # at => verdict'[k] = verdict[k]
    BY <1>0, <1>6 DEF WhenRaises, PreTask
  <2> QED BY <2>1, <2>2, ResultsFrame
<1>7. CASE Resolve \/ NotFound \/ RunTask
  <2>1. pc \notin Late /\ results' = results /\ at' = at /\ (raised' = raised \/ raised' # "no")
    BY <1>7 DEF Resolve, NotFound, RunTask, Raise, Late
  <2>2. \A k \in Index : k # at => verdict'[k] = verdict[k]
    BY <1>0, <1>7 DEF Resolve, NotFound, RunTask
  <2> QED BY <2>1, <2>2, ResultsFrame
<1>8. CASE PostTask
  BY <1>8, ResultsPost
<1>9. CASE Completed
  BY <1>9, ResultsFrame DEF Completed, Late
<1>10. CASE PostFlow \/ Ended \/ UNCHANGED vars
  <2>1. /\ UNCHANGED <<at, verdict, results>> /\ (pc' \notin Late => pc \notin Late)
        /\ (raised' = "no" => raised = "no")
    BY <1>10 DEF PostFlow, Ended, vars, Late
  <2> QED BY <2>1 DEF ResultsInv
<1> QED
  BY <1>1, <1>2, <1>3, <1>5, <1>6, <1>7, <1>8, <1>9, <1>10 DEF Next, Run

\* The calls of a run: how they begin, pair and end.
CallsFit(c) ==
  \A n \in DOMAIN c :
    /\ c[n][1] = "pre_flow" <=> n = 1
    /\ c[n][1] = "post_task" => c[n - 1] = <<"pre_task", c[n][2]>>
    /\ c[n][1] = "post_flow" => n = Len(c)
Open(c) == \A n \in DOMAIN c : c[n][1] # "post_flow"
EndsWith(c, call, k) == c[Len(c)] = <<call, k>>
With(c, call, k) == Append(c, <<call, k>>)

LEMMA CallFits ==
  ASSUME NEW c \in Seq(Call \X (0..N)), CallsFit(c), Open(c), NEW call \in Call, NEW k \in 0..N,
         call = "pre_flow" <=> Len(c) = 0, call = "post_task" => EndsWith(c, "pre_task", k)
  PROVE  LET d == With(c, call, k) IN
         /\ CallsFit(d) /\ (call # "post_flow" => Open(d)) /\ EndsWith(d, call, k) /\ Len(d) = Len(c) + 1
<1> DEFINE d == Append(c, <<call, k>>)
<1>1. /\ Len(c) \in Nat /\ DOMAIN c = 1..Len(c) /\ Len(d) = Len(c) + 1 /\ DOMAIN d = 1..(Len(c) + 1)
      /\ d[Len(c) + 1] = <<call, k>> /\ \A n \in 1..Len(c) : d[n] = c[n]
  BY StepsTyped
<1> HIDE DEF d
<1>2. \A n \in DOMAIN d : n \in 1..Len(c) \/ n = Len(c) + 1
  BY <1>1
<1>3. ASSUME NEW n \in DOMAIN d
      PROVE  /\ d[n][1] = "pre_flow" <=> n = 1
             /\ d[n][1] = "post_task" => d[n - 1] = <<"pre_task", d[n][2]>>
             /\ d[n][1] = "post_flow" => n = Len(d)
  <2>1. CASE n \in 1..Len(c)
    <3>1. n \in DOMAIN c /\ d[n] = c[n] /\ (n # 1 => d[n - 1] = c[n - 1]) /\ "post_task" # "pre_flow"
      BY <1>1, <2>1
    <3> QED BY <3>1 DEF CallsFit, Open
  <2>2. CASE n = Len(c) + 1
    <3>1. d[n] = <<call, k>> /\ (n = 1 <=> Len(c) = 0) /\ n = Len(d) /\ d[n][1] = call /\ d[n][2] = k
      BY <1>1, <2>2
    <3>2. call = "post_task" => d[n - 1] = c[Len(c)]
      <4>1. call = "post_task" => Len(c) \in 1..Len(c) /\ n - 1 = Len(c)
        BY <1>1, <2>2
      <4> QED BY <1>1, <4>1
    <3>3. call = "post_task" => d[n - 1] = <<"pre_task", k>>
      BY <3>2 DEF EndsWith
    <3> QED BY <3>1, <3>3
  <2> QED BY <1>2, <2>1, <2>2
<1>4. call # "post_flow" => Open(d)
  <2> SUFFICES ASSUME call # "post_flow", NEW n \in DOMAIN d PROVE d[n][1] # "post_flow"
    BY DEF Open
  <2>1. CASE n \in 1..Len(c)
    BY <1>1, <2>1 DEF Open
  <2>2. CASE n = Len(c) + 1
    BY <1>1, <2>2
  <2> QED BY <1>2, <2>1, <2>2
<1>5. CallsFit(d)
  BY <1>3 DEF CallsFit
<1>6. EndsWith(d, call, k)
  BY <1>1 DEF EndsWith
<1> QED BY <1>1, <1>4, <1>5, <1>6 DEF With, d

CallsInv ==
  /\ CallsFit(calls)
  /\ pc # "ended" => Open(calls)
  /\ pc \in {"init_org", "pre_flow"} <=> (Len(calls) = 0 /\ raised # "org")
  /\ pc \in {"run_step", "task", "post_task"} => EndsWith(calls, "pre_task", at)
  /\ pc = "ended" /\ raised # "org" =>
       EndsWith(calls, "post_flow", 0) \/ (raised = "callback" /\ Len(calls) = 1)
  /\ raised = "org" => pc = "ended"

\* Steps that call nothing, before a call or after it.
LEMMA NoCall ==
  ASSUME CallsInv, calls' = calls, pc \notin {"init_org", "pre_flow", "ended"},
         pc' \notin {"init_org", "pre_flow", "ended"}, raised' # "org",
         pc' \in {"run_step", "task", "post_task"} => pc \in {"run_step", "task", "post_task"} /\ at' = at
  PROVE  CallsInv'
<1>1. Len(calls) # 0
  BY DEF CallsInv
<1> QED BY <1>1 DEF CallsInv

LEMMA CallsStep == Typed /\ CallsInv /\ [Next]_vars => CallsInv'
<1> SUFFICES ASSUME Typed, CallsInv, [Next]_vars PROVE CallsInv'
  OBVIOUS
<1>0. /\ calls \in Seq(Call \X (0..N)) /\ Len(calls) \in Nat
      /\ at \in 1..(N + 1) /\ 0 \in 0..N /\ Index \subseteq 0..N
  BY StepsTyped DEF Typed, TypeOK, Index
<1>1. CASE _init_org
  BY <1>1 DEF _init_org, CallsInv
<1>2. CASE PreFlow
  <2>1. calls' = With(calls, "pre_flow", 0) /\ Len(calls) = 0 /\ pc = "pre_flow" /\ raised # "org"
    BY <1>0, <1>2 DEF PreFlow, Calls, With, CallsInv
  <2>2. CallsFit(calls') /\ Open(calls') /\ EndsWith(calls', "pre_flow", 0) /\ Len(calls') = Len(calls) + 1
    <3>1. CallsFit(calls) /\ Open(calls)
      BY <2>1 DEF CallsInv
    <3>2. "pre_flow" \in Call /\ ("pre_flow" = "pre_flow" <=> Len(calls) = 0)
      BY <2>1 DEF Call
    <3>3. "pre_flow" = "post_task" => EndsWith(calls, "pre_task", 0)
      BY <2>1 DEF CallsInv
    <3> QED BY <1>0, <2>1, <3>1, <3>2, <3>3, CallFits
  <2> QED BY <1>0, <1>2, <2>1, <2>2 DEF PreFlow, CallsInv
<1>3. raised # "org" \/ pc = "ended"
  BY DEF CallsInv
<1>4. CASE EvaluateFlows \/ PassFlowStep \/ PassInSkippedFlow \/ PassSkipped \/ PassUnmet \/ WhenRaises
           \/ Resolve \/ NotFound \/ RunTask \/ Completed
  BY <1>3, <1>4, NoCall DEF EvaluateFlows, PassFlowStep, PassInSkippedFlow, PassSkipped, PassUnmet, Pass, WhenRaises,
    ToEvaluate, AtTask, Resolve, NotFound, RunTask, Completed, Raise
<1>5. CASE PreTask
  <2>1. calls' = With(calls, "pre_task", at) /\ Len(calls) # 0 /\ pc = "steps" /\ raised # "org" /\ at \in 0..N
    BY <1>0, <1>5 DEF PreTask, ToEvaluate, AtTask, Calls, With, CallsInv
  <2>2. CallsFit(calls') /\ Open(calls') /\ EndsWith(calls', "pre_task", at) /\ Len(calls') = Len(calls) + 1
    <3>1. CallsFit(calls) /\ Open(calls)
      BY <2>1 DEF CallsInv
    <3>2. "pre_task" \in Call /\ ("pre_task" = "pre_flow" <=> Len(calls) = 0)
      BY <2>1 DEF Call
    <3>3. "pre_task" = "post_task" => EndsWith(calls, "pre_task", at)
      BY <2>1 DEF CallsInv
    <3> QED BY <1>0, <2>1, <3>1, <3>2, <3>3, CallFits
  <2> QED BY <1>0, <1>5, <2>1, <2>2 DEF PreTask, Raise, CallsInv
<1>6. CASE PostTask
  <2>1. calls' = With(calls, "post_task", at) /\ Len(calls) # 0 /\ pc = "post_task" /\ raised # "org" /\ at \in 0..N
    BY <1>0, <1>6 DEF PostTask, Calls, With, CallsInv, Typed, InStep
  <2>2. CallsFit(calls') /\ Open(calls') /\ EndsWith(calls', "post_task", at) /\ Len(calls') = Len(calls) + 1
    <3>1. CallsFit(calls) /\ Open(calls)
      BY <2>1 DEF CallsInv
    <3>2. "post_task" \in Call /\ ("post_task" = "pre_flow" <=> Len(calls) = 0)
      BY <2>1 DEF Call
    <3>3. "post_task" = "post_task" => EndsWith(calls, "pre_task", at)
      BY <2>1 DEF CallsInv
    <3> QED BY <1>0, <2>1, <3>1, <3>2, <3>3, CallFits
  <2> QED BY <1>0, <1>6, <2>1, <2>2 DEF PostTask, Raise, CallsInv
<1>7. CASE PostFlow
  <2>1. calls' = With(calls, "post_flow", 0) /\ Len(calls) # 0 /\ pc = "post_flow" /\ raised # "org" /\ pc' = "ended"
        /\ raised' # "org"
    BY <1>0, <1>7 DEF PostFlow, Calls, With, CallsInv
  <2>2. CallsFit(calls') /\ EndsWith(calls', "post_flow", 0) /\ Len(calls') = Len(calls) + 1
    <3>1. CallsFit(calls) /\ Open(calls)
      BY <2>1 DEF CallsInv
    <3>2. "post_flow" \in Call /\ ("post_flow" = "pre_flow" <=> Len(calls) = 0)
      BY <2>1 DEF Call
    <3>3. "post_flow" = "post_task" => EndsWith(calls, "pre_task", 0)
      BY <2>1 DEF CallsInv
    <3> QED BY <1>0, <2>1, <3>1, <3>2, <3>3, CallFits
  <2> QED BY <1>0, <2>1, <2>2 DEF CallsInv
<1>8. CASE Ended \/ UNCHANGED vars
  BY <1>8 DEF Ended, vars, CallsInv
<1> QED
  BY <1>1, <1>2, <1>4, <1>5, <1>6, <1>7, <1>8 DEF Next, Run

\* The results a reference matches, and the first of them, in a list of results.
MatchesOf(ref, s) == {n \in DOMAIN s : IsSuffix(ref, Steps[s[n]].path)}
FoundIn(ref, s) == s[CHOOSE n \in MatchesOf(ref, s) : \A m \in MatchesOf(ref, s) : n <= m]

LEMMA FirstIn ==
  ASSUME NEW s \in Seq(Index), NEW ref, MatchesOf(ref, s) # {}
  PROVE  \E n \in MatchesOf(ref, s) : FoundIn(ref, s) = s[n] /\ \A m \in MatchesOf(ref, s) : n <= m
<1>1. MatchesOf(ref, s) \in SUBSET Nat
  BY DEF MatchesOf
<1>2. \E n \in MatchesOf(ref, s) : \A m \in MatchesOf(ref, s) : n <= m
  BY <1>1, LeastExists
<1> QED BY <1>2 DEF FoundIn

\* The first match stays the first.
LEMMA FoundStays ==
  ASSUME NEW s \in Seq(Index), NEW ref, NEW x \in Index, MatchesOf(ref, s) # {}
  PROVE  MatchesOf(ref, Append(s, x)) # {} /\ FoundIn(ref, Append(s, x)) = FoundIn(ref, s)
<1> DEFINE t == Append(s, x)
<1>1. /\ t \in Seq(Index) /\ Len(s) \in Nat /\ DOMAIN s = 1..Len(s) /\ DOMAIN t = 1..(Len(s) + 1)
      /\ \A n \in DOMAIN s : t[n] = s[n]
  OBVIOUS
<1> HIDE DEF t
<1>2. MatchesOf(ref, s) \subseteq MatchesOf(ref, t)
  BY <1>1 DEF MatchesOf
<1>3. \A n \in MatchesOf(ref, t) : n \in MatchesOf(ref, s) \/ n > Len(s)
  BY <1>1 DEF MatchesOf
<1>4. PICK a \in MatchesOf(ref, s) : FoundIn(ref, s) = s[a] /\ \A m \in MatchesOf(ref, s) : a <= m
  BY FirstIn
<1>5. PICK b \in MatchesOf(ref, t) : FoundIn(ref, t) = t[b] /\ \A m \in MatchesOf(ref, t) : b <= m
  BY <1>1, <1>2, <1>4, FirstIn
<1>6. a \in 1..Len(s) /\ b \in 1..(Len(s) + 1)
  BY <1>1 DEF MatchesOf
<1>7. b <= a
  BY <1>2, <1>5
<1>8. b \in MatchesOf(ref, s)
  BY <1>1, <1>3, <1>6, <1>7
<1>9. a = b
  BY <1>4, <1>6, <1>7, <1>8
<1> QED BY <1>1, <1>2, <1>4, <1>5, <1>6, <1>9 DEF t

\* A reference is to the first of the results it matches, of an earlier step.
ReferencesInv ==
  \A k \in Index : \A o \in options[k] :
    MatchesOf(o[1], results) # {} /\ o[2] = FoundIn(o[1], results) /\ o[2] < k

LEMMA ReferencesStep == Typed /\ ResultsInv /\ ReferencesInv /\ [Next]_vars => ReferencesInv'
<1> SUFFICES ASSUME Typed, ResultsInv, ReferencesInv, [Next]_vars PROVE ReferencesInv'
  OBVIOUS
<1>0. results \in Seq(Index) /\ options \in [Index -> SUBSET (Seq(STRING) \X Index)]
  BY DEF Typed, TypeOK
<1>1. CASE Resolve
  <2>1. at \in Index /\ pc \notin Late /\ results' = results
    BY <1>1 DEF Resolve, Typed, InStep, Late
  <2>2. options' = [options EXCEPT ![at] = {<<ref, _find_result_by_path(ref)>> : ref \in Steps[at].refs}]
    BY <1>1 DEF Resolve
  <2>3. \A ref \in Steps[at].refs : MatchesOf(ref, results) # {}
    BY <1>1 DEF Resolve, Matches, MatchesOf
  <2>4. \A ref : _find_result_by_path(ref) = FoundIn(ref, results)
    BY DEF _find_result_by_path, FoundIn, Matches, MatchesOf
  <2>5. \A ref \in Steps[at].refs : FoundIn(ref, results) < at
    <3> TAKE ref \in Steps[at].refs
    <3>1. PICK n \in MatchesOf(ref, results) : FoundIn(ref, results) = results[n]
      BY <1>0, <2>3, FirstIn
    <3> QED BY <2>1, <3>1 DEF MatchesOf, ResultsInv
  <2>6. ASSUME NEW k \in Index, NEW o \in options'[k]
        PROVE  MatchesOf(o[1], results) # {} /\ o[2] = FoundIn(o[1], results) /\ o[2] < k
    <3>1. CASE k = at
      <4>1. options'[at] = {<<ref, _find_result_by_path(ref)>> : ref \in Steps[at].refs}
        BY <1>0, <2>1, <2>2
      <4>2. PICK ref \in Steps[at].refs : o = <<ref, _find_result_by_path(ref)>>
        BY <2>6, <3>1, <4>1
      <4> QED BY <2>3, <2>4, <2>5, <3>1, <4>2
    <3>2. CASE k # at
      <4>1. o \in options[k]
        BY <1>0, <2>2, <2>6, <3>2
      <4> QED BY <4>1 DEF ReferencesInv
    <3> QED BY <3>1, <3>2
  <2> QED BY <2>1, <2>6 DEF ReferencesInv
<1>2. CASE PostTask
  <2>1. at \in Index /\ options' = options /\ (results' = results \/ results' = Append(results, at))
    BY <1>2 DEF PostTask, Typed, InStep
  <2>2. ASSUME NEW k \in Index, NEW o \in options'[k]
        PROVE  MatchesOf(o[1], results') # {} /\ o[2] = FoundIn(o[1], results') /\ o[2] < k
    <3>1. MatchesOf(o[1], results) # {} /\ o[2] = FoundIn(o[1], results) /\ o[2] < k
      BY <2>1, <2>2 DEF ReferencesInv
    <3>2. results' = Append(results, at) => MatchesOf(o[1], results') # {} /\ FoundIn(o[1], results') = FoundIn(o[1], results)
      BY <1>0, <2>1, <3>1, FoundStays
    <3> QED BY <2>1, <3>1, <3>2
  <2> QED BY <2>2 DEF ReferencesInv
<1>3. CASE UNCHANGED <<results, options>>
  BY <1>3 DEF ReferencesInv
<1>4. Resolve \/ PostTask \/ UNCHANGED <<results, options>>
  BY DEF Next, Run, _init_org, PreFlow, EvaluateFlows, PassFlowStep, PassInSkippedFlow, PassSkipped, PassUnmet, Pass,
    WhenRaises, PreTask, NotFound, RunTask, Completed, PostFlow, Ended, vars
<1> QED BY <1>1, <1>2, <1>3, <1>4

LEMMA WholeInit == Init => ResultsInv /\ CallsInv /\ ReferencesInv
<1> SUFFICES ASSUME Init PROVE ResultsInv /\ CallsInv /\ ReferencesInv
  OBVIOUS
<1>1. DOMAIN results = {} /\ DOMAIN calls = {} /\ at = 1 /\ \A k \in Index : ~(k < 1)
  BY StepsTyped DEF Init, Index
<1>2. ResultsInv
  BY <1>1 DEF ResultsInv
<1>3. CallsInv
  <2>1. Len(calls) = 0 /\ pc = "init_org" /\ raised = "no"
    BY DEF Init
  <2> QED BY <1>1, <2>1 DEF CallsInv, CallsFit, Open
<1>4. ReferencesInv
  BY DEF Init, ReferencesInv
<1> QED BY <1>2, <1>3, <1>4

\* A run that returns has decided every step and lists what ran, in order; its callbacks
\* come in pairs and post_flow is the last; references read the results they name:
\* FlowCoordinator.run, _run_step and _find_result_by_path.
THEOREM RunsAreWhole == Spec => []RunIsWhole
<1>1. Typed /\ Progress /\ Decided /\ ResultsInv => SuccessIsComplete
  <2> SUFFICES ASSUME Typed, Progress, Decided, ResultsInv, pc = "ended", raised = "no"
               PROVE  /\ \A k \in Index : verdict[k] \notin {"pending", "begun", "running"} /\ ~Fatal(k)
                      /\ \A n, m \in DOMAIN results : n < m => results[n] < results[m]
                      /\ {results[n] : n \in DOMAIN results} = {k \in Index : verdict[k] \in Ran}
    BY DEF SuccessIsComplete
  <2>1. at = N + 1 /\ \A k \in Index : k < at
    BY StepsTyped DEF Decided, RaisedLate, Late, Index
  <2>2. \A n \in DOMAIN results : results[n] \in Index /\ verdict[results[n]] \in Ran
    BY DEF Typed, TypeOK, ResultsInv, Ran
  <2>3. \A k \in Index : verdict[k] \in Ran => \E n \in DOMAIN results : results[n] = k
    BY <2>1 DEF ResultsInv
  <2>4. {results[n] : n \in DOMAIN results} = {k \in Index : verdict[k] \in Ran}
    BY <2>2, <2>3
  <2> QED BY <2>1, <2>4 DEF ResultsInv, Progress, NoneFatal
<1>2. CallsInv => CallbackProtocol
  BY DEF CallsInv, CallsFit, EndsWith, CallbackProtocol, Last
<1>3. Typed /\ ResultsInv /\ ReferencesInv => ReferencesAgree
  <2> SUFFICES ASSUME Typed, ResultsInv, ReferencesInv, NEW k \in Index, NEW m \in Index,
                      NEW o \in options[k], NEW q \in options[m]
               PROVE  /\ o[2] < k /\ verdict[o[2]] \in {"succeeded", "failed"}
                      /\ o[1] = q[1] => o[2] = q[2]
    BY DEF ReferencesAgree
  <2>1. MatchesOf(o[1], results) # {} /\ o[2] = FoundIn(o[1], results) /\ o[2] < k /\ q[2] = FoundIn(q[1], results)
    BY DEF ReferencesInv
  <2>2. PICK n \in MatchesOf(o[1], results) : o[2] = results[n]
    BY <2>1, FirstIn DEF Typed, TypeOK
  <2> QED BY <2>1, <2>2 DEF MatchesOf, ResultsInv
<1> QED
  BY <1>1, <1>2, <1>3, WholeInit, ResultsStep, CallsStep, ReferencesStep, TypedInit, TypedStep, ProgressInit,
     ProgressStep, DecidedInit, DecidedStep, PTL DEF Spec, RunIsWhole, Typed

-----------------------------------------------------------------------------
(* The publishing of plans. What the server has only grows; what a task knows *)
(* of it stays true while other tasks run, and while it is alone it knows all *)
(* that is there.                                                             *)

AllLabels == {<<"product", "title">>} \cup UNION {LabelsOf(plan) : plan \in Planned}
Frozen == {<<>>} \cup {FreezeSteps(plan) : plan \in Planned}
Writing == {"template", "create template", "slug", "plan"}
Busy == {"product", "version", "create version", "labels", "freeze"} \cup Writing
Task == [at : Busy, todo : Seq(Planned), all : Seq(Planned), dry : BOOLEAN, list : BOOLEAN,
         labels : SUBSET AllLabels, version : Nat, template : Nat, steps : Frozen]
Meta == [versions : Seq([listed : BOOLEAN]), templates : Seq([name : PlanNames, slug : BOOLEAN]),
         plans : Seq([name : PlanNames, version : Nat, template : Nat, steps : Frozen,
                      orgs : {SupportedOrgs(plan) : plan \in Planned}])]

\* A plan names a version and a template that are there.
MetaSound(m) ==
  /\ m \in Meta
  /\ \A i \in DOMAIN m.plans : m.plans[i].version \in DOMAIN m.versions /\ m.plans[i].template \in DOMAIN m.templates

\* No version or template goes, and no plan changes.
Grows(m, n) ==
  /\ DOMAIN m.versions \subseteq DOMAIN n.versions /\ DOMAIN m.templates \subseteq DOMAIN n.templates
  /\ \A i \in DOMAIN m.plans : i \in DOMAIN n.plans /\ n.plans[i] = m.plans[i]

\* The server has this plan of this version.
HasPlan(m, version, name) == \E i \in DOMAIN m.plans : m.plans[i].version = version /\ m.plans[i].name = name

\* Of each plan of the task: it is still to do, or has been.
SoundTask(p, m) ==
  /\ p \in Task
  /\ p.at \in Writing => p.todo # <<>> /\ LabelsOf(Head(p.todo)) \subseteq p.labels /\ ~p.dry
  /\ p.at \in {"version", "create version"} => p.todo = p.all
  /\ p.at \in {"product", "version", "create version"} => p.version = 0
  /\ p.at = "product" => p.todo = p.all
  /\ p.at \in {"version", "create version", "labels"} \/ p.list => ~p.dry
  /\ p.at \in {"labels", "freeze"} \cup Writing /\ ~p.dry => p.version \in DOMAIN m.versions
  /\ p.at \in {"slug", "plan"} => p.template \in DOMAIN m.templates
  /\ \A i \in DOMAIN p.all :
       \/ \E j \in DOMAIN p.todo : p.todo[j] = p.all[i]
       \/ LabelsOf(p.all[i]) \subseteq p.labels /\ (p.dry \/ HasPlan(m, p.version, p.all[i].name))

MadeInv(made, m) ==
  /\ made \in Seq([version : Nat, plans : Seq(Planned)])
  /\ \A i \in DOMAIN made : \A j \in DOMAIN made[i].plans : HasPlan(m, made[i].version, made[i].plans[j].name)

\* What is there once, and what the task that is alone knows of it.
Once(m) ==
  /\ Len(m.versions) <= 1
  /\ \A t, u \in DOMAIN m.templates : m.templates[t].name = m.templates[u].name => t = u
KnowsAll(p, m) ==
  /\ p.at = "create version" => Len(m.versions) = 0
  /\ p.at = "create template" => \A t \in DOMAIN m.templates : m.templates[t].name # Head(p.todo).name
  /\ labelsFile \subseteq p.labels

TasksInv ==
  /\ publishers \in [Publisher -> {NotPublishing} \cup Task]
  /\ \A k \in Publisher : publishers[k] = NotPublishing \/ SoundTask(publishers[k], meta)

AloneInv ==
  ~overlapped =>
    /\ \A k, l \in Publisher : k = l \/ publishers[k] = NotPublishing \/ publishers[l] = NotPublishing
    /\ Once(meta)
    /\ \A k \in Publisher : publishers[k] = NotPublishing \/ KnowsAll(publishers[k], meta)
    /\ \A plan \in finished : LabelsOf(plan) \subseteq labelsFile

PublishInv ==
  /\ installation.plans \in Seq(Planned)
  /\ labelsFile \subseteq AllLabels /\ overlapped \in BOOLEAN
  /\ publishes \in 0..MaxPublishes /\ publishFaults \in 0..MaxPublishFaults
  /\ MetaSound(meta)
  /\ TasksInv
  /\ MadeInv(madeBy, meta)
  /\ AloneInv

LEMMA PublishInvInit == InstallInit => PublishInv
<1> SUFFICES ASSUME InstallInit PROVE PublishInv OBVIOUS
<1> USE DEF InstallInit
<1>1. installation.plans \in Seq(Planned)
  BY InstallAssumption DEF Planned
<1>2. MetaSound(meta)
  BY DEF MetaSound, Meta
<1>3. TasksInv BY DEF TasksInv
<1>4. MadeInv(madeBy, meta) BY DEF MadeInv
<1>5. AloneInv BY DEF AloneInv, Once
<1>6. publishes \in 0..MaxPublishes /\ publishFaults \in 0..MaxPublishFaults
  BY InstallAssumption
<1> QED BY <1>1, <1>2, <1>3, <1>4, <1>5, <1>6 DEF PublishInv

LEMMA GrowsKeeps ==
  ASSUME NEW m, NEW n, Grows(m, n)
  PROVE  /\ \A version, name : HasPlan(m, version, name) => HasPlan(n, version, name)
         /\ \A p : SoundTask(p, m) => SoundTask(p, n)
         /\ \A made : MadeInv(made, m) => MadeInv(made, n)
<1>1. \A version, name : HasPlan(m, version, name) => HasPlan(n, version, name)
  BY DEF Grows, HasPlan
<1>2. ASSUME NEW p, SoundTask(p, m) PROVE SoundTask(p, n)
  BY <1>1, <1>2 DEF Grows, SoundTask
<1>3. ASSUME NEW made, MadeInv(made, m) PROVE MadeInv(made, n)
  BY <1>1, <1>3 DEF MadeInv
<1> QED BY <1>1, <1>2, <1>3

LEMMA GrowsOfItself == \A m : Grows(m, m)
BY DEF Grows

LEMMA TaskIsNotIdle == \A p \in Task : p # NotPublishing
<1>1. \A p \in Task : p.at # "idle"
  BY DEF Task, Busy, Writing
<1> QED BY <1>1 DEF NotPublishing

LEMMA IdleOrSound ==
  ASSUME PublishInv, NEW k \in Publisher, NEW now \in Busy, Doing(k, now)
  PROVE  /\ publishers[k] # NotPublishing /\ publishers[k].at = now /\ publishers[k] \in Task /\ SoundTask(publishers[k], meta)
         /\ ~overlapped => KnowsAll(publishers[k], meta) /\ \A l \in Publisher \ {k} : publishers[l] = NotPublishing
<1>1. publishers[k].at = now BY DEF Doing
<1>2. NotPublishing.at = "idle" /\ now # "idle"
  BY DEF NotPublishing, Busy, Writing
<1>3. publishers[k] # NotPublishing
  BY <1>1, <1>2
<1> QED BY <1>1, <1>3 DEF PublishInv, TasksInv, AloneInv

\* Whatever an answer is, a task that knew the server before it knows it after it,
\* and a failure ends the task.
LEMMA AnswerKeeps ==
  ASSUME PublishInv, NEW k \in Publisher, publishers[k] # NotPublishing, NEW effect, NEW next,
         Answered(k, effect, next), MetaSound(effect), Grows(meta, effect), SoundTask(next, effect),
         ~overlapped => Once(effect) /\ KnowsAll(next, effect),
         MadeInv(madeBy', meta')
  PROVE  PublishInv'
<1>1. /\ UNCHANGED <<installation, labelsFile, publishes, finished, overlapped>>
      /\ meta' \in {meta, effect}
      /\ \E p \in {NotPublishing, next} : publishers' = [publishers EXCEPT ![k] = p]
      /\ publishers' = [publishers EXCEPT ![k] = NotPublishing] \/ meta' = effect
      /\ publishFaults' \in 0..MaxPublishFaults
  BY InstallAssumption DEF Answered, Goes, Raised, PublishInv
<1>2. PICK p \in {NotPublishing, next} : publishers' = [publishers EXCEPT ![k] = p] /\ (p = NotPublishing \/ meta' = effect)
  BY <1>1
<1>3. Planned' = Planned /\ PlanNames' = PlanNames /\ AllLabels' = AllLabels /\ Task' = Task /\ Meta' = Meta /\ Frozen' = Frozen
  BY <1>1 DEF Planned, PlanNames, AllLabels, Task, Meta, Frozen
<1>4. Grows(meta, meta') /\ MetaSound(meta')
  BY <1>1, GrowsOfItself DEF PublishInv
<1>5. publishers' \in [Publisher -> {NotPublishing} \cup Task]
  BY <1>2 DEF PublishInv, TasksInv, SoundTask
<1>6. \A l \in Publisher : l # k => publishers'[l] = publishers[l]
  BY <1>2 DEF PublishInv, TasksInv
<1>7. publishers'[k] = p
  BY <1>2 DEF PublishInv, TasksInv
<1>8. \A l \in Publisher : publishers'[l] = NotPublishing \/ SoundTask(publishers'[l], meta')
  <2>1. ASSUME NEW l \in Publisher, l # k PROVE publishers'[l] = NotPublishing \/ SoundTask(publishers'[l], meta')
    BY <2>1, <1>4, <1>6, GrowsKeeps DEF PublishInv, TasksInv
  <2>2. publishers'[k] = NotPublishing \/ SoundTask(publishers'[k], meta')
    BY <1>2, <1>7
  <2> QED BY <2>1, <2>2
<1>9. AloneInv'
  <2>1. SUFFICES ASSUME ~overlapped PROVE AloneInv' BY <1>1 DEF AloneInv
  <2>2. \A l \in Publisher : l = k \/ publishers'[l] = NotPublishing
    BY <2>1, <1>6 DEF PublishInv, AloneInv
  <2>3. Once(meta') BY <2>1, <1>1 DEF PublishInv, AloneInv
  <2>4. p = NotPublishing \/ KnowsAll(p, effect)' 
    BY <2>1, <1>1, <1>2 DEF KnowsAll
  <2> QED BY <2>1, <2>2, <2>3, <2>4, <1>1, <1>2, <1>7 DEF PublishInv, AloneInv, KnowsAll
<1>10. TasksInv'
  BY <1>3, <1>5, <1>8 DEF TasksInv, SoundTask, NotPublishing
<1> QED BY <1>1, <1>3, <1>4, <1>9, <1>10 DEF PublishInv, MetaSound, MadeInv

LEMMA RequestKeeps ==
  ASSUME PublishInv, NEW k \in Publisher, publishers[k] # NotPublishing, NEW effect, NEW next,
         Request(k, effect, next), MetaSound(effect), Grows(meta, effect), SoundTask(next, effect),
         ~overlapped => Once(effect) /\ KnowsAll(next, effect)
  PROVE  PublishInv'
<1>1. Answered(k, effect, next) /\ UNCHANGED madeBy /\ meta' \in {meta, effect}
  BY DEF Request, Answered
<1>2. Grows(meta, meta') BY <1>1, GrowsOfItself
<1>3. MadeInv(madeBy', meta') BY <1>1, <1>2, GrowsKeeps DEF PublishInv
<1> QED BY <1>1, <1>3, AnswerKeeps

\* What asks the server nothing.
LEMMA LocalKeeps ==
  ASSUME PublishInv, NEW k \in Publisher, publishers[k] # NotPublishing, NEW p,
         publishers' = [publishers EXCEPT ![k] = p],
         p = NotPublishing \/ (SoundTask(p, meta) /\ (~overlapped => KnowsAll(p, meta))),
         UNCHANGED <<installation, meta, labelsFile, publishes, publishFaults, madeBy, finished, overlapped>>
  PROVE  PublishInv'
<1>1. Planned' = Planned /\ PlanNames' = PlanNames /\ AllLabels' = AllLabels /\ Task' = Task /\ Meta' = Meta /\ Frozen' = Frozen
  BY DEF Planned, PlanNames, AllLabels, Task, Meta, Frozen
<1>2. publishers' \in [Publisher -> {NotPublishing} \cup Task]
  BY DEF PublishInv, TasksInv, SoundTask
<1>3. publishers'[k] = p /\ \A l \in Publisher : l # k => publishers'[l] = publishers[l]
  BY DEF PublishInv, TasksInv
<1>4. TasksInv'
  <2>1. \A l \in Publisher : publishers'[l] = NotPublishing \/ SoundTask(publishers'[l], meta')
    BY <1>3 DEF PublishInv, TasksInv
  <2> QED BY <1>1, <1>2, <2>1 DEF TasksInv, SoundTask, NotPublishing
<1>5. AloneInv'
  BY <1>3 DEF PublishInv, AloneInv, KnowsAll
<1> QED BY <1>1, <1>4, <1>5 DEF PublishInv, MetaSound, MadeInv

LEMMA PublishKeeps ==
  ASSUME PublishInv, NEW k \in Publisher, NEW only \in PlanNames \cup {"all"}, NEW dry \in BOOLEAN, NEW list \in BOOLEAN,
         Publish(k, only, dry, list)
  PROVE  PublishInv'
<1>1. PICK chosen \in Seq(Planned) :
        publishers' = [publishers EXCEPT ![k] =
          [at |-> "product", todo |-> chosen, all |-> chosen, dry |-> dry, list |-> list /\ ~dry,
           labels |-> labelsFile, version |-> 0, template |-> 0, steps |-> <<>>]]
  <2> DEFINE one == CHOOSE plan \in Planned : plan.name = only
             chosen == IF only = "all" THEN installation.plans ELSE <<one>>
  <2>1. only # "all" => one \in Planned
    BY DEF PlanNames
  <2>2. chosen \in Seq(Planned)
    <3> HIDE DEF one
    <3> QED BY <2>1 DEF PublishInv
  <2> HIDE DEF chosen
  <2>3. chosen = IF only = "all" THEN installation.plans ELSE <<CHOOSE plan \in Planned : plan.name = only>>
    BY DEF chosen
  <2> QED BY <2>2, <2>3 DEF Publish, Goes, _load_labels
<1> DEFINE p == [at |-> "product", todo |-> chosen, all |-> chosen, dry |-> dry, list |-> list /\ ~dry,
                 labels |-> labelsFile, version |-> 0, template |-> 0, steps |-> <<>>]
<1>2. /\ UNCHANGED <<installation, meta, labelsFile, publishFaults, madeBy, finished>>
      /\ publishes' \in 0..MaxPublishes
      /\ overlapped' = (overlapped \/ \E l \in Publisher \ {k} : ~Doing(l, "idle"))
  BY InstallAssumption DEF Publish, PublishInv
<1>3. Planned' = Planned /\ PlanNames' = PlanNames /\ AllLabels' = AllLabels /\ Task' = Task /\ Meta' = Meta /\ Frozen' = Frozen
  BY <1>2 DEF Planned, PlanNames, AllLabels, Task, Meta, Frozen
<1>4. p \in Task
  BY DEF PublishInv, Task, Busy, Frozen
<1>5. SoundTask(p, meta) /\ KnowsAll(p, meta)
  BY <1>4 DEF SoundTask, KnowsAll, Writing
<1>6. publishers' = [publishers EXCEPT ![k] = p] BY <1>1
<1> HIDE DEF p
<1>7. publishers'[k] = p /\ \A l \in Publisher : l # k => publishers'[l] = publishers[l]
  BY <1>6 DEF PublishInv, TasksInv
<1>8. TasksInv'
  <2>1. publishers' \in [Publisher -> {NotPublishing} \cup Task]
    BY <1>4, <1>6 DEF PublishInv, TasksInv
  <2>2. \A l \in Publisher : publishers'[l] = NotPublishing \/ SoundTask(publishers'[l], meta')
    BY <1>2, <1>5, <1>7 DEF PublishInv, TasksInv
  <2> QED BY <1>3, <2>1, <2>2 DEF TasksInv, SoundTask, NotPublishing
<1>9. AloneInv'
  <2>1. SUFFICES ASSUME ~overlapped' PROVE AloneInv' BY DEF AloneInv
  <2>2. ~overlapped /\ \A l \in Publisher \ {k} : publishers[l] = NotPublishing
    <3>1. ASSUME NEW l \in Publisher \ {k} PROVE publishers[l] = NotPublishing
      <4>1. publishers[l].at = "idle" BY <1>2, <2>1 DEF Doing
      <4> QED BY <4>1 DEF PublishInv, TasksInv, Task, Busy, Writing
    <3> QED BY <3>1, <1>2, <2>1
  <2>3. \A l \in Publisher \ {k} : publishers'[l] = NotPublishing
    BY <2>2, <1>7
  <2> QED BY <2>2, <2>3, <1>2, <1>5, <1>7 DEF PublishInv, AloneInv, KnowsAll, NotPublishing
<1> QED BY <1>2, <1>3, <1>8, <1>9 DEF PublishInv, MetaSound, MadeInv

LEMMA ElementIsIn ==
  ASSUME NEW S, NEW s \in Seq(S), NEW i \in DOMAIN s
  PROVE  s[i] \in S
OBVIOUS

\* All but the first of a sequence is in its tail.
LEMMA TailHasTheRest ==
  ASSUME NEW S, NEW s \in Seq(S), s # <<>>, NEW j \in DOMAIN s
  PROVE  s[j] = Head(s) \/ \E i \in DOMAIN Tail(s) : Tail(s)[i] = s[j]
<1>1. ASSUME j # 1 PROVE j - 1 \in DOMAIN Tail(s) /\ Tail(s)[j - 1] = s[j]
  BY <1>1
<1> QED BY <1>1

LEMMA MetaTyped ==
  PublishInv =>
    /\ meta \in Meta /\ MetaSound(meta) /\ (~overlapped => Once(meta))
    /\ meta.versions \in Seq([listed : BOOLEAN]) /\ Len(meta.versions) \in Nat
    /\ DOMAIN meta.versions = 1..Len(meta.versions)
    /\ meta.templates \in Seq([name : PlanNames, slug : BOOLEAN]) /\ Len(meta.templates) \in Nat
    /\ DOMAIN meta.templates = 1..Len(meta.templates)
    /\ meta.plans \in Seq([name : PlanNames, version : Nat, template : Nat, steps : Frozen,
                            orgs : {SupportedOrgs(plan) : plan \in Planned}])
<1> SUFFICES ASSUME PublishInv, meta \in Meta
             PROVE  /\ meta.versions \in Seq([listed : BOOLEAN])
                    /\ meta.templates \in Seq([name : PlanNames, slug : BOOLEAN])
                    /\ meta.plans \in Seq([name : PlanNames, version : Nat, template : Nat, steps : Frozen,
                            orgs : {SupportedOrgs(plan) : plan \in Planned}])
  BY DEF PublishInv, MetaSound, AloneInv
<1> QED BY DEF Meta

\* Of a set of numbers the least is chosen.
LEMMA LeastIsChosen ==
  ASSUME NEW S \in SUBSET Nat, S # {}
  PROVE  (CHOOSE n \in S : \A m \in S : n <= m) \in S
BY LeastExists

LEMMA ProductKeeps == ASSUME PublishInv, NEW k \in Publisher, _find_product(k) PROVE PublishInv'
<1> DEFINE p == publishers[k]
           q == [p EXCEPT !.at = IF p.dry THEN "freeze" ELSE "version", !.labels = @ \cup {<<"product", "title">>}]
<1>1. /\ p # NotPublishing /\ p.at = "product" /\ p \in Task /\ SoundTask(p, meta) /\ (~overlapped => KnowsAll(p, meta))
  BY IdleOrSound DEF _find_product, Busy
<1>2. CASE ~installation.product
  BY <1>1, <1>2, LocalKeeps DEF _find_product, Raised
<1>3. CASE installation.product
  <2>1. Request(k, meta, q) BY <1>3 DEF _find_product
  <2>2. q \in Task /\ q.at = (IF p.dry THEN "freeze" ELSE "version") /\ q.todo = p.todo /\ q.all = p.all /\ q.dry = p.dry
        /\ q.list = p.list /\ q.version = p.version /\ p.labels \subseteq q.labels
    BY <1>1 DEF Task, Busy, AllLabels
  <2>3. SoundTask(q, meta)
    <3> HIDE DEF q, p
    <3> QED BY <1>1, <2>2 DEF SoundTask, Writing
  <2>4. ~overlapped => KnowsAll(q, meta)
    BY <1>1, <2>2 DEF KnowsAll
  <2>5. MetaSound(meta) /\ (~overlapped => Once(meta)) BY DEF PublishInv, AloneInv
  <2> QED BY <1>1, <2>1, <2>3, <2>4, <2>5, GrowsOfItself, RequestKeeps
<1> QED BY <1>2, <1>3

LEMMA VersionKeeps == ASSUME PublishInv, NEW k \in Publisher, _find_version(k) PROVE PublishInv'
<1> DEFINE p == publishers[k]
           found == CHOOSE v \in FoundVersion : \A w \in FoundVersion : v <= w
           q == IF FoundVersion = {} THEN [p EXCEPT !.at = "create version"] ELSE [p EXCEPT !.at = "labels", !.version = found]
<1>1. /\ p # NotPublishing /\ p.at = "version" /\ p \in Task /\ SoundTask(p, meta) /\ (~overlapped => KnowsAll(p, meta))
  BY IdleOrSound DEF _find_version, Busy
<1>2. Request(k, meta, q) BY DEF _find_version
<1>3. FoundVersion \in SUBSET Nat /\ FoundVersion = DOMAIN meta.versions
  BY DEF FoundVersion, PublishInv, MetaSound, Meta
<1>4. FoundVersion # {} => found \in FoundVersion
  BY <1>3, LeastIsChosen
<1>5. q \in Task /\ q.todo = p.todo /\ q.all = p.all /\ q.dry = p.dry /\ q.list = p.list /\ q.labels = p.labels
      /\ IF FoundVersion = {} THEN q.at = "create version" /\ q.version = p.version ELSE q.at = "labels" /\ q.version = found
  <2> HIDE DEF found
  <2> QED BY <1>1, <1>3, <1>4 DEF Task, Busy
<1>6. SoundTask(q, meta)
  <2> HIDE DEF q, p, found
  <2> QED BY <1>1, <1>3, <1>4, <1>5 DEF SoundTask, Writing
<1>7. ~overlapped => KnowsAll(q, meta)
  <2>1. FoundVersion = {} => Len(meta.versions) = 0
    <3>1. Len(meta.versions) \in Nat /\ FoundVersion = 1..Len(meta.versions)
      BY <1>3, MetaTyped
    <3> QED BY <3>1
  <2> HIDE DEF q, p, found
  <2> QED BY <1>1, <1>5, <2>1 DEF KnowsAll
<1>8. MetaSound(meta) /\ (~overlapped => Once(meta)) BY DEF PublishInv, AloneInv
<1> QED BY <1>1, <1>2, <1>6, <1>7, <1>8, GrowsOfItself, RequestKeeps

LEMMA CreateVersionKeeps == ASSUME PublishInv, NEW k \in Publisher, _create_version(k) PROVE PublishInv'
<1> DEFINE p == publishers[k]
           made == Append(meta.versions, [listed |-> FALSE])
           effect == [meta EXCEPT !.versions = made]
           q == [p EXCEPT !.at = "labels", !.version = Len(meta.versions) + 1]
<1>1. /\ p # NotPublishing /\ p.at = "create version" /\ p \in Task /\ SoundTask(p, meta) /\ (~overlapped => KnowsAll(p, meta))
  BY IdleOrSound DEF _create_version, Busy
<1>2. Request(k, effect, q) BY DEF _create_version
<1>3. meta.versions \in Seq([listed : BOOLEAN]) /\ meta \in Meta
  BY MetaTyped
<1>4. made \in Seq([listed : BOOLEAN]) /\ DOMAIN made = DOMAIN meta.versions \cup {Len(meta.versions) + 1}
      /\ Len(made) = Len(meta.versions) + 1
  BY <1>3
<1>5. effect \in Meta /\ effect.versions = made /\ effect.plans = meta.plans /\ effect.templates = meta.templates
  <2> HIDE DEF made
  <2> QED BY <1>3, <1>4 DEF Meta
<1> HIDE DEF made, effect
<1>6. MetaSound(effect) /\ Grows(meta, effect)
  BY <1>3, <1>4, <1>5 DEF PublishInv, MetaSound, Grows
<1>7. q \in Task /\ q.at = "labels" /\ q.todo = p.todo /\ q.all = p.all /\ q.dry = p.dry /\ q.list = p.list /\ q.labels = p.labels
      /\ q.version \in DOMAIN effect.versions
  <2>1. Len(meta.versions) + 1 \in Nat BY MetaTyped
  <2> QED BY <1>1, <1>4, <1>5, <2>1 DEF Task, Busy
<1>8. SoundTask(q, effect)
  <2> HIDE DEF q, p
  <2> QED BY <1>1, <1>7 DEF SoundTask, Writing
<1>9. ~overlapped => Once(effect) /\ KnowsAll(q, effect)
  <2> HIDE DEF q, p
  <2>1. SUFFICES ASSUME ~overlapped PROVE Once(effect) /\ KnowsAll(q, effect) OBVIOUS
  <2>2. Len(meta.versions) = 0 /\ labelsFile \subseteq q.labels
    BY <1>1, <1>7, <2>1 DEF KnowsAll
  <2>3. Once(effect)
    <3>1. Once(meta) BY <2>1, MetaTyped
    <3>2. Len(effect.versions) = 1 BY <1>4, <1>5, <2>2
    <3> QED BY <3>1, <3>2, <1>5 DEF Once
  <2> QED BY <1>7, <2>2, <2>3 DEF KnowsAll
<1> QED BY <1>1, <1>2, <1>6, <1>8, <1>9, RequestKeeps

LEMMA LabelsKeep == ASSUME PublishInv, NEW k \in Publisher, _publish_labels(k) PROVE PublishInv'
<1> DEFINE p == publishers[k]
           q == [p EXCEPT !.at = "freeze"]
<1>1. /\ p # NotPublishing /\ p.at = "labels" /\ p \in Task /\ SoundTask(p, meta) /\ (~overlapped => KnowsAll(p, meta))
  BY IdleOrSound DEF _publish_labels, Busy
<1>2. Request(k, meta, q) BY DEF _publish_labels
<1>3. q \in Task /\ q.at = "freeze" /\ q.todo = p.todo /\ q.all = p.all /\ q.dry = p.dry /\ q.list = p.list
      /\ q.labels = p.labels /\ q.version = p.version
  BY <1>1 DEF Task, Busy
<1>4. SoundTask(q, meta) /\ (~overlapped => KnowsAll(q, meta))
  <2> HIDE DEF q, p
  <2> QED BY <1>1, <1>3 DEF SoundTask, KnowsAll, Writing
<1>5. MetaSound(meta) /\ (~overlapped => Once(meta)) BY DEF PublishInv, AloneInv
<1> QED BY <1>1, <1>2, <1>4, <1>5, GrowsOfItself, RequestKeeps

LEMMA FreezeKeeps == ASSUME PublishInv, NEW k \in Publisher, _freeze_steps(k) PROVE PublishInv'
<1> DEFINE p == publishers[k]
           plan == Head(p.todo)
           seen == [p EXCEPT !.labels = @ \cup LabelsOf(plan), !.steps = FreezeSteps(plan)]
           q == IF p.dry THEN [seen EXCEPT !.todo = Tail(@)] ELSE [seen EXCEPT !.at = "template"]
<1>1. /\ p # NotPublishing /\ p.at = "freeze" /\ p \in Task /\ SoundTask(p, meta) /\ (~overlapped => KnowsAll(p, meta))
  BY IdleOrSound DEF _freeze_steps, Busy
<1>2. p.todo # <<>> /\ UNCHANGED <<installation, meta, labelsFile, publishes, publishFaults, madeBy, finished, overlapped>>
  BY DEF _freeze_steps
<1>3. CASE CannotFreeze(plan)
  BY <1>1, <1>2, <1>3, LocalKeeps DEF _freeze_steps, Raised
<1>4. CASE ~CannotFreeze(plan)
  <2>1. publishers' = [publishers EXCEPT ![k] = q]
    BY <1>4 DEF _freeze_steps, Goes
  <2>2. p.todo \in Seq(Planned) /\ plan \in Planned /\ Tail(p.todo) \in Seq(Planned)
    BY <1>1, <1>2 DEF Task
  <2>3. /\ seen \in Task /\ seen.at = "freeze" /\ seen.todo = p.todo /\ seen.all = p.all /\ seen.dry = p.dry
        /\ seen.list = p.list /\ seen.labels = p.labels \cup LabelsOf(plan) /\ seen.version = p.version
    <3>1. LabelsOf(plan) \subseteq AllLabels /\ FreezeSteps(plan) \in Frozen
      BY <2>2 DEF AllLabels, Frozen
    <3> HIDE DEF plan
    <3> QED BY <1>1, <3>1 DEF Task
  <2> HIDE DEF seen, p
  <2>4. q \in Task /\ q.at = (IF p.dry THEN "freeze" ELSE "template") /\ q.todo = (IF p.dry THEN Tail(p.todo) ELSE p.todo)
        /\ q.all = p.all /\ q.dry = p.dry /\ q.list = p.list /\ q.labels = p.labels \cup LabelsOf(plan) /\ q.version = p.version
    BY <2>2, <2>3 DEF Task, Busy, Writing
  <2> HIDE DEF q
  <2>5. SoundTask(q, meta)
    <3>1. CASE ~p.dry
      BY <3>1, <1>1, <1>2, <2>4 DEF SoundTask, Writing
    <3>2. CASE p.dry
      <4>1. \A j \in DOMAIN p.todo : p.todo[j] = plan \/ \E i \in DOMAIN Tail(p.todo) : Tail(p.todo)[i] = p.todo[j]
        BY <1>2, <2>2, TailHasTheRest DEF plan
      <4> HIDE DEF plan
      <4>2. \A i \in DOMAIN q.all :
              \/ \E j \in DOMAIN q.todo : q.todo[j] = q.all[i]
              \/ LabelsOf(q.all[i]) \subseteq q.labels /\ (q.dry \/ HasPlan(meta, q.version, q.all[i].name))
        BY <3>2, <4>1, <1>1, <2>4 DEF SoundTask
      <4> QED BY <3>2, <4>2, <1>1, <2>4 DEF SoundTask, Writing
    <3> QED BY <3>1, <3>2
  <2>6. ~overlapped => KnowsAll(q, meta)
    BY <1>1, <2>4 DEF KnowsAll
  <2> QED BY <1>1, <1>2, <2>1, <2>5, <2>6, LocalKeeps DEF p
<1> QED BY <1>3, <1>4

LEMMA TemplateKeeps == ASSUME PublishInv, NEW k \in Publisher, _find_plan_template(k) PROVE PublishInv'
<1> DEFINE p == publishers[k]
           found == FoundTemplate(Head(p.todo).name)
           least == CHOOSE t \in found : \A u \in found : t <= u
           q == IF found = {} THEN [p EXCEPT !.at = "create template"] ELSE [p EXCEPT !.at = "plan", !.template = least]
<1>1. /\ p # NotPublishing /\ p.at = "template" /\ p \in Task /\ SoundTask(p, meta) /\ (~overlapped => KnowsAll(p, meta))
  BY IdleOrSound DEF _find_plan_template, Busy, Writing
<1>2. Request(k, meta, q) BY DEF _find_plan_template
<1>3. found \in SUBSET Nat /\ found \subseteq DOMAIN meta.templates
      /\ (found = {} => \A t \in DOMAIN meta.templates : meta.templates[t].name # Head(p.todo).name)
  BY MetaTyped DEF FoundTemplate
<1>4. found # {} => least \in found
  <2> HIDE DEF found
  <2> QED BY <1>3, LeastIsChosen
<1>5. q \in Task /\ q.todo = p.todo /\ q.all = p.all /\ q.dry = p.dry /\ q.list = p.list /\ q.labels = p.labels
      /\ q.version = p.version
      /\ IF found = {} THEN q.at = "create template" ELSE q.at = "plan" /\ q.template = least
  <2> HIDE DEF found, least
  <2> QED BY <1>1, <1>3, <1>4 DEF Task, Busy, Writing
<1>6. SoundTask(q, meta)
  <2> HIDE DEF q, p, found, least
  <2> QED BY <1>1, <1>3, <1>4, <1>5 DEF SoundTask, Writing
<1>7. ~overlapped => KnowsAll(q, meta)
  <2> HIDE DEF q, p, found, least
  <2> QED BY <1>1, <1>3, <1>5 DEF KnowsAll
<1> QED BY <1>1, <1>2, <1>6, <1>7, MetaTyped, GrowsOfItself, RequestKeeps

LEMMA CreateTemplateKeeps == ASSUME PublishInv, NEW k \in Publisher, _create_plan_template(k) PROVE PublishInv'
<1> DEFINE p == publishers[k]
           new == [name |-> Head(p.todo).name, slug |-> FALSE]
           made == Append(meta.templates, new)
           effect == [meta EXCEPT !.templates = made]
           q == [p EXCEPT !.at = "slug", !.template = Len(meta.templates) + 1]
<1>1. /\ p # NotPublishing /\ p.at = "create template" /\ p \in Task /\ SoundTask(p, meta) /\ (~overlapped => KnowsAll(p, meta))
  BY IdleOrSound DEF _create_plan_template, Busy, Writing
<1>2. Request(k, effect, q) BY DEF _create_plan_template
<1>3. Head(p.todo) \in Planned /\ new \in [name : PlanNames, slug : BOOLEAN]
  <2>1. p.todo \in Seq(Planned) /\ p.todo # <<>>
    BY <1>1 DEF SoundTask, Task, Writing
  <2>2. Head(p.todo) \in Planned BY <2>1
  <2> QED BY <2>2 DEF PlanNames
<1>4. made \in Seq([name : PlanNames, slug : BOOLEAN]) /\ DOMAIN made = DOMAIN meta.templates \cup {Len(meta.templates) + 1}
      /\ made[Len(meta.templates) + 1] = new /\ \A t \in DOMAIN meta.templates : made[t] = meta.templates[t]
  <2> HIDE DEF new
  <2> QED BY <1>3, MetaTyped
<1>5. effect \in Meta /\ effect.templates = made /\ effect.plans = meta.plans /\ effect.versions = meta.versions
  <2> HIDE DEF made
  <2> QED BY <1>4, MetaTyped DEF Meta
<1> HIDE DEF made, effect
<1>6. MetaSound(effect) /\ Grows(meta, effect)
  BY <1>4, <1>5, MetaTyped DEF MetaSound, Grows
<1>7. q \in Task /\ q.at = "slug" /\ q.todo = p.todo /\ q.all = p.all /\ q.dry = p.dry /\ q.list = p.list /\ q.labels = p.labels
      /\ q.version = p.version /\ q.template \in DOMAIN effect.templates
  <2>1. Len(meta.templates) + 1 \in Nat BY MetaTyped
  <2> QED BY <1>1, <1>4, <1>5, <2>1 DEF Task, Busy, Writing
<1>8. SoundTask(q, effect)
  <2> HIDE DEF q, p
  <2> QED BY <1>1, <1>5, <1>7 DEF SoundTask, Writing, HasPlan
<1>9. ASSUME ~overlapped PROVE Once(effect) /\ KnowsAll(q, effect)
  <2>1. \A t \in DOMAIN meta.templates : meta.templates[t].name # new.name
    BY <1>1, <1>9 DEF KnowsAll
  <2> HIDE DEF q, p, new
  <2>2. Once(effect)
    BY <1>4, <1>5, <1>9, <2>1, MetaTyped DEF Once
  <2>3. KnowsAll(q, effect) BY <1>1, <1>7, <1>9 DEF KnowsAll
  <2> QED BY <2>2, <2>3
<1> QED BY <1>1, <1>2, <1>6, <1>8, <1>9, RequestKeeps

LEMMA SlugKeeps == ASSUME PublishInv, NEW k \in Publisher, _create_plan_slug(k) PROVE PublishInv'
<1> DEFINE p == publishers[k]
           made == [meta.templates EXCEPT ![p.template].slug = TRUE]
           effect == [meta EXCEPT !.templates = made]
           q == [p EXCEPT !.at = "plan"]
<1>1. /\ p # NotPublishing /\ p.at = "slug" /\ p \in Task /\ SoundTask(p, meta) /\ (~overlapped => KnowsAll(p, meta))
  BY IdleOrSound DEF _create_plan_slug, Busy, Writing
<1>2. Request(k, effect, q) BY DEF _create_plan_slug
<1>3. p.template \in DOMAIN meta.templates
  BY <1>1 DEF SoundTask
<1>4. made \in Seq([name : PlanNames, slug : BOOLEAN]) /\ DOMAIN made = DOMAIN meta.templates
      /\ \A t \in DOMAIN meta.templates : made[t].name = meta.templates[t].name
  <2>1. meta.templates[p.template] \in [name : PlanNames, slug : BOOLEAN]
    <3>1. meta.templates \in Seq([name : PlanNames, slug : BOOLEAN]) BY MetaTyped
    <3> QED BY <1>3, <3>1, ElementIsIn
  <2>2. [meta.templates[p.template] EXCEPT !.slug = TRUE] \in [name : PlanNames, slug : BOOLEAN]
        /\ [meta.templates[p.template] EXCEPT !.slug = TRUE].name = meta.templates[p.template].name
    BY <2>1
  <2>3. made = [meta.templates EXCEPT ![p.template] = [meta.templates[p.template] EXCEPT !.slug = TRUE]]
    OBVIOUS
  <2> QED BY <1>3, <2>2, <2>3, MetaTyped
<1>5. effect \in Meta /\ effect.templates = made /\ effect.plans = meta.plans /\ effect.versions = meta.versions
  <2> HIDE DEF made
  <2> QED BY <1>4, MetaTyped DEF Meta
<1> HIDE DEF made, effect
<1>6. MetaSound(effect) /\ Grows(meta, effect)
  BY <1>4, <1>5, MetaTyped DEF MetaSound, Grows
<1>7. q \in Task /\ q.at = "plan" /\ q.todo = p.todo /\ q.all = p.all /\ q.dry = p.dry /\ q.list = p.list /\ q.labels = p.labels
      /\ q.version = p.version /\ q.template = p.template
  BY <1>1 DEF Task, Busy, Writing
<1>8. SoundTask(q, effect)
  <2> HIDE DEF q, p
  <2> QED BY <1>1, <1>3, <1>4, <1>5, <1>7 DEF SoundTask, Writing, HasPlan
<1>9. ASSUME ~overlapped PROVE Once(effect) /\ KnowsAll(q, effect)
  <2>1. Once(meta) BY <1>9, MetaTyped
  <2> HIDE DEF q, p
  <2>2. Once(effect)
    BY <1>4, <1>5, <2>1 DEF Once
  <2>3. KnowsAll(q, effect) BY <1>1, <1>7, <1>9 DEF KnowsAll
  <2> QED BY <2>2, <2>3
<1> QED BY <1>1, <1>2, <1>6, <1>8, <1>9, RequestKeeps

LEMMA PlanKeeps == ASSUME PublishInv, NEW k \in Publisher, _publish_plan(k) PROVE PublishInv'
<1> DEFINE p == publishers[k]
           plan == Head(p.todo)
           new == [name |-> plan.name, version |-> p.version, template |-> p.template, steps |-> p.steps,
                   orgs |-> SupportedOrgs(plan)]
           made == Append(meta.plans, new)
           effect == [meta EXCEPT !.plans = made]
           q == [p EXCEPT !.at = "freeze", !.todo = Tail(@)]
<1>1. /\ p # NotPublishing /\ p.at = "plan" /\ p \in Task /\ SoundTask(p, meta) /\ (~overlapped => KnowsAll(p, meta))
  BY IdleOrSound DEF _publish_plan, Busy, Writing
<1>2. CASE SupportedOrgs(plan) = "unbound"
  BY <1>1, <1>2, LocalKeeps DEF _publish_plan, Raised
<1>3. CASE SupportedOrgs(plan) # "unbound"
  <2>1. Request(k, effect, q) BY <1>3 DEF _publish_plan
  <2>2. p.todo \in Seq(Planned) /\ p.todo # <<>> /\ plan \in Planned /\ Tail(p.todo) \in Seq(Planned)
    <3>1. p.todo \in Seq(Planned) /\ p.todo # <<>>
      BY <1>1 DEF SoundTask, Task, Writing
    <3> QED BY <3>1
  <2>3. p.version \in DOMAIN meta.versions /\ p.template \in DOMAIN meta.templates /\ LabelsOf(plan) \subseteq p.labels /\ ~p.dry
    BY <1>1 DEF SoundTask, Writing
  <2> DEFINE PlanRecord == [name : PlanNames, version : Nat, template : Nat, steps : Frozen,
                            orgs : {SupportedOrgs(f) : f \in Planned}]
  <2>4. new \in PlanRecord
    <3>1. plan.name \in PlanNames /\ SupportedOrgs(plan) \in {SupportedOrgs(f) : f \in Planned}
      BY <2>2 DEF PlanNames
    <3> HIDE DEF plan
    <3> QED BY <1>1, <3>1 DEF Task
  <2>5. made \in Seq(PlanRecord) /\ DOMAIN made = DOMAIN meta.plans \cup {Len(meta.plans) + 1}
        /\ made[Len(meta.plans) + 1] = new /\ \A i \in DOMAIN meta.plans : made[i] = meta.plans[i]
    <3>1. meta.plans \in Seq(PlanRecord) BY MetaTyped
    <3> HIDE DEF new, PlanRecord
    <3> QED BY <2>4, <3>1
  <2>6. effect \in Meta /\ effect.plans = made /\ effect.templates = meta.templates /\ effect.versions = meta.versions
    <3> HIDE DEF made
    <3> QED BY <2>5, MetaTyped DEF Meta
  <2>7. new.name = plan.name /\ new.version = p.version /\ new.template = p.template
    OBVIOUS
  <2>8. q \in Task /\ q.at = "freeze" /\ q.todo = Tail(p.todo) /\ q.all = p.all /\ q.dry = p.dry /\ q.list = p.list
        /\ q.labels = p.labels /\ q.version = p.version
    BY <1>1, <2>2 DEF Task, Busy
  <2> HIDE DEF made, effect, new, q, p, plan
  <2>9. \A j \in DOMAIN p.todo : p.todo[j] = plan \/ \E i \in DOMAIN Tail(p.todo) : Tail(p.todo)[i] = p.todo[j]
    BY <2>2, TailHasTheRest DEF plan
  <2>10. MetaSound(effect) /\ Grows(meta, effect)
    <3>1. \A i \in DOMAIN effect.plans : effect.plans[i].version \in DOMAIN effect.versions
                                         /\ effect.plans[i].template \in DOMAIN effect.templates
      BY <2>3, <2>5, <2>6, <2>7, MetaTyped DEF MetaSound
    <3> QED BY <3>1, <2>5, <2>6 DEF MetaSound, Grows
  <2>11. SoundTask(q, effect)
    <3>1. HasPlan(effect, p.version, plan.name)
      BY <2>5, <2>6, <2>7 DEF HasPlan
    <3>2. SoundTask(p, effect) BY <1>1, <2>10, GrowsKeeps
    <3>3. \A i \in DOMAIN q.all :
            \/ \E j \in DOMAIN q.todo : q.todo[j] = q.all[i]
            \/ LabelsOf(q.all[i]) \subseteq q.labels /\ (q.dry \/ HasPlan(effect, q.version, q.all[i].name))
      <4>1. ASSUME NEW i \in DOMAIN p.all, NEW j \in DOMAIN p.todo, p.todo[j] = p.all[i]
            PROVE  \/ \E n \in DOMAIN q.todo : q.todo[n] = p.all[i]
                   \/ LabelsOf(p.all[i]) \subseteq p.labels /\ HasPlan(effect, p.version, p.all[i].name)
        BY <4>1, <2>3, <2>8, <2>9, <3>1
      <4> QED BY <4>1, <3>2, <2>8 DEF SoundTask
    <3> QED BY <3>3, <2>3, <2>6, <2>8 DEF SoundTask, Writing
  <2>12. ~overlapped => Once(effect) /\ KnowsAll(q, effect)
    <3>1. ~overlapped => Once(meta) BY MetaTyped
    <3> QED BY <3>1, <1>1, <2>6, <2>8 DEF Once, KnowsAll
  <2>13. Request(k, effect, q) /\ p # NotPublishing BY <2>1, <1>1
  <2> QED BY <2>10, <2>11, <2>12, <2>13, RequestKeeps DEF p
<1> QED BY <1>2, <1>3

LEMMA UpdateVersionKeeps == ASSUME PublishInv, NEW k \in Publisher, _update_version(k) PROVE PublishInv'
<1> DEFINE p == publishers[k]
           made == [meta.versions EXCEPT ![p.version].listed = TRUE]
           effect == [meta EXCEPT !.versions = made]
           q == [p EXCEPT !.list = FALSE]
           told == [version |-> p.version, plans |-> p.all]
<1>1. /\ p # NotPublishing /\ p.at = "freeze" /\ p \in Task /\ SoundTask(p, meta) /\ (~overlapped => KnowsAll(p, meta))
  BY IdleOrSound DEF _update_version, Busy
<1>2. /\ p.list /\ p.todo = <<>> /\ Answered(k, effect, q)
      /\ madeBy' = IF meta' = effect THEN madeBy \o <<told>> ELSE madeBy
  BY DEF _update_version, MayList
<1>3. p.version \in DOMAIN meta.versions /\ ~p.dry
  BY <1>1, <1>2 DEF SoundTask
<1>4. made \in Seq([listed : BOOLEAN]) /\ DOMAIN made = DOMAIN meta.versions /\ Len(made) = Len(meta.versions)
  <2>1. [meta.versions[p.version] EXCEPT !.listed = TRUE] \in [listed : BOOLEAN]
    <3>1. meta.versions \in Seq([listed : BOOLEAN]) BY MetaTyped
    <3>2. meta.versions[p.version] \in [listed : BOOLEAN] BY <1>3, <3>1, ElementIsIn
    <3> QED BY <3>2
  <2>2. made = [meta.versions EXCEPT ![p.version] = [meta.versions[p.version] EXCEPT !.listed = TRUE]]
    OBVIOUS
  <2> QED BY <1>3, <2>1, <2>2, MetaTyped
<1>5. effect \in Meta /\ effect.versions = made /\ effect.plans = meta.plans /\ effect.templates = meta.templates
  <2> HIDE DEF made
  <2> QED BY <1>4, MetaTyped DEF Meta
<1> HIDE DEF made, effect
<1>6. MetaSound(effect) /\ Grows(meta, effect)
  BY <1>4, <1>5, MetaTyped DEF MetaSound, Grows
<1>7. q \in Task /\ q.at = p.at /\ q.todo = p.todo /\ q.all = p.all /\ q.dry = p.dry /\ ~q.list /\ q.labels = p.labels
      /\ q.version = p.version /\ q.template = p.template
  BY <1>1 DEF Task
<1>8. SoundTask(q, effect)
  <2>1. SoundTask(p, effect) BY <1>1, <1>6, GrowsKeeps
  <2> HIDE DEF q, p
  <2> QED BY <1>1, <1>7, <2>1 DEF SoundTask, Writing
<1>9. ~overlapped => Once(effect) /\ KnowsAll(q, effect)
  <2>1. ~overlapped => Once(meta) BY MetaTyped
  <2> HIDE DEF q, p
  <2> QED BY <1>1, <1>4, <1>5, <1>7, <2>1 DEF Once, KnowsAll
<1>10. MadeInv(madeBy', meta')
  <2>1. meta' \in {meta, effect} BY <1>2 DEF Answered
  <2>2. MadeInv(madeBy, meta') BY <2>1, <1>6, GrowsOfItself, GrowsKeeps DEF PublishInv
  <2>3. told \in [version : Nat, plans : Seq(Planned)] BY <1>1 DEF Task
  <2>4. \A j \in DOMAIN told.plans : HasPlan(meta', told.version, told.plans[j].name)
    <3>1. \A j \in DOMAIN p.all : HasPlan(meta, p.version, p.all[j].name)
      BY <1>1, <1>2, <1>3 DEF SoundTask
    <3>2. Grows(meta, meta') BY <2>1, <1>6, GrowsOfItself
    <3> QED BY <3>1, <3>2, GrowsKeeps
  <2> HIDE DEF told
  <2>5. CASE madeBy' = madeBy BY <2>2, <2>5
  <2>6. CASE madeBy' = madeBy \o <<told>>
    <3>1. madeBy \in Seq([version : Nat, plans : Seq(Planned)]) BY <2>2 DEF MadeInv
    <3>2. madeBy' \in Seq([version : Nat, plans : Seq(Planned)])
          /\ \A i \in DOMAIN madeBy' : madeBy'[i] = told \/ (i \in DOMAIN madeBy /\ madeBy'[i] = madeBy[i])
      BY <2>3, <2>6, <3>1
    <3> QED BY <2>2, <2>4, <3>2 DEF MadeInv
  <2> QED BY <2>5, <2>6, <1>2
<1> QED BY <1>1, <1>2, <1>6, <1>8, <1>9, <1>10, AnswerKeeps

LEMMA SaveKeeps == ASSUME PublishInv, NEW k \in Publisher, _save_labels(k) PROVE PublishInv'
<1> DEFINE p == publishers[k]
<1>1. /\ p # NotPublishing /\ p.at = "freeze" /\ p \in Task /\ SoundTask(p, meta) /\ (~overlapped => KnowsAll(p, meta))
      /\ (~overlapped => \A l \in Publisher \ {k} : publishers[l] = NotPublishing)
  BY IdleOrSound DEF _save_labels, Busy
<1>2. /\ p.todo = <<>> /\ labelsFile' = p.labels /\ publishers' = [publishers EXCEPT ![k] = NotPublishing]
      /\ finished' = finished \cup Range(p.all)
      /\ UNCHANGED <<installation, meta, publishes, publishFaults, madeBy, overlapped>>
  BY DEF _save_labels, Raised
<1>3. Planned' = Planned /\ PlanNames' = PlanNames /\ AllLabels' = AllLabels /\ Task' = Task /\ Meta' = Meta /\ Frozen' = Frozen
  BY <1>2 DEF Planned, PlanNames, AllLabels, Task, Meta, Frozen
<1>4. publishers'[k] = NotPublishing /\ \A l \in Publisher : l # k => publishers'[l] = publishers[l]
  BY <1>2 DEF PublishInv, TasksInv
<1>5. TasksInv'
  <2>1. publishers' \in [Publisher -> {NotPublishing} \cup Task]
    BY <1>2 DEF PublishInv, TasksInv
  <2>2. \A l \in Publisher : publishers'[l] = NotPublishing \/ SoundTask(publishers'[l], meta')
    BY <1>2, <1>4 DEF PublishInv, TasksInv
  <2> QED BY <1>3, <2>1, <2>2 DEF TasksInv, SoundTask, NotPublishing
<1>6. AloneInv'
  <2>1. SUFFICES ASSUME ~overlapped PROVE AloneInv' BY <1>2 DEF AloneInv
  <2>2. \A l \in Publisher : publishers'[l] = NotPublishing
    BY <2>1, <1>1, <1>4
  <2>3. Once(meta') BY <2>1, <1>2, MetaTyped
  <2>4. labelsFile \subseteq p.labels BY <2>1, <1>1 DEF KnowsAll
  <2>5. \A i \in DOMAIN p.all : LabelsOf(p.all[i]) \subseteq p.labels
    BY <1>1, <1>2 DEF SoundTask
  <2>6. \A plan \in finished' : LabelsOf(plan) \subseteq labelsFile'
    BY <2>1, <2>4, <2>5, <1>2 DEF PublishInv, AloneInv, Range
  <2> QED BY <2>2, <2>3, <2>6 DEF AloneInv, NotPublishing
<1>7. labelsFile' \subseteq AllLabels
  BY <1>1, <1>2 DEF Task
<1> QED BY <1>2, <1>3, <1>5, <1>6, <1>7 DEF PublishInv, MetaSound, MadeInv

LEMMA PublishInvNext == PublishInv /\ [InstallNext]_installVars => PublishInv'
<1> SUFFICES ASSUME PublishInv, [InstallNext]_installVars PROVE PublishInv' OBVIOUS
<1>1. CASE InstallNext
  BY <1>1, PublishKeeps, ProductKeeps, VersionKeeps, CreateVersionKeeps, LabelsKeep, FreezeKeeps, TemplateKeeps,
     CreateTemplateKeeps, SlugKeeps, PlanKeeps, UpdateVersionKeeps, SaveKeeps DEF InstallNext
<1>2. CASE UNCHANGED installVars
  <2>1. UNCHANGED <<installation, meta, labelsFile, publishers, publishes, publishFaults, madeBy, finished, overlapped>>
    BY <1>2 DEF installVars
  <2>2. Planned' = Planned /\ PlanNames' = PlanNames /\ AllLabels' = AllLabels /\ Task' = Task /\ Meta' = Meta /\ Frozen' = Frozen
    BY <2>1 DEF Planned, PlanNames, AllLabels, Task, Meta, Frozen
  <2>3. TasksInv'
    BY <2>1, <2>2 DEF PublishInv, TasksInv, SoundTask, NotPublishing
  <2>4. AloneInv' BY <2>1 DEF PublishInv, AloneInv, KnowsAll, NotPublishing
  <2> QED BY <2>1, <2>2, <2>3, <2>4 DEF PublishInv, MetaSound, MadeInv
<1> QED BY <1>1, <1>2

LEMMA PublishInvImplies ==
  PublishInv => PlanTypeOK /\ ListedIsComplete /\ MadeOnce /\ PublishedIsLabelled
<1> SUFFICES ASSUME PublishInv PROVE PlanTypeOK /\ ListedIsComplete /\ MadeOnce /\ PublishedIsLabelled OBVIOUS
<1>1. PlanTypeOK
  <2>1. \A i \in DOMAIN meta.plans : meta.plans[i].name \in PlanNames
    <3>1. meta.plans \in Seq([name : PlanNames, version : Nat, template : Nat, steps : Frozen,
                              orgs : {SupportedOrgs(plan) : plan \in Planned}])
      BY MetaTyped
    <3>2. ASSUME NEW i \in DOMAIN meta.plans
          PROVE  meta.plans[i] \in [name : PlanNames, version : Nat, template : Nat, steps : Frozen,
                                   orgs : {SupportedOrgs(plan) : plan \in Planned}]
      BY <3>1, ElementIsIn
    <3> QED BY <3>2
  <2>2. \A k \in Publisher : publishers[k].at \in
          {"idle", "product", "version", "create version", "labels", "freeze", "template",
           "create template", "slug", "plan", "list"}
    <3>1. ASSUME NEW k \in Publisher PROVE publishers[k].at = "idle" \/ publishers[k].at \in Busy
      <4>1. publishers[k] = NotPublishing \/ publishers[k] \in Task BY DEF PublishInv, TasksInv
      <4>2. NotPublishing.at = "idle" BY DEF NotPublishing
      <4> QED BY <4>1, <4>2 DEF Task
    <3> QED BY <3>1 DEF Busy, Writing
  <2> QED BY <2>1, <2>2 DEF PublishInv, MetaSound, PlanTypeOK
<1>2. ListedIsComplete
  <2>1. ASSUME NEW i \in DOMAIN madeBy, NEW j \in DOMAIN madeBy[i].plans
        PROVE  PlansOf(madeBy[i].version, madeBy[i].plans[j].name) # {}
    BY DEF PublishInv, MadeInv, HasPlan, PlansOf
  <2> QED BY <2>1 DEF ListedIsComplete, Range
<1>3. MadeOnce BY DEF PublishInv, AloneInv, Once, MadeOnce
<1>4. PublishedIsLabelled BY DEF PublishInv, AloneInv, PublishedIsLabelled
<1> QED BY <1>1, <1>2, <1>3, <1>4

\* Whatever the tasks that publish plans do between the requests of one another: a version
\* that is listed has all its plans; while tasks run one at a time, the version and each template
\* are made once and what is published is labelled: metadeploy.py.
THEOREM PublishingPlansIsSound ==
  InstallSpec => [](PlanTypeOK /\ ListedIsComplete /\ MadeOnce /\ PublishedIsLabelled)
BY PublishInvInit, PublishInvNext, PublishInvImplies, PTL DEF InstallSpec

-----------------------------------------------------------------------------
(* The checks of a plan or a flow. What a check sees is in the cache, under the *)
(* project and the options it asks with, and stays there.                       *)

KeyOf(check, j) == CacheKey(check, check.uses[j])
KeyRan(r) == <<r.project, r.task, r.options>>

\* The check whose turn it is.
AtACheck ==
  /\ preflight.check \in 1..(Len(checks) + 1)
  /\ preflight.check <= Len(checks) => preflight.use \in DOMAIN Check.uses
  /\ preflight.at = "task" => preflight.check <= Len(checks) /\ CacheKey(Check, Use) \notin DOMAIN preflight.cache

\* The cache holds what the tasks returned, each once.
CacheInv ==
  /\ \A i \in DOMAIN ran : KeyRan(ran[i]) \in DOMAIN preflight.cache
  /\ \A key \in DOMAIN preflight.cache :
       \E i \in DOMAIN ran : KeyRan(ran[i]) = key /\ ran[i].value = preflight.cache[key]
  /\ RunOncePerOptions

\* What a check found is what the cache says of all it uses.
SaysYes(check, j) == KeyOf(check, j) \in DOMAIN preflight.cache /\ preflight.cache[KeyOf(check, j)] = "yes"
SaysNo(check, j) == KeyOf(check, j) \in DOMAIN preflight.cache /\ preflight.cache[KeyOf(check, j)] # "yes"
FoundInv ==
  /\ \A i \in 1..Len(checks) : i < preflight.check =>
       \/ i \in preflight.results /\ \A j \in DOMAIN checks[i].uses : SaysYes(checks[i], j)
       \/ i \notin preflight.results /\ \E j \in DOMAIN checks[i].uses : SaysNo(checks[i], j)
  /\ preflight.check <= Len(checks) => \A j \in 1..(preflight.use - 1) : SaysYes(Check, j)

Callback == {"pre_flow", "pre_task", "post_task", "post_flow"}
ChecksTyped ==
  /\ checks \in Seq(Range(checks))
  /\ \A i \in DOMAIN checks : checks[i].uses \in Seq(Range(checks[i].uses)) \ {<<>>}
  /\ preflight \in [at : {"start", "org", "checks", "task", "over"}, check : Nat, use : Nat,
                    cache : {preflight.cache}, results : SUBSET Nat, calls : Seq(Callback)]
  /\ preflight.results \subseteq 1..(preflight.check - 1)
  /\ ran \in Seq(Range(ran))
  /\ used \in SUBSET [check : Nat, use : Nat, value : {u.value : u \in used}]

PreflightInv ==
  /\ ChecksTyped
  /\ AtACheck
  /\ CacheInv
  /\ FoundInv
  /\ ChecksSeeTheirProject

LEMMA PreflightInvInit == PreflightInit => PreflightInv
<1> SUFFICES ASSUME PreflightInit PROVE PreflightInv OBVIOUS
<1>1. checks \in CheckWorlds /\ preflight = NotChecking /\ ran = <<>> /\ used = {}
  BY DEF PreflightInit
<1>2. checks \in Seq(Range(checks)) /\ \A i \in DOMAIN checks : checks[i].uses \in Seq(Range(checks[i].uses)) \ {<<>>}
  BY <1>1, InstallAssumption
<1>3. ChecksTyped
  <2>1. ran \in Seq(Range(ran)) BY <1>1
  <2>2. used \in SUBSET [check : Nat, use : Nat, value : {u.value : u \in used}] BY <1>1
  <2> QED BY <1>1, <1>2, <2>1, <2>2 DEF ChecksTyped, NotChecking
<1>4. AtACheck
  <2>1. 1 <= Len(checks) => checks[1].uses # <<>> /\ checks[1].uses \in Seq(Range(checks[1].uses))
    BY <1>2
  <2>2. 1 <= Len(checks) => 1 \in DOMAIN checks[1].uses
    BY <2>1
  <2> QED BY <1>1, <1>2, <2>2 DEF AtACheck, NotChecking, Check
<1>5. CacheInv BY <1>1 DEF CacheInv, NotChecking, RunOncePerOptions
<1>6. FoundInv BY <1>1, <1>2 DEF FoundInv, NotChecking
<1> QED BY <1>1, <1>3, <1>4, <1>5, <1>6 DEF PreflightInv, ChecksSeeTheirProject

\* What moves neither the check nor the cache.
Moved(p, now, asked) == p = [preflight EXCEPT !.at = now, !.calls = asked]

LEMMA CallsKeep ==
  ASSUME PreflightInv, NEW p, NEW now \in {"org", "checks", "task", "over"}, NEW asked \in Seq(Callback),
         now = "task" => preflight.check <= Len(checks) /\ CacheKey(Check, Use) \notin DOMAIN preflight.cache,
         Checks(p), Moved(p, now, asked)
  PROVE  PreflightInv'
<1> USE DEF PreflightInv
<1>1. /\ preflight'.check = preflight.check /\ preflight'.use = preflight.use
      /\ preflight'.cache = preflight.cache /\ preflight'.results = preflight.results
      /\ preflight'.at = now /\ preflight'.calls = asked
      /\ UNCHANGED <<checks, ran, used>>
  BY DEF Checks, Moved, ChecksTyped
<1>2. ChecksTyped' BY <1>1 DEF ChecksTyped, Checks, Moved
<1>3. AtACheck' BY <1>1 DEF AtACheck, Check, Use, CacheKey
<1>4. CacheInv' BY <1>1 DEF CacheInv, KeyRan, RunOncePerOptions
<1>5. FoundInv' BY <1>1 DEF FoundInv, SaysYes, SaysNo, Check, KeyOf, CacheKey
<1>6. ChecksSeeTheirProject' BY <1>1 DEF ChecksSeeTheirProject
<1> QED BY <1>2, <1>3, <1>4, <1>5, <1>6

\* A value that is in the cache decides whether the expression goes on.
LEMMA ValueKeeps ==
  ASSUME PreflightInv, NEW p, NEW value,
         preflight.check <= Len(checks), p.check = preflight.check, p.use = preflight.use,
         p.results = preflight.results,
         p \in [at : {"start", "org", "checks", "task", "over"}, check : Nat, use : Nat,
                cache : {p.cache}, results : SUBSET Nat, calls : Seq(Callback)],
         preflight' = Evaluated(p, value), UNCHANGED checks,
         CacheKey(Check, Use) \in DOMAIN p.cache, p.cache[CacheKey(Check, Use)] = value,
         \A key \in DOMAIN preflight.cache : key \in DOMAIN p.cache /\ p.cache[key] = preflight.cache[key],
         ran' \in Seq(Range(ran')), CacheInv', Using(value),
         \A i \in DOMAIN ran : i \in DOMAIN ran' /\ ran'[i] = ran[i]
  PROVE  PreflightInv'
<1> USE DEF PreflightInv
<1>a. PICK c, j : c = preflight.check /\ j = preflight.use
  OBVIOUS
<1> DEFINE more == value = "yes" /\ j < Len(Check.uses)
           good == value = "yes" /\ j = Len(Check.uses)
<1>0. /\ c \in DOMAIN checks /\ c \in Nat /\ j \in DOMAIN Check.uses /\ j \in 1..Len(Check.uses)
      /\ Check.uses \in Seq(Range(Check.uses)) /\ Check = checks[c] /\ Len(Check.uses) \in Nat /\ Len(checks) \in Nat
      /\ DOMAIN Check.uses = 1..Len(Check.uses) /\ DOMAIN checks = 1..Len(checks)
  BY <1>a DEF AtACheck, Check, ChecksTyped
<1>1. /\ preflight'.at = "checks" /\ preflight'.cache = p.cache /\ preflight'.calls = p.calls
      /\ preflight'.use = IF more THEN j + 1 ELSE 1
      /\ preflight'.check = IF more THEN c ELSE c + 1
      /\ preflight'.results = IF good THEN preflight.results \cup {c} ELSE preflight.results
  <2>1. preflight' = [p EXCEPT !.at = "checks", !.use = IF more THEN j + 1 ELSE 1, !.check = IF more THEN c ELSE c + 1,
                               !.results = IF good THEN p.results \cup {c} ELSE p.results]
    BY <1>a DEF Evaluated
  <2> QED BY <2>1
<1>2. ChecksTyped'
  <2>1. preflight' \in [at : {"start", "org", "checks", "task", "over"}, check : Nat, use : Nat,
                        cache : {p.cache}, results : SUBSET Nat, calls : Seq(Callback)]
    <3>1. preflight' = [p EXCEPT !.at = "checks", !.use = IF more THEN j + 1 ELSE 1, !.check = IF more THEN c ELSE c + 1,
                                 !.results = IF good THEN p.results \cup {c} ELSE p.results]
      BY <1>a DEF Evaluated
    <3>2. j + 1 \in Nat /\ c + 1 \in Nat /\ p.results \cup {c} \subseteq Nat BY <1>0
    <3>3. /\ (IF more THEN j + 1 ELSE 1) \in Nat /\ (IF more THEN c ELSE c + 1) \in Nat
          /\ (IF good THEN p.results \cup {c} ELSE p.results) \in SUBSET Nat
      <4> HIDE DEF more, good
      <4> QED BY <3>2, <1>0
    <3> HIDE DEF more, good
    <3> QED BY <3>1, <3>3
  <2>2. preflight'.results \subseteq 1..(preflight'.check - 1)
    BY <1>a, <1>0, <1>1 DEF ChecksTyped
  <2>3. (used \in SUBSET [check : Nat, use : Nat, value : {u.value : u \in used}])'
    <3>1. used' = used \cup {[check |-> c, use |-> j, value |-> value]}
      BY <1>a DEF Using
    <3>2. j \in Nat BY <1>0
    <3> QED BY <3>1, <3>2, <1>0 DEF ChecksTyped
  <2> QED BY <1>1, <2>1, <2>2, <2>3 DEF ChecksTyped
<1>3. AtACheck'
  <2>1. CASE more BY <2>1, <1>0, <1>1 DEF AtACheck, Check
  <2>2. CASE ~more
    <3>1. ASSUME c + 1 <= Len(checks) PROVE 1 \in DOMAIN checks[c + 1].uses
      <4>1. checks[c + 1].uses \in Seq(Range(checks[c + 1].uses)) \ {<<>>}
        BY <3>1, <1>0 DEF ChecksTyped
      <4> QED BY <4>1
    <3> QED BY <2>2, <3>1, <1>0, <1>1 DEF AtACheck, Check
  <2> QED BY <2>1, <2>2
<1>4. \A check, n : /\ SaysYes(check, n) => SaysYes(check, n)'
                    /\ SaysNo(check, n) => SaysNo(check, n)'
  BY <1>1 DEF SaysYes, SaysNo, KeyOf, CacheKey
<1>5. /\ value = "yes" => SaysYes(checks[c], j)'
      /\ value # "yes" => SaysNo(checks[c], j)'
  BY <1>a, <1>0, <1>1 DEF SaysYes, SaysNo, KeyOf, CacheKey, Use
<1>6. FoundInv'
  <2>1. CASE more
    <3>1. \A n \in 1..(preflight'.use - 1) : n = j \/ n \in 1..(j - 1)
      BY <2>1, <1>0, <1>1
    <3>2. \A n \in 1..(preflight'.use - 1) : SaysYes(checks[c], n)'
      BY <2>1, <3>1, <1>a, <1>0, <1>4, <1>5 DEF FoundInv
    <3>3. Check' = checks[c]
      BY <2>1, <1>1 DEF Check
    <3> QED BY <2>1, <3>2, <3>3, <1>a, <1>0, <1>1, <1>4 DEF FoundInv
  <2>2. CASE ~more
    <3>1. ASSUME good PROVE \A n \in DOMAIN checks[c].uses : SaysYes(checks[c], n)'
      <4>1. \A n \in DOMAIN checks[c].uses : n = j \/ n \in 1..(j - 1)
        BY <3>1, <1>0
      <4> QED BY <3>1, <4>1, <1>a, <1>0, <1>4, <1>5 DEF FoundInv
    <3>2. ASSUME ~good PROVE SaysNo(checks[c], j)' /\ c \notin preflight.results
      <4>1. value # "yes" BY <2>2, <3>2, <1>0
      <4> QED BY <4>1, <1>a, <1>0, <1>5 DEF ChecksTyped
    <3>3. \A i \in 1..Len(checks) : i < c =>
            \/ i \in preflight.results /\ \A n \in DOMAIN checks[i].uses : SaysYes(checks[i], n)'
            \/ i \notin preflight.results /\ \E n \in DOMAIN checks[i].uses : SaysNo(checks[i], n)'
      BY <1>a, <1>4 DEF FoundInv
    <3>4. preflight'.check = c + 1 /\ preflight'.use = 1
      BY <2>2, <1>1
    <3>5. ASSUME NEW i \in 1..Len(checks), i < c + 1
          PROVE  \/ i \in preflight'.results /\ \A n \in DOMAIN checks[i].uses : SaysYes(checks[i], n)'
                 \/ i \notin preflight'.results /\ \E n \in DOMAIN checks[i].uses : SaysNo(checks[i], n)'
      <4>1. CASE i < c BY <4>1, <3>3, <1>0, <1>1
      <4>2. CASE i = c BY <4>2, <3>1, <3>2, <1>0, <1>1
      <4> QED BY <3>5, <4>1, <4>2, <1>0
    <3> QED BY <3>4, <3>5 DEF FoundInv
  <2> QED BY <2>1, <2>2
<1>7. ChecksSeeTheirProject'
  <2>1. PICK i \in DOMAIN ran' : KeyRan(ran'[i]) = CacheKey(Check, Use) /\ ran'[i].value = value
    BY <1>1 DEF CacheInv, KeyRan
  <2>2. ran'[i].project = checks[c].project /\ ran'[i].task = checks[c].uses[j].task
          /\ ran'[i].options = checks[c].uses[j].options
    BY <2>1, <1>a DEF KeyRan, CacheKey, Check, Use
  <2>3. used' = used \cup {[check |-> c, use |-> j, value |-> value]}
    BY <1>a DEF Using
  <2>4. ASSUME NEW u \in used
        PROVE  \E n \in DOMAIN ran' : /\ ran'[n].project = checks[u.check].project /\ ran'[n].value = u.value
                                     /\ ran'[n].task = checks[u.check].uses[u.use].task
                                     /\ ran'[n].options = checks[u.check].uses[u.use].options
    BY <2>4 DEF ChecksSeeTheirProject
  <2> QED BY <2>1, <2>2, <2>3, <2>4 DEF ChecksSeeTheirProject
<1> QED BY <1>2, <1>3, <1>6, <1>7

LEMMA UsesTyped ==
  PreflightInv => preflight.calls \in Seq(Callback) /\ \A call \in Callback : Append(preflight.calls, call) \in Seq(Callback)
<1> SUFFICES ASSUME PreflightInv PROVE preflight.calls \in Seq(Callback)
  OBVIOUS
<1> QED BY DEF PreflightInv, ChecksTyped

LEMMA CachedTaskRunnerKeeps == PreflightInv /\ CachedTaskRunner => PreflightInv'
<1> SUFFICES ASSUME PreflightInv, CachedTaskRunner PROVE PreflightInv' OBVIOUS
<1> DEFINE key == CacheKey(Check, Use)
<1>1. preflight.at = "checks" /\ preflight.check <= Len(checks)
  BY DEF CachedTaskRunner
<1>2. CASE key \notin DOMAIN preflight.cache
  <2>1. PICK p : Checks(p) /\ p = Tells([preflight EXCEPT !.at = "task"], "pre_task")
    BY <1>2 DEF CachedTaskRunner
  <2>2. Moved(p, "task", Append(preflight.calls, "pre_task"))
    BY <2>1 DEF Moved, Tells, PreflightInv, ChecksTyped
  <2>3. Append(preflight.calls, "pre_task") \in Seq(Callback)
    BY UsesTyped DEF Callback
  <2> QED BY <2>1, <2>2, <2>3, <1>1, <1>2, CallsKeep
<1>3. CASE key \in DOMAIN preflight.cache
  <2> DEFINE value == preflight.cache[key]
  <2>1. preflight' = Evaluated(preflight, value) /\ Using(value) /\ UNCHANGED <<checks, ran>>
    BY <1>3 DEF CachedTaskRunner
  <2>2. preflight'.cache = preflight.cache
    BY <2>1 DEF Evaluated, PreflightInv, ChecksTyped
  <2>3. CacheInv'
    BY <2>1, <2>2 DEF PreflightInv, CacheInv, KeyRan, RunOncePerOptions
  <2>4. ran' \in Seq(Range(ran')) BY <2>1 DEF PreflightInv, ChecksTyped
  <2>5. preflight \in [at : {"start", "org", "checks", "task", "over"}, check : Nat, use : Nat,
                       cache : {preflight.cache}, results : SUBSET Nat, calls : Seq(Callback)]
    BY DEF PreflightInv, ChecksTyped
  <2> HIDE DEF value
  <2>6. value = preflight.cache[key] BY DEF value
  <2> QED BY <1>1, <1>3, <2>1, <2>3, <2>4, <2>5, <2>6, ValueKeeps
<1> QED BY <1>2, <1>3

LEMMA RunCheckTaskKeeps ==
  ASSUME PreflightInv, NEW value, RunCheckTask(value)
  PROVE  PreflightInv'
<1> DEFINE key == CacheKey(Check, Use)
           cached == Cached(preflight.cache, key, value)
           p == Tells([preflight EXCEPT !.cache = cached], "post_task")
           run == [project |-> Check.project, task |-> Use.task, options |-> Use.options, value |-> value]
<1>1. /\ preflight.at = "task" /\ preflight' = Evaluated(p, value) /\ ran' = Append(ran, run)
      /\ Using(value) /\ UNCHANGED checks
  BY DEF RunCheckTask
<1>2. preflight.check <= Len(checks) /\ key \notin DOMAIN preflight.cache
  BY <1>1 DEF PreflightInv, AtACheck
<1>3. /\ DOMAIN cached = DOMAIN preflight.cache \cup {key} /\ cached[key] = value
      /\ \A x \in DOMAIN preflight.cache : cached[x] = preflight.cache[x]
  BY <1>2 DEF Cached, Cached_
<1>4. /\ p = [preflight EXCEPT !.cache = cached, !.calls = Append(preflight.calls, "post_task")]
  BY DEF Tells, PreflightInv, ChecksTyped
<1>5. /\ p.check = preflight.check /\ p.use = preflight.use /\ p.results = preflight.results /\ p.cache = cached
      /\ p \in [at : {"start", "org", "checks", "task", "over"}, check : Nat, use : Nat,
                cache : {p.cache}, results : SUBSET Nat, calls : Seq(Callback)]
  <2>1. Append(preflight.calls, "post_task") \in Seq(Callback)
    BY UsesTyped DEF Callback
  <2> HIDE DEF cached, p
  <2> QED BY <1>4, <2>1 DEF PreflightInv, ChecksTyped
<1>6. preflight'.cache = cached
  <2> HIDE DEF cached, p
  <2> QED BY <1>1, <1>5 DEF Evaluated
<1>7. /\ ran' \in Seq(Range(ran')) /\ DOMAIN ran' = DOMAIN ran \cup {Len(ran) + 1} /\ ran'[Len(ran) + 1] = run
      /\ Len(ran) + 1 \notin DOMAIN ran
      /\ \A i \in DOMAIN ran : ran'[i] = ran[i]
  <2>1. ran \in Seq(Range(ran) \cup {run})
    BY DEF PreflightInv, ChecksTyped
  <2>2. ran' \in Seq(Range(ran) \cup {run}) /\ DOMAIN ran' = 1..(Len(ran) + 1)
    BY <1>1, <2>1
  <2>3. ran' \in Seq(Range(ran'))
    BY <2>2 DEF Range
  <2> QED BY <1>1, <2>1, <2>3
<1>8. KeyRan(run) = key
  BY DEF KeyRan, CacheKey
<1>9. CacheInv'
  <2> HIDE DEF cached, p, key, run
  <2>1. run.value = value BY DEF run
  <2>2. \A i \in DOMAIN ran' : KeyRan(ran'[i]) \in DOMAIN cached
    BY <1>3, <1>7, <1>8 DEF PreflightInv, CacheInv
  <2>3. ASSUME NEW x \in DOMAIN cached
        PROVE  \E i \in DOMAIN ran' : KeyRan(ran'[i]) = x /\ ran'[i].value = cached[x]
    <3>1. CASE x = key BY <3>1, <2>1, <1>3, <1>7, <1>8
    <3>2. CASE x # key BY <3>2, <1>3, <1>7 DEF PreflightInv, CacheInv
    <3> QED BY <3>1, <3>2
  <2>4. \A i \in DOMAIN ran : KeyRan(ran[i]) # key
    BY <1>2 DEF PreflightInv, CacheInv
  <2>5. RunOncePerOptions'
    <3>1. \A i, j \in DOMAIN ran' : KeyRan(ran'[i]) = KeyRan(ran'[j]) => i = j
      <4>1. \A i, j \in DOMAIN ran : KeyRan(ran[i]) = KeyRan(ran[j]) => i = j
        BY DEF PreflightInv, CacheInv, RunOncePerOptions, KeyRan
      <4> QED BY <4>1, <2>4, <1>7, <1>8
    <3> QED BY <3>1 DEF RunOncePerOptions, KeyRan
  <2> QED BY <2>2, <2>3, <2>5, <1>6 DEF CacheInv, KeyRan
<1>10. /\ CacheKey(Check, Use) \in DOMAIN p.cache /\ p.cache[CacheKey(Check, Use)] = value
       /\ \A x \in DOMAIN preflight.cache : x \in DOMAIN p.cache /\ p.cache[x] = preflight.cache[x]
  <2> HIDE DEF cached, p
  <2> QED BY <1>3, <1>5
<1> HIDE DEF cached, p, run, key
<1> QED BY ONLY PreflightInv, <1>1, <1>2, <1>5, <1>7, <1>9, <1>10, ValueKeeps

LEMMA PreflightInvNext == PreflightInv /\ [PreflightNext]_preflightVars => PreflightInv'
<1> SUFFICES ASSUME PreflightInv, [PreflightNext]_preflightVars PROVE PreflightInv' OBVIOUS
<1>1. preflight.calls \in Seq(Callback) /\ \A call \in Callback : Append(preflight.calls, call) \in Seq(Callback)
  BY UsesTyped
<1>2. CASE BeginChecks
  <2>1. PICK p : Checks(p) /\ p = Tells([preflight EXCEPT !.at = "org"], "pre_flow")
    BY <1>2 DEF BeginChecks
  <2>2. Moved(p, "org", Append(preflight.calls, "pre_flow"))
    BY <2>1 DEF Moved, Tells, PreflightInv, ChecksTyped
  <2> QED BY <2>1, <2>2, <1>1, CallsKeep DEF Callback
<1>3. ASSUME NEW works \in BOOLEAN, RefreshForChecks(works) PROVE PreflightInv'
  <2>1. PICK now \in {"checks", "over"} : now = IF works THEN "checks" ELSE "over"
    OBVIOUS
  <2>2. PICK p : Checks(p) /\ p = [preflight EXCEPT !.at = now]
    BY <1>3, <2>1 DEF RefreshForChecks
  <2>3. Moved(p, now, preflight.calls)
    BY <2>2 DEF Moved, PreflightInv, ChecksTyped
  <2> QED BY <2>2, <2>3, <1>1, CallsKeep
<1>4. CASE TaskCannotBeMade \/ EndChecks
  <2>1. PICK p : Checks(p) /\ p = Tells([preflight EXCEPT !.at = "over"], "post_flow")
    BY <1>4 DEF TaskCannotBeMade, EndChecks
  <2>2. Moved(p, "over", Append(preflight.calls, "post_flow"))
    BY <2>1 DEF Moved, Tells, PreflightInv, ChecksTyped
  <2> QED BY <2>1, <2>2, <1>1, CallsKeep DEF Callback
<1>5. CASE UNCHANGED preflightVars
  <2>1. UNCHANGED <<checks, preflight, ran, used>> BY <1>5 DEF preflightVars
  <2> QED BY <2>1 DEF PreflightInv, ChecksTyped, AtACheck, CacheInv, FoundInv, ChecksSeeTheirProject,
                      Check, Use, KeyOf, KeyRan, SaysYes, SaysNo, CacheKey, RunOncePerOptions
<1> QED BY <1>2, <1>3, <1>4, <1>5, CachedTaskRunnerKeeps, RunCheckTaskKeeps DEF PreflightNext, PreflightStep

LEMMA PreflightInvImplies ==
  PreflightInv => PreflightTypeOK /\ RunOncePerOptions /\ ChecksSeeTheirProject /\ EqualChecksAgree
<1> SUFFICES ASSUME PreflightInv
             PROVE  PreflightTypeOK /\ RunOncePerOptions /\ ChecksSeeTheirProject /\ EqualChecksAgree
  OBVIOUS
<1>1. PreflightTypeOK
  <2>1. DOMAIN checks = 1..Len(checks) /\ Len(checks) \in Nat /\ preflight.check \in 1..(Len(checks) + 1)
    BY DEF PreflightInv, ChecksTyped, AtACheck
  <2> QED BY <2>1 DEF PreflightInv, ChecksTyped, PreflightTypeOK
<1>2. EqualChecksAgree
  <2>1. SUFFICES ASSUME preflight.check > Len(checks), NEW i \in DOMAIN checks, NEW j \in DOMAIN checks,
                        checks[i].project = checks[j].project, checks[i].uses = checks[j].uses
                 PROVE  i \in preflight.results => j \in preflight.results
    BY DEF EqualChecksAgree
  <2>2. DOMAIN checks = 1..Len(checks) /\ i < preflight.check /\ j < preflight.check
    BY <2>1 DEF PreflightInv, ChecksTyped
  <2>3. \A n : KeyOf(checks[i], n) = KeyOf(checks[j], n)
    BY <2>1 DEF KeyOf, CacheKey
  <2> QED BY <2>1, <2>2, <2>3 DEF PreflightInv, FoundInv, SaysYes, SaysNo
<1> QED BY <1>1, <1>2 DEF PreflightInv, CacheInv

\* A task that checks use runs once per project and options, in the project that asks, and
\* equal checks find the same: CachedTaskRunner and the preflight checks of flowrunner.py.
THEOREM ChecksAreSound ==
  PreflightSpec => [](PreflightTypeOK /\ RunOncePerOptions /\ ChecksSeeTheirProject /\ EqualChecksAgree)
BY PreflightInvInit, PreflightInvNext, PreflightInvImplies, PTL DEF PreflightSpec

\* What tasks publish, and what checks find, is what the plans say, for every plan and check,
\* any number of tasks at once and any faults of the server: metadeploy.py, flowrunner.py.
THEOREM PlansAreSoundHolds == InstallSpec /\ PreflightSpec => []PlansAreSound
BY PublishingPlansIsSound, ChecksAreSound, PTL DEF PlansAreSound
=============================================================================
