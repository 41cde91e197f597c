----------------------------- MODULE FlowRunner -----------------------------
(***************************************************************************)
(* The run of a flow (cumulusci/core/flowrunner.py, FlowCoordinator.run).  *)
(*                                                                         *)
(* A coordinator has a flat list of steps, computed beforehand: tasks, and *)
(* for every sub-flow with a `when' an entry that only carries the         *)
(* condition.  One thread evaluates the conditions of the sub-flows, then  *)
(* goes through the tasks; each task may read, by name, what earlier tasks *)
(* returned, and may change what later conditions say.  The callbacks, the *)
(* conditions, the look-up of options, the constructor of a task and the   *)
(* task itself may all raise, each with a different effect on the rest.    *)
(*                                                                         *)
(* A name is a sequence of tokens, so that one name may end or begin with  *)
(* another; "." is a token of its own.                                     *)
(***************************************************************************)
EXTENDS Integers, Sequences, SequencesExt

CONSTANTS
  Steps,       \* the list of StepSpecs, in the order of their numbers
  Condition,   \* the expressions in `when' clauses
  NoWhen,      \* the `when' of a step without one
  Volatile     \* the conditions that look at what a task may change

StepSpec ==
  [step_num : Seq(Int),          \* the parsed version, "/" being -1
   flow     : BOOLEAN,           \* a FlowStepSpec
   path     : Seq(STRING),
   skip     : BOOLEAN,
   when     : Condition \cup {NoWhen},
   allow_failure : BOOLEAN,
   refs     : SUBSET Seq(STRING)]   \* the paths of its ^^path.attr options

ASSUME StepsAssumption ==
  /\ Steps \in Seq(StepSpec)
  /\ NoWhen \notin Condition
  /\ Volatile \subseteq Condition

N == Len(Steps)

Index == 1..N

VARIABLES
  pc,            \* where run() is
  at,            \* the step the main loop is at
  holds,         \* what each condition would evaluate to
  skippedFlows,  \* skipped_flows_set: the paths of the sub-flows not to run
  verdict,       \* what became of each step
  options,       \* the results the options of each step were taken from
  results,       \* the steps in `results', in the order of the list
  raised,        \* where the exception that ends the run came from
  calls          \* the calls of the callbacks so far

vars == <<pc, at, holds, skippedFlows, verdict, options, results, raised, calls>>

Verdict ==
  {"pending",
   "unmet",       \* its own `when' was false
   "held",        \* a sub-flow whose `when' was true
   "inSkipped",   \* a task of a sub-flow that is not run
   "skip",
   "begun",       \* pre_task was called
   "running",
   "succeeded", "failed"}

Control == {"init_org", "pre_flow", "conditions", "steps", "run_step", "task",
            "post_task", "post_flow", "ended"}

Call == {"pre_flow", "pre_task", "post_task", "post_flow"}

TypeOK ==
  /\ pc \in Control
  /\ at \in 1..(N + 1)
  /\ holds \in [Condition -> {"true", "false", "raises"}]
  /\ skippedFlows \subseteq {Steps[k].path : k \in Index}
  /\ verdict \in [Index -> Verdict]
  /\ options \in [Index -> SUBSET (Seq(STRING) \X Index)]
  /\ results \in Seq(Index)
  /\ raised \in {"no", "org", "callback", "when", "options", "constructor", "task"}
  /\ calls \in Seq(Call \X (0..N))

Init ==
  /\ pc = "init_org"
  /\ at = 1
  /\ holds \in [Condition -> {"true", "false", "raises"}]
  /\ skippedFlows = {}
  /\ verdict = [k \in Index |-> "pending"]
  /\ options = [k \in Index |-> {}]
  /\ results = <<>>
  /\ raised = "no"
  /\ calls = <<>>

-----------------------------------------------------------------------------
(* _evaluate_flow_step, _is_task_in_skipped_flow, _find_result_by_path.    *)

Value(k) == IF Steps[k].when = NoWhen THEN "true" ELSE holds[Steps[k].when]

\* Mutant: startswith(skipped_path), without the dot.
_is_task_in_skipped_flowNoDot(k) ==
  \E path \in skippedFlows : IsPrefix(path, Steps[k].path)

_is_task_in_skipped_flow(k) ==
  \E path \in skippedFlows : IsPrefix(path \o <<".">>, Steps[k].path)

\* The results a reference matches: the path of the result ends with it.
Matches(ref) == {n \in DOMAIN results : IsSuffix(ref, Steps[results[n]].path)}

\* Mutant: the last match is taken.
_find_result_by_pathLast(ref) ==
  results[CHOOSE n \in Matches(ref) : \A m \in Matches(ref) : n >= m]

\* The first match is taken.
_find_result_by_path(ref) ==
  results[CHOOSE n \in Matches(ref) : \A m \in Matches(ref) : n <= m]

\* An exception leaves the try block of run(): only post_flow is left to do.
Raise(what) == pc' = "post_flow" /\ raised' = what

Calls(call, k) == calls' = Append(calls, <<call, k>>)

-----------------------------------------------------------------------------
(* run(): before the try block.                                            *)

\* With an org, its token is refreshed; without one nothing can fail.
_init_org ==
  /\ pc = "init_org"
  /\ \/ pc' = "pre_flow" /\ UNCHANGED raised
     \/ pc' = "ended" /\ raised' = "org"
  /\ UNCHANGED <<at, holds, skippedFlows, verdict, options, results, calls>>

PreFlow ==
  /\ pc = "pre_flow"
  /\ Calls("pre_flow", 0)
  /\ \/ pc' = "conditions" /\ UNCHANGED raised
     \/ pc' = "ended" /\ raised' = "callback"
  /\ UNCHANGED <<at, holds, skippedFlows, verdict, options, results>>

-----------------------------------------------------------------------------
(* run(): the try block.                                                   *)

FlowStep == {k \in Index : Steps[k].flow}

\* All sub-flow conditions are evaluated before the first task runs.
EvaluateFlows ==
  /\ pc = "conditions"
  /\ IF \E k \in FlowStep : Value(k) = "raises"
     THEN Raise("when") /\ UNCHANGED <<skippedFlows, verdict>>
     ELSE /\ pc' = "steps"
          /\ skippedFlows' =
               {Steps[k].path : k \in {f \in FlowStep : Value(f) = "false"}}
          /\ verdict' = [k \in Index |->
               IF k \notin FlowStep THEN verdict[k]
               ELSE IF Value(k) = "true" THEN "held" ELSE "unmet"]
          /\ UNCHANGED raised
  /\ UNCHANGED <<at, holds, options, results, calls>>

AtTask == pc = "steps" /\ at \in Index \ FlowStep

\* The step at hand does not run, and the loop goes on.
Pass(why) ==
  /\ verdict' = [verdict EXCEPT ![at] = why]
  /\ at' = at + 1
  /\ UNCHANGED <<pc, holds, skippedFlows, options, results, raised, calls>>

PassFlowStep ==
  /\ pc = "steps" /\ at \in FlowStep
  /\ at' = at + 1
  /\ UNCHANGED <<pc, holds, skippedFlows, verdict, options, results, raised, calls>>

PassInSkippedFlow ==
  AtTask /\ _is_task_in_skipped_flow(at) /\ Pass("inSkipped")

PassSkipped ==
  /\ AtTask /\ ~_is_task_in_skipped_flow(at)
  /\ Steps[at].skip
  /\ Pass("skip")

ToEvaluate == AtTask /\ ~_is_task_in_skipped_flow(at) /\ ~Steps[at].skip

\* A task's own `when' is evaluated when its turn comes.
PassUnmet == ToEvaluate /\ Value(at) = "false" /\ Pass("unmet")

WhenRaises ==
  /\ ToEvaluate /\ Value(at) = "raises"
  /\ Raise("when")
  /\ UNCHANGED <<at, holds, skippedFlows, verdict, options, results, calls>>

PreTask ==
  /\ ToEvaluate /\ Value(at) = "true"
  /\ Calls("pre_task", at)
  /\ verdict' = [verdict EXCEPT ![at] = "begun"]
  /\ \/ pc' = "run_step" /\ UNCHANGED raised
     \/ Raise("callback")
  /\ UNCHANGED <<at, holds, skippedFlows, options, results>>

\* TaskRunner.run_step: look the references up, construct the task.
Resolve ==
  /\ pc = "run_step"
  /\ \A ref \in Steps[at].refs : Matches(ref) # {}
  /\ options' = [options EXCEPT ![at] =
                   {<<ref, _find_result_by_path(ref)>> : ref \in Steps[at].refs}]
  /\ \/ /\ pc' = "task"
        /\ verdict' = [verdict EXCEPT ![at] = "running"]
        /\ UNCHANGED raised
     \/ Raise("constructor") /\ UNCHANGED verdict
  /\ UNCHANGED <<at, holds, skippedFlows, results, calls>>

\* NameError: Path not found.
NotFound ==
  /\ pc = "run_step"
  /\ \E ref \in Steps[at].refs : Matches(ref) = {}
  /\ Raise("options")
  /\ UNCHANGED <<at, holds, skippedFlows, verdict, options, results, calls>>

\* The task returns or raises; what it did may show in the volatile conditions.
RunTask ==
  /\ pc = "task"
  /\ \E outcome \in {"succeeded", "failed"} :
       verdict' = [verdict EXCEPT ![at] = outcome]
  /\ \E after \in [Condition -> {"true", "false", "raises"}] :
       /\ \A c \in Condition \ Volatile : after[c] = holds[c]
       /\ holds' = after
  /\ pc' = "post_task"
  /\ UNCHANGED <<at, skippedFlows, options, results, raised, calls>>

Fatal(k) == verdict[k] = "failed" /\ ~Steps[k].allow_failure

\* Mutant: a failure is collected, never raised.
PostTaskGoingOn ==
  /\ pc = "post_task"
  /\ Calls("post_task", at)
  /\ \/ /\ results' = Append(results, at)
        /\ pc' = "steps" /\ at' = at + 1 /\ UNCHANGED raised
     \/ Raise("callback") /\ UNCHANGED <<at, results>>
  /\ UNCHANGED <<holds, skippedFlows, verdict, options>>

\* post_task, and the result collected, even a failed one.
PostTask ==
  /\ pc = "post_task"
  /\ Calls("post_task", at)
  /\ \/ /\ results' = Append(results, at)
        /\ IF Fatal(at)
           THEN Raise("task") /\ UNCHANGED at
           ELSE pc' = "steps" /\ at' = at + 1 /\ UNCHANGED raised
     \/ Raise("callback") /\ UNCHANGED <<at, results>>
  /\ UNCHANGED <<holds, skippedFlows, verdict, options>>

Completed ==
  /\ pc = "steps" /\ at \notin Index
  /\ pc' = "post_flow"
  /\ UNCHANGED <<at, holds, skippedFlows, verdict, options, results, raised, calls>>

\* Mutant: post_flow only after a success.
PostFlowIfCompleted ==
  /\ pc = "post_flow"
  /\ IF raised = "no" THEN Calls("post_flow", 0) ELSE UNCHANGED calls
  /\ pc' = "ended"
  /\ raised' \in {raised, "callback"}
  /\ UNCHANGED <<at, holds, skippedFlows, verdict, options, results>>

\* finally: post_flow.
PostFlow ==
  /\ pc = "post_flow"
  /\ Calls("post_flow", 0)
  /\ pc' = "ended"
  /\ raised' \in {raised, "callback"}
  /\ UNCHANGED <<at, holds, skippedFlows, verdict, options, results>>

-----------------------------------------------------------------------------
Run ==
  \/ _init_org \/ PreFlow \/ EvaluateFlows
  \/ PassFlowStep \/ PassInSkippedFlow \/ PassSkipped \/ PassUnmet \/ WhenRaises
  \/ PreTask \/ Resolve \/ NotFound \/ RunTask \/ PostTask
  \/ Completed \/ PostFlow

Ended == pc = "ended" /\ UNCHANGED vars

Next == Run \/ Ended

Spec == Init /\ [][Next]_vars

-----------------------------------------------------------------------------
(* What is promised of the run.                                            *)

\* The sub-flow entry f is one of those that step k belongs to: its number is
\* followed by "/" in the number of k.
Encloses(f, k) ==
  Steps[f].flow /\ IsPrefix(Steps[f].step_num \o <<-1>>, Steps[k].step_num)

\* In a flow that uses no sub-flow twice, paths tell which sub-flows a step is in.
PathsTellFlows(list) ==
  \A f, k \in DOMAIN list : list[f].flow =>
    (IsPrefix(list[f].step_num \o <<-1>>, list[k].step_num)
       <=> IsPrefix(list[f].path \o <<".">>, list[k].path))

Ran == {"begun", "running", "succeeded", "failed"}

\* A task runs only if every sub-flow it belongs to was to run, and is passed over
\* for its sub-flow only if one of them was not: looking paths up in a set gives
\* the same as the structure of the flow.  (Where PathsTellFlows.)
RunsWhatIsDue ==
  \A k \in Index :
    /\ verdict[k] \in Ran =>
         /\ ~Steps[k].skip
         /\ \A f \in FlowStep : Encloses(f, k) => verdict[f] = "held"
    /\ verdict[k] = "inSkipped" =>
         \E f \in FlowStep : Encloses(f, k) /\ verdict[f] = "unmet"

\* After a failure that is not to be ignored no later step is as much as looked
\* at, whatever the callbacks do.
NothingAfterFailure ==
  \A k, m \in Index : k < m /\ Fatal(k) =>
    verdict[m] \in {"pending", "held", "unmet"}

\* A run that ends without an exception has decided every step, no failure was
\* fatal, and `results' lists the steps that ran, each once, in order.
SuccessIsComplete ==
  pc = "ended" /\ raised = "no" =>
    /\ \A k \in Index : verdict[k] \notin {"pending", "begun", "running"} /\ ~Fatal(k)
    /\ \A n, m \in DOMAIN results : n < m => results[n] < results[m]
    /\ {results[n] : n \in DOMAIN results} = {k \in Index : verdict[k] \in Ran}

\* The host of a flow, a web application say, sees: pre_flow first; every
\* post_task right after the pre_task of the same step; and once pre_flow has
\* returned exactly one post_flow, the last call, however the run ends.
CallbackProtocol ==
  /\ \A n \in DOMAIN calls :
       /\ calls[n][1] = "pre_flow" <=> n = 1
       /\ calls[n][1] = "post_task" => calls[n - 1] = <<"pre_task", calls[n][2]>>
       /\ calls[n][1] = "post_flow" => n = Len(calls)
  /\ pc = "ended" /\ raised # "org" =>
       \/ Last(calls)[1] = "post_flow"
       \/ raised = "callback" /\ Len(calls) = 1

\* A reference reads a result collected before the step runs, and two steps with
\* the same reference read the same one, although the results grow in between.
ReferencesAgree ==
  \A k, m \in Index : \A o \in options[k], q \in options[m] :
    /\ o[2] < k /\ verdict[o[2]] \in {"succeeded", "failed"}
    /\ o[1] = q[1] => o[2] = q[2]

-----------------------------------------------------------------------------
(* What is said of the run and does not hold.                              *)

\* "Specify a `when` clause in a flow step to conditionally run that step"
\* (docs/config.md:472): a `when' decides about the steps of its own sub-flow, and
\* no other use of it.
WhenIsOfItsStep ==
  \A k \in Index : verdict[k] = "inSkipped" =>
    \E f \in FlowStep : Encloses(f, k) /\ verdict[f] = "unmet"

\* "^^prior_task.return_value" (docs/config.md:792): a reference reads what the task
\* it names returned.
ReferenceNamesItsTask ==
  \A k \in Index : \A o \in options[k] :
    LET path == Steps[o[2]].path IN path = o[1] \/ IsSuffix(<<".">> \o o[1], path)

\* "A flow continues when a task configured with ignore_failure raises an
\* exception" (test_flowrunner.py:656), and a TaskRunner "Constructs an instance",
\* calls it and "Returns results or exception" (flowrunner.py:46-48).
IgnoredFailureGoesOn ==
  raised \in {"constructor", "task"} => ~Steps[at].allow_failure

\* A run that returns has decided every step, its callbacks come in pairs, and its
\* references read the results they name.
RunIsWhole == TypeOK /\ SuccessIsComplete /\ CallbackProtocol /\ ReferencesAgree
=============================================================================
