---------------------------- MODULE FlowPlanning ----------------------------
(***************************************************************************)
(* The coordinators a process creates over one project configuration, one  *)
(* after the other: FlowCoordinator.__init__ checks the flow for loops and *)
(* expands it.  The configuration is shared by all of them, and expanding  *)
(* a flow may change it.                                                   *)
(***************************************************************************)
EXTENDS Integers, Sequences, SequencesExt, FiniteSets, TLC

CONSTANTS
  TaskOptions,     \* TaskOptions[task]: the options of its definition
  RuntimeOptions,  \* options given on the command line, by task
  Skip,            \* names of tasks not to run
  NoneName,        \* the name "None"
  Unconditional

EmptyDict == <<>>

Get(dict, key, default) == IF key \in DOMAIN dict THEN dict[key] ELSE default

Updated(dict, other) == other @@ dict     \* dict.update(other)

-----------------------------------------------------------------------------
(* Step numbers: LooseVersion, "/" parsed as -1.                           *)

\* Mutant: "/" is 0, like the digits.
SubNumberZero(number, sub) == number \o <<0>> \o sub

\* f"{number}/{sub_number}"
SubNumber(number, sub) == number \o <<-1>> \o sub

\* Python's order of tuples.
Before(v, w) ==
  \/ IsStrictPrefix(v, w)
  \/ \E n \in DOMAIN v \cap DOMAIN w :
       v[n] < w[n] /\ \A m \in 1..(n - 1) : v[m] = w[m]

-----------------------------------------------------------------------------
(* _visit_step.                                                            *)

PathIn(from, name) == IF from = <<>> THEN name ELSE from \o <<".">> \o name

IsSkipped(config) ==
  \/ "flow" \in DOMAIN config /\ config.flow = NoneName
  \/ "task" \in DOMAIN config /\ (config.task = NoneName \/ config.task \in Skip)

\* Mutant: what the parent flow says of a task does not override its step.
TaskStepOptionsOwnFirst(config, parent) ==
  Updated(Updated(TaskOptions[config.task],
                  Updated(Get(parent, config.task, EmptyDict),
                          Get(config, "options", EmptyDict))),
          Get(RuntimeOptions, config.task, EmptyDict))

\* The options of a task: its definition's, the step's, the parent flow's, those
\* of the command line, the later ones winning.
TaskStepOptions(config, parent) ==
  Updated(Updated(TaskOptions[config.task],
                  Updated(Get(config, "options", EmptyDict),
                          Get(parent, config.task, EmptyDict))),
          Get(RuntimeOptions, config.task, EmptyDict))

ListedStep(number, flow, name, path, skip, config, opts) ==
  [step_num |-> number, flow |-> flow, task_name |-> name, path |-> path,
   skip |-> skip, when |-> Get(config, "when", Unconditional),
   allow_failure |-> Get(config, "ignore_failure", FALSE), options |-> opts]

\* What a visit leaves: the flows, which it may change, and the list so far.
State(flows, steps) == [flows |-> flows, steps |-> steps]

\* Visit step number k of flow `in', which is part of the flow at `from'.
RECURSIVE Visit(_, _, _, _, _, _)
Visit(st, in, k, number, parent, from) ==
  LET config == st.flows[in][k]
      Listed(spec) == State(st.flows, Append(st.steps, spec))
  IN
  CASE IsSkipped(config) ->
         LET name == IF "task" \in DOMAIN config THEN config.task ELSE config.flow
         IN Listed(ListedStep(number, FALSE, name, PathIn(from, name), TRUE,
                              EmptyDict, Get(config, "options", EmptyDict)))
    [] ~IsSkipped(config) /\ "task" \in DOMAIN config ->
         Listed(ListedStep(number, FALSE, config.task, PathIn(from, config.task), FALSE,
                           config, TaskStepOptions(config, parent)))
    [] ~IsSkipped(config) /\ "flow" \in DOMAIN config ->
         LET path == PathIn(from, config.flow)
             opts == Updated(Get(config, "options", EmptyDict),
                             Get(parent, config.flow, EmptyDict))
             \* step_options.update() changes the step of the flow itself.
             kept == IF "options" \in DOMAIN config
                     THEN [st.flows EXCEPT ![in][k].options = opts]
                     ELSE st.flows
             head == IF "when" \in DOMAIN config
                     THEN Append(st.steps,
                            ListedStep(number, TRUE, path, path, FALSE, config, EmptyDict))
                     ELSE st.steps
         IN FoldLeftDomain(
              LAMBDA acc, n :
                Visit(acc, config.flow, n,
                      SubNumber(number, st.flows[config.flow][n].number),
                      opts, path),
              State(kept, head), st.flows[config.flow])

\* All the steps of a flow, in the order they are visited.
VisitAll(flows, root) ==
  FoldLeftDomain(
    LAMBDA acc, k : Visit(acc, root, k, flows[root][k].number, EmptyDict, <<>>),
    State(flows, <<>>), flows[root])

Sorted(steps) == SortSeq(steps, LAMBDA a, b : Before(a.step_num, b.step_num))

-----------------------------------------------------------------------------
(* _check_infinite_flows.                                                  *)

SubFlows(flows, name) ==
  {flows[name][k].flow : k \in {n \in DOMAIN flows[name] :
     "flow" \in DOMAIN flows[name][n] /\ flows[name][n].flow # NoneName}}

\* Mutant: sub-flows that were visited before stay on the stack.
RECURSIVE LoopsOnceSeen(_, _, _)
LoopsOnceSeen(flows, name, stack) ==
  \E sub \in SubFlows(flows, name) :
    sub \in stack \/ LoopsOnceSeen(flows, sub, stack \cup SubFlows(flows, name))

\* A sub-flow that is being visited already is an infinite loop.
RECURSIVE Loops(_, _, _)
Loops(flows, name, stack) ==
  \E sub \in SubFlows(flows, name) :
    sub \in stack \/ Loops(flows, sub, stack \cup {sub})

-----------------------------------------------------------------------------

CONSTANTS
  Projects,   \* the configurations: functions from flow names to flows
  Roots,      \* the flows a coordinator is created for
  MaxCreated  \* bound: coordinators created

VARIABLES
  declared,   \* the configuration as it was read
  flows,      \* the configuration in memory
  created,    \* the flows coordinators were created for
  steps,      \* the list of the last coordinator
  error       \* or FlowInfiniteLoopError

planVars == <<declared, flows, created, steps, error>>

PlanInit ==
  /\ declared \in Projects
  /\ flows = declared
  /\ created = <<>>
  /\ steps = <<>>
  /\ error = FALSE

Create(root) ==
  /\ Len(created) < MaxCreated
  /\ created' = Append(created, root)
  /\ IF Loops(flows, root, {})
     THEN error' = TRUE /\ steps' = <<>> /\ UNCHANGED flows
     ELSE LET visited == VisitAll(flows, root)
          IN /\ error' = FALSE
             /\ steps' = Sorted(visited.steps)
             /\ flows' = visited.flows
  /\ UNCHANGED declared

PlanNext == \E root \in Roots : Create(root)

PlanSpec == PlanInit /\ [][PlanNext]_planVars

-----------------------------------------------------------------------------
(* What the list should be, from the flows as declared.                    *)

\* The flows at and below root can be ranked, those used below those that use them.
Acyclic(root) ==
  \E S \in SUBSET DOMAIN declared :
    /\ root \in S
    /\ \A f \in S : SubFlows(declared, f) \subseteq S
    /\ \E rank \in [S -> 1..Cardinality(S)] :
         \A f \in S : \A g \in SubFlows(declared, f) : rank[g] < rank[f]

\* The steps of a flow by number, each followed by all that it stands for; `above'
\* has what the flows around it, from the inside out, say of its steps.
RECURSIVE Nested(_, _, _, _)
Nested(in, prefix, above, from) ==
  LET Says(name) == [n \in DOMAIN above |-> Get(above[n], name, EmptyDict)]
      InOrder == SortSeq(declared[in], LAMBDA a, b : Before(a.number, b.number))
      One(config) ==
        LET number == IF prefix = <<>> THEN config.number
                      ELSE prefix \o <<-1>> \o config.number
            own == Get(config, "options", EmptyDict)
        IN
        IF IsSkipped(config)
        THEN LET name == IF "task" \in DOMAIN config THEN config.task ELSE config.flow
             IN <<ListedStep(number, FALSE, name, PathIn(from, name), TRUE, EmptyDict, own)>>
        ELSE IF "task" \in DOMAIN config
        THEN LET levels == <<TaskOptions[config.task], own>> \o Says(config.task)
                             \o <<Get(RuntimeOptions, config.task, EmptyDict)>>
             IN <<ListedStep(number, FALSE, config.task, PathIn(from, config.task), FALSE,
                       config, FoldLeft(Updated, EmptyDict, levels))>>
        ELSE LET path == PathIn(from, config.flow)
             IN (IF "when" \in DOMAIN config
                 THEN <<ListedStep(number, TRUE, path, path, FALSE, config, EmptyDict)>>
                 ELSE <<>>)
                \o Nested(config.flow, number, <<own>> \o Says(config.flow), path)
  IN FlattenSeq([n \in DOMAIN InOrder |-> One(InOrder[n])])

Ideal == Nested(Last(created), <<>>, <<>>, <<>>)

WithoutOptions(list) == [n \in DOMAIN list |-> [list[n] EXCEPT !.options = {}]]

-----------------------------------------------------------------------------
(* What is promised of the list.                                           *)

\* A flow is refused if and only if it contains itself, at whatever depth; a
\* sub-flow used twice is not a loop.
RefusedIffCyclic == created # <<>> => (error <=> ~Acyclic(Last(created)))

\* Sorting the flat list by version numbers gives the steps of each flow in the
\* order of its numbers and nothing in between the steps of a sub-flow; its
\* condition comes first.
SortedIsNested ==
  created # <<>> /\ ~error => WithoutOptions(steps) = WithoutOptions(Ideal)

\* Only the flows that coordinators are created for pass options to sub-flows.
PassedFromRootsOnly ==
  \A f \in DOMAIN declared : \A k \in DOMAIN declared[f] :
    {"flow", "options"} \subseteq DOMAIN declared[f][k] =>
      f \in Roots /\ \A g \in DOMAIN declared : f \notin SubFlows(declared, g)

\* Every option of every task has the value of the highest level that gives it one:
\* the definition of the task, its step, the flow around it, the command line.
OptionsByPriority ==
  created # <<>> /\ ~error /\ PassedFromRootsOnly =>
    \A n \in DOMAIN steps : steps[n].options = Ideal[n].options

-----------------------------------------------------------------------------
(* What is said of the list and does not hold.                             *)

\* "Option values/overrides can be passed in at a number of levels, in increasing
\* order of priority" (flowrunner.py:50-56): the same, with options passed to a
\* sub-flow by a flow that is itself a sub-flow.
OptionsAtEveryLevel ==
  created # <<>> /\ ~error =>
    \A n \in DOMAIN steps : steps[n].options = Ideal[n].options

\* "Precomputes a flat list of steps" (flowrunner.py:19): what a coordinator
\* computes is a matter of its flow, not of what was computed before.
ListIsItsOwn ==
  created # <<>> /\ ~error =>
    steps = Sorted(VisitAll(declared, Last(created)).steps)

\* "All non-negative numbers and decimals are valid as step numbers"
\* (docs/config.md:361): steps run in the order of their numbers.  Of a number with
\* a point the second component of the version is what follows the point, here one
\* or two digits.
AsDecimal(number) ==
  100 * number[1]
    + (IF Len(number) = 1 THEN 0
       ELSE IF number[2] < 10 THEN 10 * number[2] ELSE number[2])

DecimalOrder ==
  \A n, m \in DOMAIN steps :
    n < m => AsDecimal(steps[n].step_num) <= AsDecimal(steps[m].step_num)

\* The list a flow stands for: refused only for loops, in the order of the nested
\* flows, with the options of the nearest level that gives them.
ListIsSound == RefusedIffCyclic /\ SortedIsNested /\ OptionsByPriority
=============================================================================
