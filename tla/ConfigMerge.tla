----------------------------- MODULE ConfigMerge -----------------------------
(***************************************************************************)
(* How the configuration of a project comes about: the files of the        *)
(* plugins, of CumulusCI itself, of the user, of the project, of the user  *)
(* for the project and of a build service are merged into one              *)
(* (core/utils.py merge_config).  Before the merge, steps of flows are     *)
(* compared layer by layer, because a step must not end as both a task and *)
(* a flow; what the comparison changes in one layer the next one sees.     *)
(*                                                                         *)
(* A value is a scalar, a list or a dictionary; a scalar may be None, which *)
(* is what an entry without a value stands for, or "None", the word that   *)
(* switches a step off.                                                    *)
(***************************************************************************)
EXTENDS Naturals, Sequences, SequencesExt, FiniteSets

CONSTANTS
  Worlds   \* records [plugins, layers]: the files there are

Scalar(s) == [kind |-> "scalar", of |-> s]
List(s) == [kind |-> "list", of |-> s]
Dict(f) == [kind |-> "dict", of |-> f]
None == [kind |-> "none"]
Empty == Dict(<<>>)
Word == Scalar("None")

IsDict(v) == v.kind = "dict"
Has(d, k) == IsDict(d) /\ k \in DOMAIN d.of

\* The value below d at the keys of a path, None if there is none.
RECURSIVE At(_, _)
At(d, path) ==
  IF path = <<>> THEN d
  ELSE IF Has(d, Head(path)) THEN At(d.of[Head(path)], Tail(path)) ELSE None

RECURSIVE PutAt(_, _, _)
PutAt(d, path, v) ==
  IF path = <<>> THEN v
  ELSE [d EXCEPT !.of[Head(path)] = PutAt(@, Tail(path), v)]

Without(d, k) == Dict([q \in DOMAIN d.of \ {k} |-> d.of[q]])
With(d, k, v) == Dict([q \in DOMAIN d.of \cup {k} |-> IF q = k THEN v ELSE d.of[q]])

\* From the highest to the lowest.
config_precedence_order ==
  <<"additional_yaml", "project_local_config", "project_config", "global_config",
    "universal_config", "plugins_config">>

Layer == Range(config_precedence_order)

\* Layers above, and the ranks they have.
Rank(l) == CHOOSE n \in DOMAIN config_precedence_order : config_precedence_order[n] = l
Higher(l) == {m \in Layer : Rank(m) < Rank(l)}

VARIABLES
  plugins,   \* what the plugins bring, in the order they are loaded
  files,     \* the layers as they were read
  configs,   \* the copies that are cleaned
  overriding,\* the layer that is compared with those below it, or that is merged
  phase,     \* where merge_config is
  merged,    \* the configuration
  mergeError \* the exception that ends it

mergeVars == <<plugins, files, configs, overriding, phase, merged, mergeError>>

-----------------------------------------------------------------------------
(* Plugins.                                                                 *)

\* A plugin's file replaces the sections that plugins before it had.
_load_plugins_config(ps) ==
  FoldLeft(LAMBDA acc, p : Dict([k \in DOMAIN acc.of \cup DOMAIN p.of |->
                                   IF k \in DOMAIN p.of THEN p.of[k] ELSE acc.of[k]]),
           Empty, ps)

-----------------------------------------------------------------------------
(* Steps that are overridden.                                               *)

\* Mutant: the task is taken for the old one whatever it says.
cleanup_old_flow_step_replace_syntaxTask(step) ==
  IF Has(step, "task") /\ Has(step, "flow") THEN Without(step, "task") ELSE step

\* A step that names both kinds loses the one that is "None", and the task if
\* neither is.
cleanup_old_flow_step_replace_syntax(step) ==
  IF ~(Has(step, "task") /\ Has(step, "flow")) THEN step
  ELSE IF step.of["flow"] = Word THEN Without(step, "flow") ELSE Without(step, "task")

Ambiguous(step) ==
  /\ Has(step, "task") /\ Has(step, "flow")
  /\ step.of["task"] = Word /\ step.of["flow"] = Word

Kind(step) == IF Has(step, "task") THEN "task" ELSE "flow"

steps_are_same_type(one, two) == Kind(one) = Kind(two)

\* Mutant: only a missing task is inherited.
link_missing_task_or_flowTask(lower, step) ==
  IF Has(step, "task") \/ ~Has(lower, "task") THEN step ELSE With(step, "task", lower.of["task"])

link_missing_task_or_flow(lower, step) ==
  IF Has(step, "flow") \/ Has(step, "task") THEN step
  ELSE IF Has(lower, "task") THEN With(step, "task", lower.of["task"])
  ELSE IF Has(lower, "flow") THEN With(step, "flow", lower.of["flow"])
  ELSE step

Flows(c) == IF Has(c, "flows") THEN DOMAIN c.of["flows"].of ELSE {}
StepsIn(c, f) == At(c, <<"flows", f, "steps">>)
StepNumbers(c, f) == IF IsDict(StepsIn(c, f)) THEN DOMAIN StepsIn(c, f).of ELSE {}
StepsOf(c) == UNION {{<<f, n>> : n \in StepNumbers(c, f)} : f \in Flows(c)}
Path(s) == <<"flows", s[1], "steps", s[2]>>
StepAt(c, s) == At(c, Path(s))

\* The layer below has the flow, but no steps to look the number up in.
NoSteps(lower, s) == s[1] \in Flows(lower) /\ StepsIn(lower, s[1]) = None

\* Mutant: the step below loses the kind only, not what was said of it.
remove_overridden_flow_steps_in_configKind(lower, upper) ==
  IF ~(Has(lower, "flows") /\ Has(upper, "flows")) THEN <<lower, upper>>
  ELSE FoldLeft(
    LAMBDA pair, s :
      LET old == StepAt(pair[1], s)
          new == cleanup_old_flow_step_replace_syntax(StepAt(pair[2], s))
      IN IF s \notin StepsOf(pair[1])
         THEN <<pair[1], PutAt(pair[2], Path(s), new)>>
         ELSE <<IF steps_are_same_type(new, old) THEN pair[1]
                ELSE PutAt(pair[1], Path(s), Without(Without(old, "task"), "flow")),
                PutAt(pair[2], Path(s), link_missing_task_or_flow(old, new))>>,
    <<lower, upper>>, SetToSeq(StepsOf(upper)))

\* One layer compared with one below it: the pair of them, changed.
remove_overridden_flow_steps_in_config(lower, upper) ==
  IF ~(Has(lower, "flows") /\ Has(upper, "flows")) THEN <<lower, upper>>
  ELSE FoldLeft(
    LAMBDA pair, s :
      LET old == StepAt(pair[1], s)
          new == cleanup_old_flow_step_replace_syntax(StepAt(pair[2], s))
      IN IF s \notin StepsOf(pair[1])
         THEN <<pair[1], PutAt(pair[2], Path(s), new)>>
         ELSE <<IF steps_are_same_type(new, old) THEN pair[1] ELSE PutAt(pair[1], Path(s), Empty),
                PutAt(pair[2], Path(s), link_missing_task_or_flow(old, new))>>,
    <<lower, upper>>, SetToSeq(StepsOf(upper)))

\* What the comparison raises.
Raises(lower, upper) ==
  IF ~(Has(lower, "flows") /\ Has(upper, "flows")) THEN "no"
  ELSE IF \E s \in StepsOf(upper) : Ambiguous(StepAt(upper, s)) THEN "ambiguous"
  ELSE IF \E s \in StepsOf(upper) : NoSteps(lower, s) THEN "KeyError"
  ELSE "no"

\* The layers below one, the highest first.
Lower(n) == SubSeq(config_precedence_order, n + 1, Len(config_precedence_order))

\* Mutant: a layer is compared only with the next one below it.
cleanup_flow_step_override_conflictsNext(cs, n) ==
  LET up == config_precedence_order[n]
      low == config_precedence_order[n + 1]
      pair == remove_overridden_flow_steps_in_config(cs[low], cs[up])
  IN [configs |-> [cs EXCEPT ![low] = pair[1], ![up] = pair[2]], error |-> Raises(cs[low], cs[up])]

\* One round of the loop: the layer at n against each below it.
cleanup_flow_step_override_conflicts(cs, n) ==
  FoldLeft(
    LAMBDA acc, low :
      LET up == config_precedence_order[n]
          raised == Raises(acc.configs[low], acc.configs[up])
          pair == remove_overridden_flow_steps_in_config(acc.configs[low], acc.configs[up])
      IN IF acc.error # "no" THEN acc
         ELSE IF raised # "no" THEN [acc EXCEPT !.error = raised]
         ELSE [acc EXCEPT !.configs[low] = pair[1], !.configs[up] = pair[2]],
    [configs |-> cs, error |-> "no"], Lower(n))

-----------------------------------------------------------------------------
(* The merge.                                                               *)

Failed == [kind |-> "failed"]

\* Mutant: a layer replaces whole entries, as dict.update would.
dictmergeUpdate(a, b) ==
  IF IsDict(a) /\ IsDict(b)
  THEN Dict([k \in DOMAIN a.of \cup DOMAIN b.of |-> IF k \in DOMAIN b.of THEN b.of[k] ELSE a.of[k]])
  ELSE b

\* b merged into a: an entry without a value changes nothing, scalars replace,
\* lists grow, dictionaries are merged, and a dictionary takes nothing else.
RECURSIVE dictmerge(_, _)
dictmerge(a, b) ==
  IF b = None THEN a
  ELSE IF a.kind \in {"none", "scalar"} THEN b
  ELSE IF a.kind = "list" THEN List(a.of \o (IF b.kind = "list" THEN b.of ELSE <<b>>))
  ELSE IF ~IsDict(b) THEN Failed
  ELSE LET both == [k \in DOMAIN a.of \cap DOMAIN b.of |-> dictmerge(a.of[k], b.of[k])]
       IN IF \E k \in DOMAIN both : both[k] = Failed THEN Failed
          ELSE Dict([k \in DOMAIN a.of \cup DOMAIN b.of |->
                       IF k \in DOMAIN both THEN both[k]
                       ELSE IF k \in DOMAIN a.of THEN a.of[k] ELSE b.of[k]])

\* The files are read.
Load(w) ==
  /\ plugins = w.plugins
  /\ files = [l \in Layer |-> IF l = "plugins_config" THEN _load_plugins_config(w.plugins)
                            ELSE IF l \in DOMAIN w.layers THEN w.layers[l] ELSE Empty]
  /\ configs = files
  /\ overriding = 1
  /\ phase = "clean"
  /\ merged = Empty
  /\ mergeError = "no"

MergeConfigInit == \E w \in Worlds : Load(w)

\* A layer is compared with all below it.
Clean ==
  /\ phase = "clean"
  /\ LET cleaned == cleanup_flow_step_override_conflicts(configs, overriding)
         last == overriding = Len(config_precedence_order) - 1
     IN /\ configs' = cleaned.configs
        /\ mergeError' = cleaned.error
        /\ phase' = IF cleaned.error # "no" THEN "failed" ELSE IF last THEN "merge" ELSE "clean"
        /\ overriding' = IF last THEN Len(config_precedence_order) ELSE overriding + 1
  /\ UNCHANGED <<plugins, files, merged>>

\* The layers, from the lowest, are merged into one.
Merge ==
  /\ phase = "merge"
  /\ LET new == dictmerge(merged, configs[config_precedence_order[overriding]])
     IN /\ merged' = IF new = Failed THEN merged ELSE new
        /\ mergeError' = IF new = Failed THEN "ConfigMergeError" ELSE "no"
        /\ phase' = IF new = Failed THEN "failed" ELSE IF overriding = 1 THEN "done" ELSE "merge"
        /\ overriding' = IF overriding = 1 THEN 1 ELSE overriding - 1
  /\ UNCHANGED <<plugins, files, configs>>

MergeConfigNext == Clean \/ Merge

MergeConfigSpec == MergeConfigInit /\ [][MergeConfigNext]_mergeVars

\* What one asks the configuration for by its name.
get_task(name) ==
  LET task == At(merged, <<"tasks", name>>)
  IN IF task \in {None, Empty}
     THEN IF Has(At(merged, <<"tasks">>), name) THEN "no configuration" ELSE "not found"
     ELSE IF ~IsDict(task) \/ ~Has(task, "class_path") THEN "no class_path" ELSE "task"
-----------------------------------------------------------------------------
(* What the merge promises.                                                 *)

Merged == phase = "done"

\* What a file says of a step, and which kind it names, if any.
Said(l, s) == IF s \in StepsOf(files[l]) THEN StepAt(files[l], s) ELSE Empty
Named(l, s) == DOMAIN Said(l, s).of \cap {"task", "flow"}
KindsSaid(l, s) ==
  IF Cardinality(Named(l, s)) < 2 THEN Named(l, s)
  ELSE IF Said(l, s).of["flow"] # Word THEN {"flow"} ELSE {"task"}
Saying(s) == {l \in Layer : KindsSaid(l, s) # {}}
AllSteps == UNION {StepsOf(files[l]) : l \in Layer}

\* Values that files give at a path below a step, and the highest of them.
Giving(s, path) == {l \in Layer : At(Said(l, s), path) # None}
HighestOf(ls) == CHOOSE l \in ls : Higher(l) \cap ls = {}
HighestGiven(s, path) ==
  IF Giving(s, path) = {} THEN None ELSE At(Said(HighestOf(Giving(s, path)), s), path)
OptionPaths(s) ==
  {<<"when">>} \cup
  {<<"options", o>> : o \in UNION {DOMAIN At(Said(l, s), <<"options">>).of :
                                     l \in {m \in Layer : IsDict(At(Said(m, s), <<"options">>))}}}

\* A file below another that names both kinds of a step, one of them as "None".
OldSyntaxBelow(s) ==
  \E l \in Layer : /\ Has(Said(l, s), "task") /\ Has(Said(l, s), "flow")
                   /\ \E m \in Higher(l) : s \in StepsOf(files[m])

OneKind(s) ==
  LET kinds == DOMAIN StepAt(merged, s).of \cap {"task", "flow"}
  IN IF Saying(s) = {} THEN kinds = {}
     ELSE LET top == HighestOf(Saying(s)) IN
            /\ kinds = KindsSaid(top, s)
            /\ \A k \in kinds : StepAt(merged, s).of[k] = Said(top, s).of[k]

\* A step ends as a task or as a flow, the one that the highest file that names
\* either names: whatever the files above and below leave out or switch off with
\* the word "None", as long as only the highest of them names both.
HighestKindDecides == Merged => \A s \in AllSteps : ~OldSyntaxBelow(s) => OneKind(s)

\* "we need to set the step that is _lower_ in precedence order to an empty dict ({}). If
\* we don't, then we will end up with both" (core/utils.py:177): so no step has
\* both.  The code compares a file with those above it before it clears up the old
\* syntax in it, and takes a step that names both for a task.
NeverBothKinds == Merged => \A s \in AllSteps : OneKind(s)

\* A task gets no options or condition that were written for a flow, nor a flow a
\* task's, however the files alternate.
NothingOfTheOtherKind ==
  Merged => \A s \in AllSteps : \A path \in OptionPaths(s) :
    LET value == At(StepAt(merged, s), path)
        kinds == DOMAIN StepAt(merged, s).of \cap {"task", "flow"}
    IN value # None =>
         \E l \in Giving(s, path) : At(Said(l, s), path) = value /\ KindsSaid(l, s) \subseteq kinds

\* Where every file that has a step names the same kind, and nothing else, all of them have their
\* say: each option and condition is that of the highest file that gives it.
StatedIsMerged ==
  Merged => \A s \in AllSteps :
    /\ ~OldSyntaxBelow(s)
    /\ \E k \in {"task", "flow"} : \A l \in Layer : s \in StepsOf(files[l]) => KindsSaid(l, s) = {k}
    => \A path \in OptionPaths(s) :
      At(StepAt(merged, s), path) = HighestGiven(s, path)

\* "One override only cascades over another when two configurations set a value
\* for the same element" (docs/config.md:695): so where one file says which task or
\* flow a step is, and those above it that have the step give it options and nothing
\* else, its other options and its condition stay as they are.  The code takes a step
\* that names neither for a flow, and a task below it loses all but its name.
OverridesCascade ==
  Merged => \A l \in Layer : \A s \in StepsOf(files[l]) :
    /\ Cardinality(Named(l, s)) = 1 /\ \A k \in Named(l, s) : Said(l, s).of[k] # Word
    /\ \A m \in Layer \ {l} : s \in StepsOf(files[m]) =>
         m \in Higher(l) /\ DOMAIN Said(m, s).of = {"options"}
    => \A path \in OptionPaths(s) :
      At(StepAt(merged, s), path) = HighestGiven(s, path)

\* A task that some file gives a class keeps it through files that mention it with
\* no entry, with an empty one, or with options alone.
TasksStayRunnable ==
  Merged => \A l \in Layer :
    LET tasks == At(files[l], <<"tasks">>)
    IN IsDict(tasks) => \A t \in DOMAIN tasks.of :
         Has(tasks.of[t], "class_path") => get_task(t) = "task"

\* A list in a file is added to what is below it, unless that is a scalar; nothing
\* of a list is lost but to a dictionary, which fails.
ListsGrow ==
  Merged => \A l \in Layer :
    LET path == <<"tasks", "t", "options", "o">>
        mine == At(files[l], path)
    IN mine.kind = "list" =>
         /\ At(merged, path).kind = "list"
         /\ Range(mine.of) \subseteq Range(At(merged, path).of)

Clashes(x, y) == x # None /\ y # None /\ IsDict(x) # IsDict(y)

\* The merge fails only over a step that is "None" of both kinds, over a
\* dictionary that meets something else, and over a flow that a file in the
\* middle only describes while one above it changes a step.
MergeFailsForAReason ==
  phase = "failed" =>
    \/ \E l \in Layer : \E s \in StepsOf(files[l]) : Ambiguous(StepAt(files[l], s))
    \/ \E l, m \in Layer : Clashes(At(files[l], <<"tasks", "t", "options", "o">>),
                                   At(files[m], <<"tasks", "t", "options", "o">>))
    \/ \E l \in Layer : \E m \in Higher(l) : \E s \in StepsOf(files[m]) : NoSteps(files[l], s)

\* The last of these is no mistake of anybody's: the flow has its steps further
\* below.  The code raises KeyError.
OnlyMistakesFail == mergeError # "KeyError"

\* All that holds of the merge, for one run of TLC.
ConfigIsSound ==
  /\ HighestKindDecides
  /\ NothingOfTheOtherKind
  /\ StatedIsMerged
  /\ TasksStayRunnable
  /\ ListsGrow
  /\ MergeFailsForAReason

\* Each plugin's tasks are there to be called.  The code keeps only the sections
\* of the last plugin that has them.
PluginsKeepTheirTasks ==
  Merged => \A n \in DOMAIN plugins : \A t \in DOMAIN At(plugins[n], <<"tasks">>).of :
    Has(At(merged, <<"tasks">>), t)
=============================================================================
