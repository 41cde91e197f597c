------------------------ MODULE DependencyResolution ------------------------
(* update_dependencies. The dependencies of the project name repositories and *)
(* packages. Each repository is resolved to a commit, and if it has one to a  *)
(* package, by a pin or by the first strategy of a stack that finds something; *)
(* then it is replaced by its own dependencies, what is deployed before it,   *)
(* its package or its source, and what is deployed after it, until nothing is *)
(* left to resolve. What results is installed in order. A run that failed can *)
(* be repeated, and so can one that succeeded.                                *)
EXTENDS Integers, Sequences, FiniteSets, SequencesExt

CONSTANTS
  Repo,
  DepWorlds,     \* what a behaviour may start from; see DependencyAssumption
  Version,       \* the version of the package found by a strategy, or at a tag
  max_iterations,
  MaxRuns, MaxFailures

NoTag == "no tag"
NoRef == "no ref"
NoPackage == [repo |-> "none", by |-> "none", version |-> 0]
CommitStatus == {"commit_status_exact_branch", "commit_status_release_branch",
  "commit_status_previous_release_branch", "commit_status_default_branch"}
Strategy == CommitStatus \cup {"tag", "latest_beta", "latest_release", "unmanaged"}
Package == [repo : Repo \cup {"none"}, by : {"none", "namespace", "id"}, version : Nat]

\* A repository, a package, or something deployed: a folder, a flow, or the source.
Dependency == [kind : {"repo", "package", "folder", "flow", "src"}, repo : Repo, at : {"", "pre", "post"},
  tag : STRING, ref : STRING, pkg : Package, unmanaged : BOOLEAN, skip : SUBSET {"pre", "post"}]

RepoProject == [deps : Seq(Dependency), namespaced : BOOLEAN, flows : SUBSET {"pre", "post"},
  folders : SUBSET {"pre", "post"}]

ASSUME DependencyAssumption ==
  /\ {max_iterations, MaxRuns, MaxFailures} \subseteq Nat
  /\ \A w \in DepWorlds :
       /\ w.repos \in [Repo -> RepoProject] /\ w.wanted \in Seq(Dependency)
       /\ w.found \in [Repo -> [Strategy -> {"nothing", "error", "missing", "source", "namespace", "id"}]]
       /\ w.stack \in Seq(Strategy) /\ w.beta \in {"unset", "yes", "no"} /\ w.prefer2gp \in {"unset", "no"}
       /\ w.scratch \in BOOLEAN /\ w.onRelease \in BOOLEAN /\ w.force \in BOOLEAN
       /\ w.ignored \subseteq Repo /\ w.ignoredPackages \subseteq Repo /\ w.pins \in [Repo -> STRING]

VARIABLES
  world,       \* repositories, what strategies find in them, the options of the task, the org's kind
  strategies,  \* resolution_strategy as _init_options leaves it
  depPhase, problem,
  deps, iteration, cursor,
  org,         \* the packages in the org
  cache,       \* installed_packages as last read, or none
  deployed,    \* what was deployed, in any run
  installed,   \* the packages this run installed
  wasDone,     \* history: a run succeeded before this one
  runs, failures

depVars == <<world, strategies, depPhase, problem, deps, iteration, cursor, org, cache, deployed, installed,
             wasDone, runs, failures>>

Unread == {NoPackage}
Moving == {"loop", "resolve", "install"}

DepTypeOK ==
  /\ strategies \in Seq(Strategy)
  /\ depPhase \in Moving \cup {"idle", "done", "failed"}
  /\ problem \in {"", "pin", "missing", "unresolved", "no package", "iterations", "install"}
  /\ deps \in Seq(Dependency) /\ iteration \in 0..max_iterations /\ cursor \in 1..(Len(deps) + 1)
  /\ org \subseteq Package /\ cache \subseteq Package
  /\ deployed \subseteq Dependency /\ installed \in Seq(Package)
  /\ wasDone \in BOOLEAN /\ runs \in 0..MaxRuns /\ failures \in 0..MaxFailures

-----------------------------------------------------------------------------
(* The options: which strategies are tried.                                    *)

LessStrategies(s, S) == SelectSeq(s, LAMBDA x : x \notin S)

resolvers_2gp == (CommitStatus \ {"commit_status_default_branch"}) \cup {"latest_beta"}

_init_options(w) ==
  LET chosen == IF w.beta = "yes" THEN <<"tag", "latest_beta", "latest_release", "unmanaged">> ELSE w.stack
      plain  == IF w.beta = "no" THEN LessStrategies(chosen, {"latest_beta"}) ELSE chosen
      first  == IF w.prefer2gp = "no" THEN LessStrategies(plain, resolvers_2gp) ELSE plain IN
  IF w.scratch THEN first ELSE LessStrategies(first, resolvers_2gp)

DepInitOf(worlds) ==
  /\ world \in worlds /\ strategies = _init_options(world)
  /\ depPhase = "idle" /\ problem = "" /\ deps = world.wanted /\ iteration = 0 /\ cursor = 1
  /\ org = {} /\ cache = Unread /\ deployed = {} /\ installed = <<>> /\ wasDone = FALSE
  /\ runs = 0 /\ failures = 0
DepInit == DepInitOf(DepWorlds)

RefuseDependency(p) == depPhase' = "failed" /\ problem' = p
Resolution == <<world, strategies, org, cache, deployed, installed, wasDone, runs, failures>>

-----------------------------------------------------------------------------
(* Resolution.                                                                 *)

is_resolved(d) == d.kind # "repo" \/ d.ref # NoRef
is_flattened(d) == d.kind # "repo"

can_resolve(s, d) ==
  /\ s = "tag" => d.tag # NoTag
  /\ s \in {"latest_beta", "latest_release"} => d.tag = NoTag
  /\ s \in CommitStatus \ {"commit_status_default_branch"} => world.onRelease

\* A dependency declared unmanaged takes no package from a tag; from a commit status it does.
ResultOf(s, d) ==
  LET o == world.found[d.repo][s] IN
  IF d.unmanaged /\ s \notin CommitStatus /\ o \in {"namespace", "id"} THEN "source" ELSE o

RefOf(s, d) == IF s = "tag" THEN d.tag ELSE s

Resolved(d, s) ==
  LET o == ResultOf(s, d) IN
  [d EXCEPT !.ref = RefOf(s, d),
            !.pkg = IF o = "source" THEN NoPackage
                    ELSE [repo |-> d.repo, by |-> o, version |-> Version[RefOf(s, d)]]]

\* The strategies that do not pass a dependency on to the next.
resolve_dependencyInReverse(d) ==
  SelectSeq(Reverse(strategies), LAMBDA s : can_resolve(s, d) /\ ResultOf(s, d) \notin {"nothing", "error"})
resolve_dependency(d) ==
  SelectSeq(strategies, LAMBDA s : can_resolve(s, d) /\ ResultOf(s, d) \notin {"nothing", "error"})

pin(d) == [d EXCEPT !.tag = world.pins[d.repo]]
can_pin(d) == world.pins[d.repo] # NoTag

Unresolved == {i \in DOMAIN deps : ~is_resolved(deps[i])}

\* Changes deps in place, in order.
ResolveDependencies ==
  /\ depPhase = "resolve" /\ Unresolved # {}
  /\ LET i == CHOOSE j \in Unresolved : \A k \in Unresolved : j <= k
         d == deps[i]  found == resolve_dependency(d) IN
     IF can_pin(d)
     THEN \/ /\ (d.tag \notin {NoTag, world.pins[d.repo]} \/ ResultOf("tag", d) \notin {"source", "namespace", "id"})
             /\ RefuseDependency("pin") /\ UNCHANGED deps
          \/ /\ d.tag \in {NoTag, world.pins[d.repo]} /\ ResultOf("tag", d) \in {"source", "namespace", "id"}
             /\ deps' = [deps EXCEPT ![i] = Resolved(pin(d), "tag")] /\ UNCHANGED <<depPhase, problem>>
     ELSE \/ found = <<>> /\ RefuseDependency("unresolved") /\ UNCHANGED deps
          \/ found # <<>> /\ ResultOf(found[1], d) = "missing" /\ RefuseDependency("missing") /\ UNCHANGED deps
          \/ /\ found # <<>> /\ ResultOf(found[1], d) # "missing"
             /\ deps' = [deps EXCEPT ![i] = Resolved(d, found[1])] /\ UNCHANGED <<depPhase, problem>>
  /\ UNCHANGED <<iteration, cursor, Resolution>>

\* What is deployed before or after: the project's flow, or else its folder.
_flatten_unpackaged(d, at) ==
  LET p == world.repos[d.repo]
      part(kind) == [d EXCEPT !.kind = kind, !.at = at, !.tag = NoTag, !.unmanaged = FALSE, !.skip = {}] IN
  IF at \in p.flows THEN <<part("flow")>>
  ELSE IF at \in p.folders \ d.skip THEN <<part("folder")>> ELSE <<>>

TheProject(d) ==
  [d EXCEPT !.kind = IF d.pkg = NoPackage THEN "src" ELSE "package", !.tag = NoTag,
            !.ref = IF d.pkg = NoPackage THEN d.ref ELSE NoRef, !.unmanaged = FALSE, !.skip = {}]

flattenSourceFirst(d) ==
  IF is_flattened(d) THEN <<d>>
  ELSE _flatten_unpackaged(d, "pre") \o <<TheProject(d)>> \o world.repos[d.repo].deps \o _flatten_unpackaged(d, "post")
flatten(d) ==
  IF is_flattened(d) THEN <<d>>
  ELSE world.repos[d.repo].deps \o _flatten_unpackaged(d, "pre") \o <<TheProject(d)>> \o _flatten_unpackaged(d, "post")

\* Repositories are ignored by their address, packages by their namespace.
should_includePackages(d) == d.kind = "package" /\ d.pkg.by = "namespace" => d.repo \notin world.ignoredPackages
should_includeRepos(d) == d.kind # "repo" \/ d.repo \notin world.ignored
should_include(d) ==
  /\ d.kind = "repo" => d.repo \notin world.ignored
  /\ d.kind = "package" /\ d.pkg.by = "namespace" => d.repo \notin world.ignoredPackages

unique(s) ==
  LET first == SelectSeq([i \in DOMAIN s |-> i], LAMBDA i : \A j \in 1..(i - 1) : s[j] # s[i]) IN
  [k \in DOMAIN first |-> s[first[k]]]

Flatten ==
  LET kept == SelectSeq(deps, should_include)
      lost(d) == d.kind = "repo" /\ d.pkg = NoPackage /\ world.repos[d.repo].namespaced /\ ~d.unmanaged IN
  /\ depPhase = "resolve" /\ Unresolved = {}
  /\ \/ (\E i \in DOMAIN kept : lost(kept[i])) /\ RefuseDependency("no package") /\ UNCHANGED deps
     \/ /\ ~\E i \in DOMAIN kept : lost(kept[i])
        /\ \E all \in {FlattenSeq([i \in DOMAIN kept |-> flatten(kept[i])])} : deps' = unique(all)
        /\ depPhase' = "loop" /\ UNCHANGED problem
  /\ UNCHANGED <<iteration, cursor, Resolution>>

Settled == \A i \in DOMAIN deps : is_flattened(deps[i]) /\ is_resolved(deps[i])

get_static_dependenciesWithoutLimit ==
  /\ depPhase = "loop" /\ iteration' = iteration
  /\ \/ Settled /\ deps' = SelectSeq(deps, should_include) /\ depPhase' = "install"
     \/ ~Settled /\ depPhase' = "resolve" /\ UNCHANGED deps
  /\ UNCHANGED <<problem, cursor, Resolution>>
get_static_dependencies ==
  /\ depPhase = "loop"
  /\ \/ /\ Settled /\ deps' = SelectSeq(deps, should_include) /\ depPhase' = "install"
        /\ UNCHANGED <<problem, iteration>>
     \/ ~Settled /\ iteration = max_iterations /\ RefuseDependency("iterations") /\ UNCHANGED <<deps, iteration>>
     \/ /\ ~Settled /\ iteration < max_iterations /\ iteration' = iteration + 1 /\ depPhase' = "resolve"
        /\ UNCHANGED <<deps, problem>>
  /\ UNCHANGED <<cursor, Resolution>>

-----------------------------------------------------------------------------
(* Installation.                                                               *)

installed_packagesAfresh == org
installed_packages == IF cache = Unread THEN org ELSE cache

is_installableAgain(p, forced) == \A q \in installed_packages : q.repo = p.repo => q.version <= p.version
is_installableUnforced(p, forced) ==
  \A q \in installed_packages : q.repo = p.repo => q.version < p.version
is_installable(p, forced) ==
  IF p.by = "id"
  THEN forced \/ \A q \in installed_packages : <<q.repo, q.version>> # <<p.repo, p.version>>
  ELSE \A q \in installed_packages : q.repo = p.repo => q.version < p.version

Item == deps[cursor]
Installing == <<world, strategies, deps, iteration, wasDone, runs>>
Fail == failures < MaxFailures /\ failures' = failures + 1 /\ RefuseDependency("install")

\* The package is asked for without the options. An org refuses a lower version.
InstallPackage ==
  LET p == Item.pkg
      newer == \E q \in org : q.repo = p.repo /\ q.version > p.version IN
  /\ depPhase = "install" /\ cursor <= Len(deps) /\ Item.kind = "package"
  /\ cache' = installed_packages
  /\ \/ /\ ~is_installable(p, FALSE) /\ cursor' = cursor + 1
        /\ UNCHANGED <<org, installed, depPhase, problem, failures>>
     \/ /\ is_installable(p, FALSE) /\ ~newer
        /\ org' = {q \in org : q.repo # p.repo} \cup {p} /\ installed' = Append(installed, p)
        /\ cursor' = cursor + 1 /\ UNCHANGED <<depPhase, problem, failures>>
     \/ is_installable(p, FALSE) /\ newer /\ RefuseDependency("install") /\ UNCHANGED <<org, installed, cursor, failures>>
     \/ is_installable(p, FALSE) /\ Fail /\ UNCHANGED <<org, installed, cursor>>
  /\ UNCHANGED <<deployed, Installing>>

\* What goes with a package is left out when the package is there already. The
\* tasks of a flow may have installed_packages forgotten.
DeployPart ==
  LET read == IF Item.pkg = NoPackage THEN cache ELSE installed_packages
      skipped == Item.pkg # NoPackage /\ ~is_installable(Item.pkg, world.force) IN
  /\ depPhase = "install" /\ cursor <= Len(deps) /\ Item.kind # "package"
  /\ \/ /\ skipped /\ cache' = read /\ cursor' = cursor + 1 /\ UNCHANGED <<deployed, depPhase, problem, failures>>
     \/ /\ ~skipped /\ deployed' = deployed \cup {Item} /\ cursor' = cursor + 1
        /\ cache' \in {read} \cup (IF Item.kind = "flow" THEN {Unread} ELSE {})
        /\ UNCHANGED <<depPhase, problem, failures>>
     \/ ~skipped /\ Fail /\ cache' = read /\ UNCHANGED <<deployed, cursor>>
  /\ UNCHANGED <<org, installed, Installing>>

_run_task ==
  /\ depPhase = "install" /\ cursor > Len(deps) /\ depPhase' = "done" /\ cache' = Unread
  /\ UNCHANGED <<problem, cursor, org, deployed, installed, failures, Installing>>

\* Somebody runs the task, and again.
StartRun ==
  /\ depPhase \in {"idle", "done", "failed"} /\ runs < MaxRuns /\ runs' = runs + 1
  /\ depPhase' = "loop" /\ problem' = "" /\ deps' = world.wanted /\ iteration' = 0 /\ cursor' = 1
  /\ cache' = Unread /\ installed' = <<>> /\ wasDone' = (wasDone \/ depPhase = "done")
  /\ UNCHANGED <<world, strategies, org, deployed, failures>>

DepStep == get_static_dependencies \/ ResolveDependencies \/ Flatten \/ InstallPackage \/ DeployPart \/ _run_task
DepNext == DepStep \/ StartRun

DepSpec == DepInit /\ [][DepNext]_depVars /\ WF_depVars(DepStep)

-----------------------------------------------------------------------------
(* What is claimed.                                                            *)

Range_(s) == {s[i] : i \in DOMAIN s}
AsRepo(r) == {d \in Range_(world.repos[r].deps) : d.kind = "repo"}
RepoNames(S) == {d.repo : d \in S}
After(S) == UNION {RepoNames(AsRepo(r)) : r \in S \ world.ignored} \ world.ignored
Reached(r) ==
  LET f[n \in 0..Cardinality(Repo)] == IF n = 0 THEN After({r}) ELSE LET S == f[n - 1] IN S \cup After(S) IN
  f[Cardinality(Repo)]
Direct == RepoNames({d \in Range_(world.wanted) : d.kind = "repo"}) \ world.ignored
Needed == Direct \cup UNION {Reached(r) : r \in Direct}
Cyclic == \E r \in Needed : r \in Reached(r)
Static == depPhase \in {"install", "done"}

\* Everything a repository needs is in the list, and before anything of the
\* repository itself, however deep the dependencies are and however often and
\* in which order the repositories are named.
NeededComeFirst ==
  Static =>
    \A r \in Needed : \A q \in Reached(r) :
      /\ \E j \in DOMAIN deps : deps[j].repo = r
      /\ \A j \in DOMAIN deps : deps[j].repo = r =>
           \E i \in 1..(j - 1) : deps[i].repo = q /\ deps[i].kind # "repo"

\* Repositories that depend on each other are refused, by the limit of the
\* iterations and by nothing else; the limit stops nobody else.
OnlyCyclesExceedTheLimit ==
  /\ Static => ~Cyclic
  /\ problem = "iterations" => Cyclic

\* Of a repository that is ignored, and of those only it needs, nothing is left
\* but packages that are named elsewhere; a package of a namespace that is
\* ignored is left nowhere.
NamedPackages == {d \in Range_(world.wanted) \cup UNION {Range_(world.repos[r].deps) : r \in Needed} : d.kind = "package"}
IgnoredStayAway ==
  Static => LET needed == Needed named == NamedPackages IN \A d \in Range_(deps) :
    /\ d.repo \in needed \/ d \in named
    /\ d.kind = "package" /\ d.pkg.by = "namespace" => d.repo \notin world.ignoredPackages

\* No package and no part is deployed twice from one list, and of each
\* repository a commit is chosen once: by its pin where it has one, or else by
\* the first strategy that finds any.
ChosenOnceByTheFirst ==
  Static =>
    /\ IsInjective(deps)
    /\ \A i \in DOMAIN deps :
         LET d == deps[i] IN
         d.kind \in {"src", "folder", "flow"} =>
           IF world.pins[d.repo] # NoTag THEN d.ref = world.pins[d.repo]
           ELSE \A k \in DOMAIN strategies : strategies[k] = d.ref =>
                  \A l \in 1..(k - 1) : world.found[d.repo][strategies[l]] \in {"nothing", "error"}
                                        \/ ~can_resolve(strategies[l], [d EXCEPT !.tag = NoTag])

\* Where no repository is also named as a package: a first run that succeeds
\* has deployed every part, although the packages appear in the org on the way
\* and installed_packages may be read anew at any flow.
NamedAsPackage ==
  \E d \in Range_(world.wanted) \cup UNION {Range_(world.repos[r].deps) : r \in Repo} : d.kind = "package"
FirstRunIsComplete ==
  depPhase = "done" /\ runs = 1 /\ ~NamedAsPackage =>
    \A i \in DOMAIN deps : deps[i].kind # "package" => deps[i] \in deployed

\* Once everything is installed the task installs no package again, whatever
\* failed before.
UpToDateStays == wasDone => installed = <<>>

\* Forced, a run repeated after a failure leaves no part out, if the package is
\* one known by its id.
ForcedRunIsComplete ==
  depPhase = "done" /\ world.force =>
    \A i \in DOMAIN deps : deps[i].kind # "package" /\ deps[i].pkg.by = "id" => deps[i] \in deployed

\* Every update of the dependencies ends, also where repositories depend on each other: a
\* pass over them brings back what the pass before has replaced, and only the limit of
\* the iterations stops that.
UpdateEnds == depPhase \in Moving ~> depPhase \in {"done", "failed"}

-----------------------------------------------------------------------------
(* What the documentation says and the code does not do.                       *)

\* "Target org is a persistent org; removing Beta resolvers."
NoBetaInPersistentOrg ==
  ~world.scratch => \A p \in Range_(installed) : p.version \notin {Version[s] : s \in CommitStatus \cup {"latest_beta"}}

\* force_pre_post_install: "Forces the dependency_flow_pre flows and
\* dependency_flow_post flows to run even if the dependency version is already
\* installed."
ForcedFlowsRun ==
  depPhase = "done" /\ world.force => \A i \in DOMAIN deps : deps[i].kind = "flow" => deps[i] \in deployed

\* "use the tag option to specify a tag from the target repository": a tag
\* that is not there is passed over, and the main branch is deployed.
TagIsUsed ==
  Static => \A d \in Range_(world.wanted) : d.kind = "repo" /\ d.tag # NoTag /\ d.repo \notin world.ignored =>
    \E e \in Range_(deps) : e.repo = d.repo /\ e.ref \in {d.tag, NoRef}

\* ignore_dependencies: "List of dependencies to be ignored": one that cannot
\* be resolved still ends the task.
IgnoredCannotFail ==
  problem = "unresolved" => \E i \in Unresolved : deps[i].repo \notin world.ignored

\* "the dependency specifies unmanaged: True, so EDA deploys as unmanaged metadata."
UnmanagedIsDeployed ==
  Static => \A d \in Range_(world.wanted) : d.kind = "repo" /\ d.unmanaged /\ d.repo \notin world.ignored =>
    \E e \in Range_(deps) : e.repo = d.repo /\ e.kind = "src"
=============================================================================
