----------------------------- MODULE ApexTests -----------------------------
(***************************************************************************)
(* A run of the Apex tests of an org (cumulusci/tasks/apex/testrunner.py): *)
(* the selected classes in one job, then, if the failures allow it, each   *)
(* failed method again in a job of its own, and the coverage at the end.   *)
(* Outcomes come both by method and by class.  The classes may be narrowed *)
(* to those of the package, or to those named after what has changed in    *)
(* the checkout (cumulusci/vcs/utils/list_modified_files.py).  The last    *)
(* section is about batch jobs (cumulusci/tasks/apex/batch.py).            *)
(***************************************************************************)
EXTENDS Integers, Sequences, FiniteSets, SequencesExt, FiniteSetsExt, Functions

CONSTANTS
  ClassOrder,   \* the test classes, in the order of their names
  Methods,      \* the test methods of each
  ClassName,    \* their names, in lower case, as sequences of words
  Checkouts,    \* the checkouts the task may be run in
  MaxUnnamed    \* in how many classes a result comes without the name of its method

TestClass == ToSet(ClassOrder)

ASSUME ApexAssumption ==
  /\ IsInjective(ClassOrder) /\ DOMAIN Methods = TestClass /\ MaxUnnamed \in Nat

VARIABLES
  apexPc,
  checkout,    \* the checkout that narrows the classes, while it does
  setting,     \* the options of the task
  results,     \* results_by_class_name; "none" where there is no result yet
  unnamed,     \* the classes that had a result without the name of a method
  counts,      \* counts["Fail"], counts["Retriable"]
  job,         \* server: the methods of the current job, by class
  items,       \* server: the status of the job's queue item of each class
  ran,         \* server: the last outcome of each method
  retry_details,   \* the methods to run again, by class
  unchecked    \* the classes _process_test_results has not come to

apexVars == <<apexPc, checkout, setting, results, unnamed, counts, job, items, ran, retry_details,
              unchecked>>

\* A failure is "Flaky" if its message matches retry_failures.
Failure == {"Fail", "Flaky"}
Outcome == {"none", "Pass"} \cup Failure

Setting == [always : BOOLEAN, managed : BOOLEAN, filtered : BOOLEAN]

\* A percentage is 0, 1 or 2; in "individual" -1 is for a class without a requirement, in
\* "classes" for one without lines.
Demand == [org : 0..1, perClass : 0..1, individual : [TestClass -> -1..2]]
Coverage == [org : 0..1, classes : [TestClass -> -1..2]]

ApexTypeOK ==
  /\ apexPc \in {"idle", "select", "wait", "retrying", "retryWait", "process", "lateRetry",
                 "lateWait", "coverage", "passed", "failed"}
  /\ setting \in Setting
  /\ \A c \in TestClass :
       /\ results[c] \in [Methods[c] -> Outcome] /\ ran[c] \in [Methods[c] -> Outcome]
       /\ job[c] \subseteq Methods[c] /\ retry_details[c] \subseteq Methods[c]
  /\ unnamed \subseteq TestClass
  /\ counts \in [Fail : Nat, Retriable : Nat]
  /\ items \in [TestClass -> {"none", "Queued", "Completed", "Failed"}]
  /\ unchecked \in 1..(Len(ClassOrder) + 1)

NoMethods == [c \in TestClass |-> {}]
NoResults == [c \in TestClass |-> [m \in Methods[c] |-> "none"]]

\* _init_class
ApexInit ==
  /\ apexPc = "idle" /\ checkout = <<>>
  /\ setting = [always |-> FALSE, managed |-> FALSE, filtered |-> FALSE]
  /\ results = NoResults /\ ran = NoResults /\ unnamed = {}
  /\ counts = [Fail |-> 0, Retriable |-> 0]
  /\ job = NoMethods /\ items = [c \in TestClass |-> "none"]
  /\ retry_details = NoMethods /\ unchecked = 1

-----------------------------------------------------------------------------
(* The job and its server.                                                 *)

\* _enqueue_test_run
Enqueue(methods) ==
  /\ job' = methods
  /\ items' = [c \in TestClass |-> IF methods[c] = {} THEN "none" ELSE "Queued"]

\* Any of the classes the options name; none ends the run.
Run(classes, filtered) ==
  /\ setting' \in {s \in Setting : s.filtered = filtered}
  /\ Enqueue([c \in TestClass |-> IF c \in classes THEN Methods[c] ELSE {}])
  /\ apexPc' = IF classes = {} THEN "passed" ELSE "wait"
  /\ UNCHANGED <<results, unnamed, counts, ran, retry_details, unchecked>>

\* _get_test_classes, without a dynamic filter.
SelectClasses ==
  /\ apexPc = "idle" /\ \E queried \in SUBSET TestClass : Run(queried, FALSE)
  /\ UNCHANGED checkout

-----------------------------------------------------------------------------
(* The dynamic filter.                                                     *)

\* A file of the checkout: its directories, the words of its name, its extension, and its
\* content on the branches it may be compared with, at HEAD and in the working tree, 0 where it
\* is not there.
IsCheckout(c) ==
  /\ c.filter \in {"package_only", "delta_changes"} /\ c.default_package_path \in Seq(STRING) \ {<<>>}
  /\ c.repo \in BOOLEAN
  /\ c.candidates \in Seq(STRING)   \* get_parent_branch_candidates
  /\ \A b \in c.branches \cup c.refs : b \in STRING   \* the branches of the repository; what git knows
  /\ \A f \in c.files :
       /\ f.dir \in Seq(STRING) /\ f.words \in Seq(STRING) /\ f.ext \in STRING
       /\ ToSet(c.candidates) \cup {"main"} \subseteq DOMAIN f.base /\ f.tracked \in BOOLEAN
       /\ ~f.tracked => f.head = 0 /\ \A b \in DOMAIN f.base : f.base[b] = 0

ASSUME CheckoutAssumption ==
  ClassName \in [TestClass -> Seq(STRING)] /\ \A c \in Checkouts : IsCheckout(c)

OpenCheckout ==
  /\ apexPc = "idle" /\ apexPc' = "select" /\ checkout' \in Checkouts
  /\ UNCHANGED <<setting, results, unnamed, counts, job, items, ran, retry_details, unchecked>>

_class_exists_in_package(c) ==
  \E f \in checkout.files :
    f.work # 0 /\ IsPrefix(checkout.default_package_path, f.dir) /\ f.ext = "cls" /\ f.words = ClassName[c]

\* The nearest parent the repository has, or else the default branch; the option base_ref, which
\* takes the place of both, is left out.
_get_reference_branch ==
  LET found == SelectSeq(checkout.candidates, LAMBDA b : b \in checkout.branches)
  IN  IF found = <<>> THEN "main" ELSE found[1]

\* What git tells of the working tree against the branch and against HEAD.
_get_git_changed_files ==
  IF _get_reference_branch \notin checkout.refs THEN {}
  ELSE {f \in checkout.files :
          f.tracked /\ (f.work # f.base[_get_reference_branch] \/ f.work # f.head)}

\* Only the last part of the package's path counts, and is compared with the first of a file's.
_filter_package_changed_files(files) ==
  {f \in files : /\ f.dir # <<>> /\ f.dir[1] \in {"force-app", Last(checkout.default_package_path)}
                 /\ f.ext \in {"cls", "flow-meta.xml", "trigger"}}

_extract_file_names_from_files(files) == {f.words : f \in files}

AffectedNames == _extract_file_names_from_files(_filter_package_changed_files(_get_git_changed_files))

Without_(words) == SelectSeq(words, LAMBDA w : w # "_")

_is_test_class_affected(name, affected) ==
  \E a \in affected :
    \/ name \in {a, a \o <<"test">>, <<"test">> \o a, Without_(a) \o <<"test">>}
    \/ IsPrefix(a \o <<"_">>, name) \/ IsPrefix(<<"test">> \o a \o <<"_">>, name)

_filter_test_classes_to_delta_changes(classes) ==
  IF checkout.repo THEN {c \in classes : _is_test_class_affected(ClassName[c], AffectedNames)}
  ELSE classes

_filter_package_classes(classes) ==
  IF checkout.filter = "package_only" THEN {c \in classes : _class_exists_in_package(c)}
  ELSE _filter_test_classes_to_delta_changes(classes)

FilterClasses ==
  /\ apexPc = "select" /\ checkout' = <<>>
  /\ \E queried \in SUBSET TestClass : Run(_filter_package_classes(queried), TRUE)

-----------------------------------------------------------------------------
(* The server.                                                             *)

\* A class is completed with an outcome for each method, or failed: then some of its
\* methods may have none.
ServerRuns ==
  \E c \in TestClass, end \in {"Completed", "Failed"} :
    /\ items[c] = "Queued"
    /\ items' = [items EXCEPT ![c] = end]
    /\ \E out \in [job[c] -> IF end = "Failed" THEN Outcome ELSE Outcome \ {"none"}] :
         ran' = [ran EXCEPT ![c] = [m \in Methods[c] |->
                   IF m \in job[c] THEN out[m] ELSE ran[c][m]]]
    /\ UNCHANGED <<apexPc, checkout, setting, results, unnamed, counts, job, retry_details,
                   unchecked>>

-----------------------------------------------------------------------------
(* Results.                                                                *)

FailedItems == {c \in TestClass : items[c] = "Failed"}

\* Mutant: a result that is there is not replaced.
OwnResultFirst(c, m) ==
  IF results[c][m] = "none" /\ m \in job[c] THEN ran[c][m] ELSE results[c][m]

\* What a method's own result says, old results included.
OwnResult(c, m) ==
  IF m \in job[c] /\ ran[c][m] # "none" THEN ran[c][m] ELSE results[c][m]

\* The methods of a failed class that get the error of the class; those of a managed
\* class are not known.
Synthesized(c) ==
  IF c \in FailedItems /\ ~setting.managed
  THEN {m \in Methods[c] : OwnResult(c, m) \in {"none"} \cup Failure} ELSE {}

\* _get_test_results; error says whether the message of a failed class matches.
GetResults(error) ==
  /\ results' = [c \in TestClass |-> [m \in Methods[c] |->
                   IF m \in Synthesized(c) THEN error ELSE OwnResult(c, m)]]
  /\ \E c \in SUBSET {c \in TestClass : job[c] # {}} :
       unnamed' = unnamed \cup c /\ Cardinality(unnamed') <= MaxUnnamed

\* Every failed result counts, and every synthesized one again.
NewFailures ==
  LET byMethod(c) == Cardinality({m \in job[c] : ran[c][m] \in Failure})
  IN MapThenSumSet(LAMBDA c : byMethod(c) + Cardinality(Synthesized(c)), TestClass)

\* A result without a name is neither a failure nor a success.
RetryDetails(c) ==
  {m \in Methods[c] : results'[c][m] = "Flaky" \/ (setting.always /\ results'[c][m] = "Fail")}

\* Mutant: a class that failed is waited for.
AllEndedCompleted == \A c \in TestClass : items[c] \in {"none", "Completed"}

\* _poll_action
AllEnded == \A c \in TestClass : items[c] # "Queued"

\* Mutant: any failure that matches allows the retries.
AbleToRetryAny(fail, retriable) == retriable > 0

able_to_retry(fail, retriable) == retriable > 0 /\ (setting.always \/ retriable = fail)

\* _wait_for_tests, _get_test_results, and what _run_task does with them.
CollectAll ==
  /\ apexPc = "wait" /\ AllEnded
  /\ \E error \in Failure : GetResults(error)
  /\ LET flaky == MapThenSumSet(LAMBDA c : Cardinality({m \in Methods[c] : results'[c][m] = "Flaky"}),
                                TestClass)
     IN IF able_to_retry(counts.Fail + NewFailures, flaky)
        THEN /\ counts' = [Fail |-> 0, Retriable |-> flaky]
             /\ retry_details' = [c \in TestClass |-> RetryDetails(c)]
             /\ apexPc' = "retrying"
        ELSE /\ counts' = [Fail |-> counts.Fail + NewFailures, Retriable |-> 0]
             /\ apexPc' = "process" /\ UNCHANGED retry_details
  /\ UNCHANGED <<checkout, setting, job, items, ran, unchecked>>

\* _attempt_retries: one method at a time, in a job of its own.
RetryNext ==
  /\ apexPc = "retrying"
  /\ IF \E c \in TestClass : retry_details[c] # {}
     THEN \E c \in TestClass : \E m \in retry_details[c] :
            /\ Enqueue([NoMethods EXCEPT ![c] = {m}])
            /\ retry_details' = [retry_details EXCEPT ![c] = @ \ {m}]
            /\ apexPc' = "retryWait"
     ELSE apexPc' = "process" /\ UNCHANGED <<job, items, retry_details>>
  /\ UNCHANGED <<checkout, setting, results, unnamed, counts, ran, unchecked>>

\* Mutant: the failures of each retry are forgotten at the next.
CollectRetryForgets ==
  /\ apexPc = "retryWait" /\ AllEnded
  /\ \E error \in Failure : GetResults(error)
  /\ counts' = [counts EXCEPT !.Fail = NewFailures]
  /\ apexPc' = "retrying"
  /\ UNCHANGED <<checkout, setting, job, items, ran, retry_details, unchecked>>

CollectRetry ==
  /\ apexPc = "retryWait" /\ AllEnded
  /\ \E error \in Failure : GetResults(error)
  /\ counts' = [counts EXCEPT !.Fail = @ + NewFailures]
  /\ apexPc' = "retrying"
  /\ UNCHANGED <<checkout, setting, job, items, ran, retry_details, unchecked>>

\* _process_test_results: a class with a result without a name is run again, and the
\* count of failures starts again with it.
LateRetry ==
  /\ apexPc = "process" /\ unchecked \in DOMAIN ClassOrder
  /\ LET c == ClassOrder[unchecked] IN
       IF c \in unnamed
       THEN /\ Enqueue([NoMethods EXCEPT ![c] = Methods[c]])
            /\ counts' = [Fail |-> 0, Retriable |-> counts.Retriable + 1]
            /\ apexPc' = "lateWait"
       ELSE UNCHANGED <<apexPc, counts, job, items>>
  /\ unchecked' = unchecked + 1
  /\ UNCHANGED <<checkout, setting, results, unnamed, ran, retry_details>>

CollectLate ==
  /\ apexPc = "lateWait" /\ AllEnded
  /\ \E error \in Failure : GetResults(error)
  /\ counts' = [counts EXCEPT !.Fail = @ + NewFailures]
  /\ apexPc' = "process"
  /\ UNCHANGED <<checkout, setting, job, items, ran, retry_details, unchecked>>

\* What is required of single classes only is not asked for.
CoverageIsAsked(required) == required.org > 0 \/ required.perClass > 0

\* The end of _run_task.
Report ==
  /\ apexPc = "process" /\ unchecked \notin DOMAIN ClassOrder
  /\ \/ counts.Fail > 0 /\ apexPc' = "failed"
     \/ counts.Fail = 0 /\ \E required \in Demand :
          apexPc' = IF CoverageIsAsked(required) /\ ~setting.managed /\ ~setting.filtered
                    THEN "coverage" ELSE "passed"
  /\ UNCHANGED <<checkout, setting, results, unnamed, counts, job, items, ran, retry_details,
                 unchecked>>

-----------------------------------------------------------------------------
(* Coverage: what is required, and what was found.                         *)

\* Mutant: the common requirement comes first.
RequiredCommonFirst(required, c) ==
  IF required.perClass > 0 THEN required.perClass ELSE required.individual[c]

\* The requirement of a class, -1 for none.
RequiredCoverage(required, c) ==
  IF required.individual[c] >= 0 THEN required.individual[c]
  ELSE IF required.perClass > 0 THEN required.perClass ELSE -1

\* A class without lines has the percentage of the class before it.
coverage_percentage(found) ==
  LET percent[i \in 0..Len(ClassOrder)] ==
        IF i = 0 THEN 0
        ELSE IF found[ClassOrder[i]] >= 0 THEN found[ClassOrder[i]]
        ELSE percent[i - 1]
  IN [i \in DOMAIN ClassOrder |-> percent[i]]

\* _check_code_coverage
CoverageMet(required, found) ==
  /\ \A i \in DOMAIN ClassOrder :
       coverage_percentage(found.classes)[i] >= RequiredCoverage(required, ClassOrder[i])
  /\ found.org >= required.org

CheckCoverage ==
  /\ apexPc = "coverage"
  /\ \E required \in Demand, found \in Coverage :
       /\ CoverageIsAsked(required)
       /\ apexPc' = IF CoverageMet(required, found) THEN "passed" ELSE "failed"
  /\ UNCHANGED <<checkout, setting, results, unnamed, counts, job, items, ran, retry_details,
                 unchecked>>

TaskStep ==
  \/ FilterClasses \/ CollectAll \/ RetryNext \/ CollectRetry \/ LateRetry \/ CollectLate \/ Report
  \/ CheckCoverage

ApexNext == SelectClasses \/ OpenCheckout \/ TaskStep \/ ServerRuns

ApexSpec == ApexInit /\ [][ApexNext]_apexVars

ApexFairness == WF_apexVars(TaskStep) /\ WF_apexVars(ServerRuns)

-----------------------------------------------------------------------------
(* Properties.                                                             *)

\* A run that passes shows no failed result, whatever was run again and in whatever
\* order.  (Not so for managed classes, see ClassFailuresReported, nor after a result
\* without the name of a method, where LateRetry loses the count.)
PassedWithoutFailures ==
  apexPc = "passed" /\ ~setting.managed /\ unnamed = {} => \A c \in TestClass : \A m \in Methods[c] :
    results[c][m] \notin Failure

\* A method that passed in its last run is shown as passed, unless its class failed.
LastOutcomeCounts ==
  apexPc \in {"process", "coverage", "passed"} =>
    \A c \in TestClass : \A m \in Methods[c] :
      ran[c][m] = "Pass" => results[c][m] = "Pass" \/ items[c] = "Failed" \/ counts.Fail > 0

\* Without retry_always, methods are run again only if no failure of the first run
\* is of a kind that is not to be retried.
RetriedOnlyIfAllMatch ==
  [][apexPc = "wait" /\ apexPc' = "retrying" /\ ~setting.always =>
       \A c \in TestClass : \A m \in Methods[c] : results'[c][m] # "Fail"]_apexVars

\* Where something is required of the org or of every class, coverage that is met is met by every
\* class that has lines, each by its own requirement or else the common one, whatever classes
\* without lines come between.  (Not so where single classes have a requirement and nothing else
\* does, see ClassRequirementsCount.)
CoverageIsEnforced == apexPc = "coverage" =>
  \A required \in Demand, found \in Coverage : CoverageIsAsked(required) /\ CoverageMet(required, found) =>
    \A c \in TestClass : found.classes[c] >= 0 =>
      found.classes[c] >= (IF required.individual[c] >= 0 THEN required.individual[c]
                           ELSE required.perClass)

\* A change is a commit the branch has and its reference does not, or one not committed yet.
ChangedIn(f) == f.head # f.base[_get_reference_branch] \/ f.work # f.head

\* The classes named after what is changed in a package at the top of the checkout are run, as
\* far as git knows the reference and the files; and no others are: also where what a commit did
\* is undone in the working tree.
ChangesAreTested ==
  apexPc = "select" /\ checkout.filter = "delta_changes" /\ checkout.repo =>
    LET run == _filter_package_classes(TestClass)
        changed == {f \in checkout.files : f.tracked /\ ChangedIn(f)}
    IN  /\ \A c \in run : \E f \in changed :
             Without_(f.words) = SelectSeq(ClassName[c], LAMBDA w : w \notin {"_", "test"})
             \/ IsPrefix(f.words, ClassName[c]) \/ IsPrefix(<<"test">> \o f.words, ClassName[c])
        /\ \A c \in TestClass, f \in changed :
             /\ _get_reference_branch \in checkout.refs /\ Len(checkout.default_package_path) = 1
             /\ IsPrefix(checkout.default_package_path, f.dir) /\ f.ext \in {"cls", "trigger"}
             /\ ClassName[c] \in {f.words, f.words \o <<"test">>, <<"test">> \o f.words}
             => c \in run

\* The run ends when its jobs do.
ApexEnds == apexPc # "idle" ~> apexPc \in {"passed", "failed"}

\* Does not hold.  "If we have class-level failures that did not come with line-level
\* failure details, report those as well." (testrunner.py:659): not for a managed class.
ClassFailuresReported ==
  apexPc = "passed" => \A c \in TestClass :
    items[c] = "Failed" => \A m \in Methods[c] : ran[c][m] # "none"

\* Does not hold.  "Mapping of class names to their minimum coverage percentage requirements"
\* (docs/salesforce/run_tests.md:134), with an example that gives this option alone, and the task
\* is to raise an error if "Code coverage requirements are not met" (:424): given alone it is not
\* looked at (testrunner.py:890), and the run passes.
ClassRequirementsCount ==
  apexPc = "process" /\ unchecked \notin DOMAIN ClassOrder /\ counts.Fail = 0
    /\ ~setting.managed /\ ~setting.filtered =>
    \A required \in Demand : (\E c \in TestClass : required.individual[c] > 0) => CoverageIsAsked(required)

\* Does not hold.  "Monitors changes in `force-app/` and `src/` directories"
\* (docs/salesforce/run_tests.md:209): only in those that are the package's, or force-app.
BothAreMonitored ==
  apexPc = "select" /\ checkout.filter = "delta_changes" /\ _get_reference_branch \in checkout.refs =>
    \A f \in checkout.files :
      f.tracked /\ ChangedIn(f) /\ f.ext = "cls" /\ f.dir # <<>> /\ f.dir[1] \in {"force-app", "src"}
        => f.words \in AffectedNames

\* Does not hold.  "only runs test classes that are affected by the delta changes in the current
\* branch" (testrunner.py:248): a path of the package with a directory above it is not found.
PackageIsMonitored ==
  apexPc = "select" /\ checkout.filter = "delta_changes" /\ _get_reference_branch \in checkout.refs =>
    \A f \in checkout.files :
      f.tracked /\ ChangedIn(f) /\ f.ext = "cls" /\ IsPrefix(checkout.default_package_path, f.dir)
        => f.words \in AffectedNames

-----------------------------------------------------------------------------
(***************************************************************************)
(* The wait for a batch or queueable Apex job (cumulusci/tasks/apex/       *)
(* batch.py), polled with BaseTask._poll (core/tasks.py).  A job may start *)
(* another of its class, so that the jobs form a chain.                    *)
(***************************************************************************)

CONSTANTS
  MaxJobs,    \* the jobs of the class, those before the task included
  MaxPolls    \* bound on poll_count

ASSUME BatchAssumption == MaxJobs \in Nat /\ MaxPolls \in Nat

VARIABLES
  batchPc,
  apexJobs,   \* server: the status and the errors of each job, oldest first
  since,      \* original_created_date: the job it is the date of; 0 for none
  subjobs,    \* the jobs as last read
  poll        \* poll_complete, poll_count, poll_interval_level, poll_interval_s

batchVars == <<batchPc, apexJobs, since, subjobs, poll>>

COMPLETED_STATUSES == {"Completed", "Aborted", "Failed"}

Job == [status : {"Processing"} \cup COMPLETED_STATUSES, errors : 0..1]

BatchTypeOK ==
  /\ batchPc \in {"idle", "polling", "sleeping", "passed", "failed"}
  /\ apexJobs \in Seq(Job) /\ Len(apexJobs) <= MaxJobs
  /\ since \in 0..MaxJobs
  /\ subjobs \in Seq(Job)
  /\ poll \in [complete : BOOLEAN, count : 0..MaxPolls, level : Nat, interval : Nat]

\* BaseTask._reset_poll
_reset_poll == [complete |-> FALSE, count |-> 0, level |-> 0, interval |-> 1]

BatchInit ==
  /\ batchPc = "idle" /\ apexJobs = <<>> /\ since = 0 /\ subjobs = <<>>
  /\ poll = _reset_poll

-----------------------------------------------------------------------------
\* The first job, and then each job may start the next before it ends.
JobStarts ==
  /\ Len(apexJobs) < MaxJobs
  /\ apexJobs # <<>> => Last(apexJobs).status = "Processing"
  /\ apexJobs' = Append(apexJobs, [status |-> "Processing", errors |-> 0])
  /\ UNCHANGED <<batchPc, since, subjobs, poll>>

JobEnds ==
  \E i \in DOMAIN apexJobs, end \in COMPLETED_STATUSES, n \in 0..1 :
    /\ apexJobs[i].status = "Processing"
    /\ apexJobs' = [apexJobs EXCEPT ![i] = [status |-> end, errors |-> n]]
    /\ UNCHANGED <<batchPc, since, subjobs, poll>>

StartWait ==
  /\ batchPc = "idle" /\ batchPc' = "polling"
  /\ UNCHANGED <<apexJobs, since, subjobs, poll>>

\* Mutant: each poll asks for the last job only.
_batch_queryLast(date_limit) == SubSeq(apexJobs, Len(apexJobs), Len(apexJobs))

\* Without a date the last job, with one all the jobs since.
_batch_query(date_limit) ==
  IF date_limit = 0 THEN SubSeq(apexJobs, Len(apexJobs), Len(apexJobs))
  ELSE SubSeq(apexJobs, date_limit, Len(apexJobs))

\* Mutant: a job that failed is waited for.
CompletedNotFailed(jobs) == \A i \in DOMAIN jobs : jobs[i].status = "Completed"

Completed(jobs) == \A i \in DOMAIN jobs : jobs[i].status \in COMPLETED_STATUSES

NoJob ==
  /\ batchPc = "polling" /\ apexJobs = <<>>
  /\ batchPc' = "failed"
  /\ UNCHANGED <<apexJobs, since, subjobs, poll>>

\* One round of _poll with its _poll_action.
PollJobs ==
  /\ batchPc = "polling" /\ apexJobs # <<>>
  /\ subjobs' = _batch_query(since)
  /\ since' = IF since = 0 THEN Len(apexJobs) ELSE since
  /\ poll' = [poll EXCEPT !.count = IF @ < MaxPolls THEN @ + 1 ELSE @, !.complete = Completed(subjobs')]
  /\ batchPc' = "sleeping"
  /\ UNCHANGED apexJobs

\* Mutant: the level is not kept.
_poll_update_intervalFast ==
  poll' = IF poll.count \div 3 > poll.level THEN [poll EXCEPT !.interval = @ + 1] ELSE poll

\* One second more every three polls.
_poll_update_interval ==
  poll' = IF poll.count \div 3 > poll.level
          THEN [poll EXCEPT !.level = @ + 1, !.interval = @ + 1] ELSE poll

Sleep ==
  /\ batchPc = "sleeping" /\ ~poll.complete
  /\ _poll_update_interval
  /\ batchPc' = "polling"
  /\ UNCHANGED <<apexJobs, since, subjobs>>

\* summarize_subjobs, failed_batches and the end of _run_task.
Summarize ==
  /\ batchPc = "sleeping" /\ poll.complete
  /\ batchPc' = IF \A i \in DOMAIN subjobs :
                     subjobs[i].status = "Completed" /\ subjobs[i].errors = 0
                THEN "passed" ELSE "failed"
  /\ UNCHANGED <<apexJobs, since, subjobs, poll>>

WaitStep == StartWait \/ NoJob \/ PollJobs \/ Sleep \/ Summarize

BatchNext == JobStarts \/ JobEnds \/ WaitStep

BatchSpec == BatchInit /\ [][BatchNext]_batchVars

BatchFairness == WF_batchVars(WaitStep) /\ WF_batchVars(JobEnds)

-----------------------------------------------------------------------------
(* Properties.                                                             *)

\* The task passes only when the whole chain, from the job it first saw on, has ended
\* without an error: no link that ended between two polls is missed.
PassedWithTheWholeChain ==
  batchPc = "passed" =>
    \A i \in since..Len(apexJobs) : apexJobs[i] = [status |-> "Completed", errors |-> 0]

\* The interval grows with the polls, and no faster.
IntervalFollowsCount ==
  batchPc = "polling" => poll.level = poll.count \div 3 /\ poll.interval = poll.level + 1

\* The wait ends when the jobs have, however they ended.
WaitEnds == batchPc # "idle" ~> batchPc \in {"passed", "failed"}
=============================================================================
