--------------------------- MODULE ProjectSources ---------------------------
(* Projects that are used by other projects. A command looks a project up by  *)
(* the spec its configuration gives it, and once for each spec: the spec is    *)
(* resolved to a commit of the repository, whose files are extracted into a    *)
(* directory of the cache that later commands, and others that run, share.     *)
(* People push and publish meanwhile; a command may fail or be killed. The     *)
(* second machine reads the commit of the project's own checkout, which git    *)
(* changes meanwhile.                                                          *)
EXTENDS Integers, Sequences, FiniteSets, SequencesExt

CONSTANTS
  SourceRepo,     \* the repositories of sources
  Releasing,      \* those of them that publish releases
  SourceFile,     \* the files of an archive
  SourcesOf,      \* by project, the specs in its configuration
  Runner,         \* the commands that run at once
  CoBranch,       \* the branches of the checkout
  Environs,       \* the environments the commit is read in
  MaxServed, MaxFetches, MaxRunnerEnds, MaxCheckoutCommits, MaxGitMoves

ASSUME ProjectSourcesAssumption ==
  /\ Releasing \subseteq SourceRepo
  /\ {MaxFetches, MaxRunnerEnds, MaxGitMoves} \subseteq Nat /\ {MaxServed, MaxCheckoutCommits} \subseteq Nat \ {0}
  /\ "root" \in DOMAIN SourcesOf
  /\ \A r \in DOMAIN SourcesOf : \A spec \in SourcesOf[r] :
       /\ spec.repo \in DOMAIN SourcesOf /\ spec.code \in BOOLEAN /\ spec.what \in Nat
       /\ spec.by = "folder"
            \/ (spec.repo \in SourceRepo
                /\ spec.by \in {"commit", "ref", "branch", "tag", "latest", "latest_beta", "previous", "strategy"})
  /\ {"none", "detached"} \cap CoBranch = {}
  /\ \A e \in Environs : e.branch # "detached" /\ e.testBranch # "detached"

VARIABLES
  served,       \* all that the server has been, the latest last
  projectDirs,  \* by directory of the cache, how much there is of each file
  runners,      \* by command, what it has loaded and what it is doing
  touched,      \* by command, the directories others have written since it did
  fetches, runnerEnds,
  git,          \* the checkout: what HEAD names, the refs, loose and packed
  reader,       \* the command that asks for the commit
  pastRefs,     \* the commits each ref was at since the command began
  gitMoves

checkoutVars == <<git, reader, pastRefs, gitMoves>>
sourceVars == <<served, projectDirs, runners, touched, fetches, runnerEnds>>

Server == Last(served)
SourceProject(repo, commit, code) == [repo |-> repo, commit |-> commit, code |-> code]
Root == SourceProject("root", 0, TRUE)
Resting == [stage |-> "idle"]
Fresh == [included |-> <<>>, answers |-> {}, fetch |-> Resting, since |-> Len(served)]
Empty == [f \in SourceFile |-> "none"]
DirOf(project) == <<project.repo, project.commit>>
DirOfFetch(p) == <<runners[p].fetch.spec.repo, runners[p].fetch.commit>>

SourcesTypeOK ==
  /\ \A i \in DOMAIN served : served[i].heads \in [SourceRepo -> 1..MaxServed]
  /\ \A d \in DOMAIN projectDirs : projectDirs[d] \in [SourceFile -> {"none", "half", "whole"}]
  /\ \A p \in Runner :
       /\ runners[p].fetch.stage \in {"idle", "resolve", "download", "extract"}
       /\ runners[p].since \in 1..Len(served)
       /\ touched[p] \subseteq SourceRepo \X (0..MaxServed)

SourcesInit ==
  /\ served = <<[heads |-> [r \in SourceRepo |-> 1], releases |-> [r \in SourceRepo |-> <<>>]]>>
  /\ projectDirs = <<>>
  /\ runners = [p \in Runner |-> [included |-> <<>>, answers |-> {}, fetch |-> Resting, since |-> 1]]
  /\ touched = [p \in Runner |-> {}] /\ fetches = 0 /\ runnerEnds = 0

-----------------------------------------------------------------------------
(* The server.                                                                 *)

Serves(s) ==
  /\ Len(served) < MaxServed /\ served' = Append(served, s)
  /\ UNCHANGED <<projectDirs, runners, touched, fetches, runnerEnds>>

PushHead(r) ==
  Serves([Server EXCEPT !.heads[r] = @ + 1])

PublishRelease(r, beta) ==
  Serves([Server EXCEPT !.releases[r] = Append(@, [commit |-> Server.heads[r], beta |-> beta])])

Production(releases) == {i \in DOMAIN releases : ~releases[i].beta}
CommitOfNewest(releases, S) ==
  IF S = {} THEN 0 ELSE releases[CHOOSE i \in S : \A j \in S : j <= i].commit
Older(S) == {i \in S : \E j \in S : i < j}

\* A bug: betas are counted.
find_previous_releaseAny(releases) == CommitOfNewest(releases, Older(DOMAIN releases))

\* The second newest of the releases, betas left aside.
find_previous_release(releases) == CommitOfNewest(releases, Older(Production(releases)))

\* The newest of all, or of those that are no betas.
find_latest_release(releases, beta) ==
  CommitOfNewest(releases, IF beta THEN DOMAIN releases ELSE Production(releases))

\* The commit a spec means now, 0 if there is none. Without more said the release is
\* looked for, and the default branch taken if there is none.
resolve(server, spec) ==
  LET rs == server.releases[spec.repo] IN
  CASE spec.by = "commit"           -> spec.what
    [] spec.by \in {"ref", "branch"} -> server.heads[spec.repo]
    [] spec.by = "tag"              -> IF spec.what \in DOMAIN rs THEN rs[spec.what].commit ELSE 0
    [] spec.by = "latest"           -> find_latest_release(rs, FALSE)
    [] spec.by = "latest_beta"      -> find_latest_release(rs, TRUE)
    [] spec.by = "previous"         -> find_previous_release(rs)
    [] spec.by = "strategy"         ->
         IF Production(rs) = {} THEN server.heads[spec.repo] ELSE find_latest_release(rs, FALSE)

-----------------------------------------------------------------------------
(* A command.                                                                  *)

Fetching(p, f) == runners' = [runners EXCEPT ![p].fetch = f]
Stage(p, s) == runners[p].fetch.stage = s
Answer(p, asker, spec, project) == [asker |-> asker, spec |-> spec, project |-> project]

\* The command raises, or ends; the next starts with nothing loaded.
CommandEnds(p) == runners' = [runners EXCEPT ![p] = Fresh] /\ touched' = [touched EXCEPT ![p] = {}]

\* A bug: each asker loads its own.
KeptNot(included, asker, spec, project) == included

\* A project that is loaded is kept by its spec. A project that may not load code says so in
\* the spec itself, which is the key: one that allowed code is not found again.
Kept(included, asker, spec, project) ==
  IF ~asker.code /\ spec.code THEN included
  ELSE [x \in DOMAIN included \cup {spec} |-> IF x = spec THEN project ELSE included[x]]

Loaded(p, asker, spec, project) ==
  runners' = [runners EXCEPT
    ![p].fetch = Resting,
    ![p].included = Kept(@, asker, spec, project),
    ![p].answers = @ \cup {Answer(p, asker, spec, project)}]

\* A project asks for one of its sources, which is there, or a folder, or is fetched.
include_source(p, asker, spec) ==
  /\ Stage(p, "idle") /\ asker \in {Root} \cup {a.project : a \in runners[p].answers}
  /\ spec \in SourcesOf[asker.repo]
  /\ LET included == runners[p].included
         code == spec.code /\ asker.code IN
     IF spec \in DOMAIN included
     THEN /\ runners' = [runners EXCEPT ![p].answers = @ \cup {Answer(p, asker, spec, included[spec])}]
          /\ UNCHANGED fetches
     ELSE IF spec.by = "folder"
     THEN Loaded(p, asker, spec, SourceProject(spec.repo, 0, code)) /\ UNCHANGED fetches
     ELSE /\ fetches < MaxFetches /\ fetches' = fetches + 1
          /\ Fetching(p, [stage |-> "resolve", asker |-> asker, spec |-> spec])
  /\ UNCHANGED <<served, projectDirs, touched, runnerEnds>>

\* VCSSource is made with its commit; a release that does not exist is an error.
ResolveSpec(p) ==
  /\ Stage(p, "resolve")
  /\ LET f == runners[p].fetch
         commit == resolve(Server, f.spec) IN
     IF commit = 0 THEN CommandEnds(p)
     ELSE /\ Fetching(p, [stage |-> "download", asker |-> f.asker, spec |-> f.spec, commit |-> commit])
          /\ UNCHANGED touched
  /\ UNCHANGED <<served, projectDirs, fetches, runnerEnds>>

\* A bug: a directory that is there is taken for the project.
LeftIfNew(d) == IF d \in DOMAIN projectDirs THEN {} ELSE SourceFile

\* The directory is made before the archive is downloaded, and stays if that fails. All of
\* the archive is extracted, whatever is there.
Opened(d) == [e \in DOMAIN projectDirs \cup {d} |-> IF e \in DOMAIN projectDirs THEN projectDirs[e] ELSE Empty]
Left(d) == SourceFile

Download(p, works) ==
  /\ Stage(p, "download")
  /\ LET f == runners[p].fetch
         d == DirOfFetch(p) IN
     /\ projectDirs' = Opened(d)
     /\ IF works /\ f.commit <= Server.heads[f.spec.repo]
        THEN /\ Fetching(p, [stage |-> "extract", asker |-> f.asker, spec |-> f.spec, commit |-> f.commit,
                             left |-> Left(d), writing |-> {}, cut |-> FALSE])
             /\ touched' = [touched EXCEPT ![p] = @ \ {d}]
        ELSE CommandEnds(p)
  /\ UNCHANGED <<served, fetches, runnerEnds>>

\* What a command does in a directory the others see too.
Touches(p, d) == touched' = [q \in Runner |-> IF q = p THEN touched[q] ELSE touched[q] \cup {d}]

\* A file of the archive is opened, which cuts what others have written of it,
OpenFile(p, file) ==
  /\ Stage(p, "extract") /\ runners[p].fetch.writing = {} /\ file \in runners[p].fetch.left
  /\ LET d == DirOfFetch(p) IN
     /\ projectDirs' = [Opened(d) EXCEPT ![d][file] = "half"]
     /\ runners' = [q \in Runner |->
          IF q = p THEN [runners[q] EXCEPT !.fetch.writing = {file}, !.fetch.cut = FALSE]
          ELSE IF Stage(q, "extract") /\ DirOfFetch(q) = d /\ file \in runners[q].fetch.writing
          THEN [runners[q] EXCEPT !.fetch.cut = TRUE] ELSE runners[q]]
     /\ Touches(p, d)
  /\ UNCHANGED <<served, fetches, runnerEnds>>

\* and written: it is whole once the last who opened it is done.
WriteFile(p) ==
  /\ Stage(p, "extract") /\ runners[p].fetch.writing # {}
  /\ LET f == runners[p].fetch
         d == DirOfFetch(p) IN
     /\ projectDirs' = [e \in DOMAIN projectDirs |-> [x \in SourceFile |->
          IF e = d /\ x \in f.writing /\ ~f.cut /\ projectDirs[e][x] # "none" THEN "whole" ELSE projectDirs[e][x]]]
     /\ Fetching(p, [f EXCEPT !.left = @ \ f.writing, !.writing = {}])
     /\ Touches(p, d)
  /\ UNCHANGED <<served, fetches, runnerEnds>>

\* A file cannot be written: the directory is removed.
ExtractFails(p) ==
  /\ Stage(p, "extract") /\ runners[p].fetch.writing # {}
  /\ LET d == DirOfFetch(p) IN
     /\ projectDirs' = [e \in DOMAIN projectDirs \ {d} |-> projectDirs[e]]
     /\ touched' = [q \in Runner |-> IF q = p THEN {} ELSE touched[q] \cup {d}]
  /\ runners' = [runners EXCEPT ![p] = Fresh]
  /\ UNCHANGED <<served, fetches, runnerEnds>>

\* The configuration of the project is made of the files.
construct_subproject_config(p) ==
  /\ Stage(p, "extract") /\ runners[p].fetch.left = {}
  /\ LET f == runners[p].fetch IN
     Loaded(p, f.asker, f.spec, SourceProject(f.spec.repo, f.commit, f.spec.code /\ f.asker.code))
  /\ UNCHANGED <<served, projectDirs, touched, fetches, runnerEnds>>

\* A command ends, or is killed in the middle.
RunnerEnds(p) ==
  /\ runners[p] # Fresh /\ CommandEnds(p)
  /\ runnerEnds < MaxRunnerEnds /\ runnerEnds' = runnerEnds + 1
  /\ UNCHANGED <<served, projectDirs, fetches>>

SourcesNext ==
  \/ \E r \in SourceRepo : PushHead(r)
  \/ \E r \in Releasing, b \in BOOLEAN : PublishRelease(r, b)
  \/ \E p \in Runner :
       \/ \E asker \in {Root} \cup {a.project : a \in runners[p].answers} :
            \E spec \in SourcesOf[asker.repo] : include_source(p, asker, spec)
       \/ \E file \in SourceFile : OpenFile(p, file)
       \/ ResolveSpec(p) \/ WriteFile(p) \/ ExtractFails(p) \/ construct_subproject_config(p)
       \/ \E works \in BOOLEAN : Download(p, works)
       \/ RunnerEnds(p)

SourcesSpec == SourcesInit /\ [][SourcesNext]_sourceVars

-----------------------------------------------------------------------------

\* The files of a project that is used are all there, whatever earlier commands left of its
\* directory, unless another command has written there since.
LoadedIsWhole ==
  \A p \in Runner : Stage(p, "idle") => \A a \in runners[p].answers :
    LET d == DirOf(a.project) IN
    a.spec.by = "folder" \/ d \in touched[p]
      \/ (d \in DOMAIN projectDirs /\ \A f \in SourceFile : projectDirs[d][f] = "whole")

\* Projects of a command that name the same source use the same commit of it, although people
\* push meanwhile; unless it may load code and one of them may not.
SameSpecSameProject ==
  \A p \in Runner : \A a, b \in runners[p].answers :
    (a.spec = b.spec /\ (~a.spec.code \/ (a.asker.code /\ b.asker.code))) => a.project = b.project

\* What a spec is resolved to is what it meant at some moment since the command started.
Meant(server, spec, commit) ==
  LET rs == server.releases[spec.repo]
      Newest(i) == ~rs[i].beta /\ \A j \in i+1..Len(rs) : rs[j].beta IN
  CASE spec.by = "commit" -> commit = spec.what
    [] spec.by \in {"ref", "branch"} -> commit = server.heads[spec.repo]
    [] spec.by = "tag" -> spec.what \in DOMAIN rs /\ commit = rs[spec.what].commit
    [] spec.by = "latest_beta" -> rs # <<>> /\ commit = rs[Len(rs)].commit
    [] spec.by = "latest" -> \E i \in DOMAIN rs : Newest(i) /\ commit = rs[i].commit
    [] spec.by = "previous" ->
         \E i, j \in DOMAIN rs : /\ Newest(j) /\ i < j /\ ~rs[i].beta /\ commit = rs[i].commit
                                 /\ \A k \in i+1..j-1 : rs[k].beta
    [] spec.by = "strategy" ->
         IF \A i \in DOMAIN rs : rs[i].beta THEN commit = server.heads[spec.repo]
         ELSE \E i \in DOMAIN rs : Newest(i) /\ commit = rs[i].commit

AnswersWereMeant ==
  \A p \in Runner : \A a \in runners[p].answers :
    a.spec.by = "folder"
      \/ \E i \in runners[p].since..Len(served) : Meant(served[i], a.spec, a.project.commit)

-----------------------------------------------------------------------------
(* The commit of the checkout. The environment may say what the branch and the *)
(* commit are; without that, HEAD and the refs are read, one file at a time.   *)
(* In a worktree HEAD is its own and the refs are those of the main checkout,  *)
(* whose branch is another.                                                    *)

Detached == "detached"
NoRepoInfo == [branch |-> "none", commit |-> 0]

\* What the environment says: a build server's variables, then overrides, and on a build
\* server all of it or an error.
repo_info(e) ==
  LET built == IF e.heroku THEN [branch |-> e.testBranch, commit |-> e.testCommit] ELSE NoRepoInfo IN
  IF ~e.detect THEN NoRepoInfo
  ELSE [branch |-> IF e.branch # "none" THEN e.branch ELSE built.branch,
        commit |-> IF e.commit # 0 THEN e.commit ELSE built.commit]
ConfigErrorIn(e) ==
  e.detect /\ e.heroku /\ (repo_info(e).branch = "none" \/ repo_info(e).commit = 0 \/ ~e.url)

RefAt(g, b) == IF g.loose[b] # 0 THEN g.loose[b] ELSE g.packed[b]
Refs(g) == [r \in CoBranch \cup {Detached} |-> IF r = Detached THEN g.at ELSE RefAt(g, r)]

CheckoutTypeOK ==
  /\ git.head \in CoBranch \cup {Detached} /\ git.other \in CoBranch \cup {Detached}
  /\ \A f \in {git.loose, git.packed, git.origin, git.pushed} : f \in [CoBranch -> 0..MaxCheckoutCommits]
  /\ reader.at \in {"idle", "head", "loose", "packed", "done"}

\* A clone: the refs of the origin are packed; or a repository that was made here.
CheckoutInit ==
  /\ \E e \in Environs, main \in CoBranch, cloned \in BOOLEAN :
       /\ reader = [at |-> "idle", env |-> e, branch |-> "none", result |-> 0]
       /\ git = [head |-> main, at |-> 0, other |-> Detached, made |-> 1, hasPacked |-> cloned,
                 loose |-> [b \in CoBranch |-> IF b = main THEN 1 ELSE 0],
                 packed |-> [b \in CoBranch |-> 0],
                 origin |-> [b \in CoBranch |-> IF cloned THEN 1 ELSE 0],
                 pushed |-> [b \in CoBranch |-> IF cloned THEN 1 ELSE 0]]
  /\ pastRefs = [r \in CoBranch \cup {Detached} |-> {}] /\ gitMoves = 0

\* External: git moves, and a ref is at another commit.
GitMoves(g) ==
  /\ gitMoves < MaxGitMoves /\ gitMoves' = gitMoves + 1
  /\ git' = g /\ pastRefs' = [r \in DOMAIN pastRefs |-> pastRefs[r] \cup {Refs(g)[r]}]
  /\ UNCHANGED reader
GitCommit(b) ==
  /\ b \in {git.head, git.other} \ {Detached} /\ git.made < MaxCheckoutCommits
  /\ GitMoves([git EXCEPT !.made = @ + 1, !.loose[b] = git.made + 1])
Checkout(b) ==
  /\ b # git.head /\ b # git.other
  /\ GitMoves([git EXCEPT !.head = b, !.loose[b] = IF RefAt(git, b) = 0 THEN 1 ELSE @])
Detach(c) == c \in 1..git.made /\ git.head # Detached /\ GitMoves([git EXCEPT !.head = Detached, !.at = c])
CheckoutElsewhere(b) ==
  /\ reader.env.worktree /\ b # git.head /\ b # git.other /\ RefAt(git, b) # 0
  /\ GitMoves([git EXCEPT !.other = b])
PushBranch(b) == RefAt(git, b) # 0 /\ GitMoves([git EXCEPT !.pushed[b] = RefAt(git, b)])
PackRefs ==
  GitMoves([git EXCEPT !.packed = [b \in CoBranch |-> RefAt(git, b)], !.loose = [b \in CoBranch |-> 0],
                       !.origin = git.pushed, !.hasPacked = TRUE])

Reads(at, branch, result) ==
  /\ reader' = [reader EXCEPT !.at = at, !.branch = branch, !.result = result]
  /\ UNCHANGED <<git, pastRefs, gitMoves>>

\* The environment first; on a build server what it does not say is an error.
AskCommit ==
  /\ reader.at = "idle"
  /\ LET e == reader.env IN
     /\ reader' = [reader EXCEPT !.at = IF ConfigErrorIn(e) \/ repo_info(e).commit # 0 THEN "done" ELSE "head",
                                 !.result = IF ConfigErrorIn(e) THEN -1 ELSE repo_info(e).commit]
     /\ pastRefs' = [r \in DOMAIN pastRefs |-> {Refs(git)[r]}]
     /\ UNCHANGED <<git, gitMoves>>

\* HEAD is the worktree's own.
current_branch == git.head

\* The branch is the environment's, or HEAD's; a HEAD that names none is the commit.
repo_branch ==
  /\ reader.at = "head"
  /\ LET b == repo_info(reader.env).branch IN
     IF b = "none" /\ current_branch = Detached THEN Reads("done", Detached, git.at)
     ELSE Reads("loose", IF b = "none" THEN current_branch ELSE b, 0)

\* A bug: the refs are looked for beside the worktree's own HEAD.
LooseRefOfWorktree(b) == IF reader.env.worktree THEN 0 ELSE git.loose[b]

\* The ref is a file of the directory that all worktrees share,
LooseRef(b) == git.loose[b]
LooseCommit ==
  /\ reader.at = "loose"
  /\ LET b == reader.branch IN
     IF b \in CoBranch /\ LooseRef(b) # 0 THEN Reads("done", b, LooseRef(b)) ELSE Reads("packed", b, 0)

\* or the origin's branch of that name, in the file of packed refs if there is one.
PackedCommit ==
  /\ reader.at = "packed"
  /\ LET b == reader.branch IN
     Reads("done", b, IF ~git.hasPacked THEN -1 ELSE IF b \in CoBranch THEN git.origin[b] ELSE 0)

CheckoutNext ==
  \/ \E b \in CoBranch : GitCommit(b) \/ Checkout(b) \/ CheckoutElsewhere(b) \/ PushBranch(b)
  \/ \E c \in 1..MaxCheckoutCommits : Detach(c)
  \/ PackRefs \/ AskCommit \/ repo_branch \/ LooseCommit \/ PackedCommit

CheckoutSpec == CheckoutInit /\ [][CheckoutNext]_checkoutVars

\* The commit that is reported is one the branch was at while it was read, whichever worktree
\* asks and whatever git does meanwhile, as long as the branch's ref was not packed.
CommitOfTheBranch ==
  (reader.at = "done" /\ ~ConfigErrorIn(reader.env) /\ repo_info(reader.env).commit = 0
     /\ reader.branch \in DOMAIN pastRefs
     /\ (reader.branch \in CoBranch => git.packed[reader.branch] = 0 /\ 0 \notin pastRefs[reader.branch]))
  => reader.result \in pastRefs[reader.branch]

ProjectsAreSound ==
  /\ SourcesTypeOK /\ CheckoutTypeOK
  /\ LoadedIsWhole /\ SameSpecSameProject /\ AnswersWereMeant /\ CommitOfTheBranch

-----------------------------------------------------------------------------
(* What is said of the sources and the checkout and does not hold.             *)

\* vcs_source.py: "make sure we don't leave an incomplete cache"; but a download that fails
\* leaves an empty directory, and a command that is killed what it had.
NoIncompleteCache ==
  \A d \in DOMAIN projectDirs :
    (\A p \in Runner : runners[p].fetch.stage \notin {"download", "extract"})
      => \A f \in SourceFile : projectDirs[d][f] = "whole"

\* include_source: "or returns a project config that was previously loaded with the same spec".
LoadedOnceForASpec ==
  \A p \in Runner : \A a, b \in runners[p].answers : a.spec = b.spec => a.project.commit = b.project.commit

\* frozenspec: "Return a spec to reconstruct this source at the current commit"; but a source
\* is recognised by the key "github", or "path", and it has neither.
frozenspec == {"vcs", "url", "commit", "description"}
Recognised(keys) == "github" \in keys \/ "path" \in keys
FrozenIsASpec == Recognised(frozenspec)

\* A branch whose ref git has packed still has its commit.
PackedIsFound ==
  (reader.at = "done" /\ ~reader.env.detect /\ reader.branch \in DOMAIN pastRefs)
    => reader.result \in pastRefs[reader.branch]
=============================================================================
