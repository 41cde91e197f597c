----------------------------- MODULE Publishing -----------------------------
(* Releases and what is published of them. A release is a tag and a release   *)
(* record in the project's repository; publishing commits the files of a tag  *)
(* to another repository, and may tag and release there too. Generated files   *)
(* are committed the same way, to one directory. People push meanwhile, and a  *)
(* task may be killed between two requests.                                    *)
EXTENDS Integers, Sequences, FiniteSets, SequencesExt

CONSTANTS
  Path,        \* the files: [dir |-> ..., name |-> ..., dot |-> BOOLEAN]
  StartsWith,  \* by directory, the directories whose name starts with its name
  ReleaseTag,
  Include,     \* the files that are published
  PubTask,     \* tasks that may run at once
  DocsDir,     \* the directory of the generated files
  MaxRevisions, MaxPublished, MaxKills

ASSUME PublishingAssumption ==
  /\ Include \subseteq Path /\ {MaxRevisions, MaxPublished, MaxKills} \subseteq Nat \ {0}
  /\ DocsDir \in StartsWith[DocsDir] /\ "none" \notin ReleaseTag

VARIABLES
  source,    \* the commits of the project: the content of each file, 0 if absent
  tags,      \* the commit of each tag of the project, 0 if there is none
  releases,  \* the tags that are released
  target,    \* the commits of the branch that is published to
  targetTags, targetReleases,
  pubTask,   \* the tasks that run
  kills

pubVars == <<source, tags, releases, target, targetTags, targetReleases, pubTask, kills>>

Files == [Path -> 0..2]
NoFiles == [p \in Path |-> 0]
Rest == [kind |-> "none", at |-> "idle", tag |-> "none", commit |-> 0, base |-> 0, files |-> NoFiles]
Tip == target[Len(target)]

PubTaskState ==
  [kind : {"none", "release", "publish", "docs"},
   at : {"idle", "verify", "ref", "tag", "release", "download", "read", "head", "published", "announce"},
   tag : ReleaseTag \cup {"none"}, commit : Nat, base : Nat, files : Files]

PublishTypeOK ==
  /\ source \in Seq(Files) /\ target \in Seq(Files)
  /\ tags \in [ReleaseTag -> 0..Len(source)] /\ targetTags \in [ReleaseTag -> 0..Len(target)]
  /\ releases \subseteq ReleaseTag /\ targetReleases \subseteq ReleaseTag
  /\ pubTask \in [PubTask -> PubTaskState]
  /\ kills \in 0..MaxKills

PublishInit ==
  /\ source = <<[NoFiles EXCEPT ![CHOOSE p \in Path : p \in Include /\ ~p.dot] = 1]>>
  /\ tags = [t \in ReleaseTag |-> 0] /\ releases = {}
  /\ target = <<NoFiles>> /\ targetTags = tags /\ targetReleases = {}
  /\ pubTask = [k \in PubTask |-> Rest] /\ kills = 0

Becomes(k, at) == pubTask' = [pubTask EXCEPT ![k].at = at]
Ends(k) == pubTask' = [pubTask EXCEPT ![k] = Rest]

-----------------------------------------------------------------------------
(* People.                                                                     *)

Develop(p, v) ==
  /\ Len(source) < MaxRevisions /\ source[Len(source)][p] # v
  /\ source' = Append(source, [source[Len(source)] EXCEPT ![p] = v])
  /\ UNCHANGED <<tags, releases, target, targetTags, targetReleases, pubTask, kills>>

PushToTarget(p, v) ==
  /\ Len(target) < MaxPublished /\ Tip[p] # v /\ target' = Append(target, [Tip EXCEPT ![p] = v])
  /\ UNCHANGED <<source, tags, releases, targetTags, targetReleases, pubTask, kills>>

-----------------------------------------------------------------------------
(* Releasing.                                                                  *)

\* The commit is the one that is checked out, or an option.
StartRelease(k, t, c) ==
  /\ pubTask[k] = Rest
  /\ pubTask' = [pubTask EXCEPT ![k] = [Rest EXCEPT !.kind = "release", !.at = "verify", !.tag = t, !.commit = c]]
  /\ UNCHANGED <<source, tags, releases, target, targetTags, targetReleases, kills>>

_verify_release(k) ==
  /\ pubTask[k].at = "verify" /\ IF pubTask[k].tag \in releases THEN Ends(k) ELSE Becomes(k, "ref")
  /\ UNCHANGED <<source, tags, releases, target, targetTags, targetReleases, kills>>

\* A tag that exists is used as it is.
get_ref_for_tag(k) ==
  /\ pubTask[k].at = "ref" /\ Becomes(k, IF tags[pubTask[k].tag] # 0 THEN "release" ELSE "tag")
  /\ UNCHANGED <<source, tags, releases, target, targetTags, targetReleases, kills>>

create_tag(k) ==
  LET t == pubTask[k].tag IN
  /\ pubTask[k].at = "tag"
  /\ IF tags[t] = 0 THEN tags' = [tags EXCEPT ![t] = pubTask[k].commit] /\ Becomes(k, "release")
     ELSE Ends(k) /\ UNCHANGED tags
  /\ UNCHANGED <<source, releases, target, targetTags, targetReleases, kills>>

create_release(k) ==
  /\ pubTask[k].at = "release" /\ releases' = releases \cup {pubTask[k].tag} /\ Ends(k)
  /\ UNCHANGED <<source, tags, target, targetTags, targetReleases, kills>>

-----------------------------------------------------------------------------
(* Committing a directory.                                                     *)

StartPublish(k, t) ==
  /\ pubTask[k] = Rest
  /\ pubTask' = [pubTask EXCEPT ![k] = [Rest EXCEPT !.kind = "publish", !.at = "download", !.tag = t]]
  /\ UNCHANGED <<source, tags, releases, target, targetTags, targetReleases, kills>>

_download_repo_and_extract(k) ==
  LET t == pubTask[k].tag
      files == [p \in Path |-> IF p \in Include THEN source[tags[t]][p] ELSE 0]
  IN
  /\ pubTask[k].at = "download"
  /\ IF tags[t] = 0 THEN Ends(k) ELSE pubTask' = [pubTask EXCEPT ![k].files = files, ![k].at = "read"]
  /\ UNCHANGED <<source, tags, releases, target, targetTags, targetReleases, kills>>

StartDocs(k, p) ==
  /\ pubTask[k] = Rest /\ p.dir = DocsDir
  /\ pubTask' = [pubTask EXCEPT ![k] = [Rest EXCEPT !.kind = "docs", !.at = "read", !.files[p] = 2]]
  /\ UNCHANGED <<source, tags, releases, target, targetTags, targetReleases, kills>>

_set_git_data(k) ==
  /\ pubTask[k].at = "read" /\ pubTask' = [pubTask EXCEPT ![k].base = Len(target), ![k].at = "head"]
  /\ UNCHANGED <<source, tags, releases, target, targetTags, targetReleases, kills>>

\* What counts as in the directory, and what is in it.
InDir(k, p) == pubTask[k].kind = "docs" => p.dir \in StartsWith[DocsDir]
Local(k, p) == IF pubTask[k].kind = "docs" /\ p.dir # DocsDir THEN 0 ELSE pubTask[k].files[p]

\* A file of the directory that is not among the new ones is deleted; a new
\* file whose name starts with a dot is not added.
_create_new_tree_itemNeverDeleted(k, p, old) ==
  IF InDir(k, p) /\ old # 0 /\ Local(k, p) # 0 THEN Local(k, p) ELSE old
_create_new_tree_item(k, p, old) == IF InDir(k, p) /\ old # 0 THEN Local(k, p) ELSE old
_add_new_files_to_tree(k, p, old) == IF old = 0 /\ ~p.dot THEN Local(k, p) ELSE old

NewTree(k, base) ==
  [p \in Path |-> IF base[p] # 0 THEN _create_new_tree_item(k, p, base[p])
                  ELSE _add_new_files_to_tree(k, p, base[p])]

\* The branch moves only if nobody else moved it.
_update_headForced(k) ==
  LET tree == NewTree(k, target[pubTask[k].base]) IN
  /\ pubTask[k].at = "head" /\ Len(target) < MaxPublished
  /\ target' = Append(target, tree)
  /\ pubTask' = [pubTask EXCEPT ![k] = IF @.kind = "docs" THEN Rest ELSE [@ EXCEPT !.commit = Len(target) + 1, !.at = "published"]]
  /\ UNCHANGED <<source, tags, releases, targetTags, targetReleases, kills>>
_update_head(k) ==
  LET base == pubTask[k].base
      tree == NewTree(k, target[base])
      same == tree = target[base]
  IN
  /\ pubTask[k].at = "head" /\ (same \/ Len(target) < MaxPublished)
  /\ target' = IF same \/ Len(target) # base THEN target ELSE Append(target, tree)
  /\ pubTask' = [pubTask EXCEPT ![k] =
       IF @.kind = "docs" \/ (~same /\ Len(target) # base) THEN Rest
       ELSE [@ EXCEPT !.commit = IF same THEN base ELSE base + 1, !.at = "published"]]
  /\ UNCHANGED <<source, tags, releases, targetTags, targetReleases, kills>>

\* The tag is put only if the project has the release and the target no such tag.
_create_releaseAtTheHead(k) ==
  LET t == pubTask[k].tag IN
  /\ pubTask[k].at = "published"
  /\ IF t \in releases /\ targetTags[t] = 0
     THEN targetTags' = [targetTags EXCEPT ![t] = Len(target)] /\ Becomes(k, "announce")
     ELSE Ends(k) /\ UNCHANGED targetTags
  /\ UNCHANGED <<source, tags, releases, target, targetReleases, kills>>
_create_release(k) ==
  LET t == pubTask[k].tag IN
  /\ pubTask[k].at = "published"
  /\ \/ /\ IF t \in releases /\ targetTags[t] = 0
           THEN targetTags' = [targetTags EXCEPT ![t] = pubTask[k].commit] /\ Becomes(k, "announce")
           ELSE Ends(k) /\ UNCHANGED targetTags
     \/ Ends(k) /\ UNCHANGED targetTags   \* create_release is off
  /\ UNCHANGED <<source, tags, releases, target, targetReleases, kills>>

ReleaseInTarget(k) ==
  /\ pubTask[k].at = "announce" /\ targetReleases' = targetReleases \cup {pubTask[k].tag} /\ Ends(k)
  /\ UNCHANGED <<source, tags, releases, target, targetTags, kills>>

KillTask(k) ==
  /\ pubTask[k] # Rest /\ kills < MaxKills /\ kills' = kills + 1 /\ Ends(k)
  /\ UNCHANGED <<source, tags, releases, target, targetTags, targetReleases>>

PublishNext ==
  \/ \E p \in Path, v \in 0..1 : Develop(p, v) \/ PushToTarget(p, v)
  \/ \E k \in PubTask :
       \/ \E t \in ReleaseTag : StartPublish(k, t) \/ \E c \in DOMAIN source : StartRelease(k, t, c)
       \/ _verify_release(k) \/ get_ref_for_tag(k) \/ create_tag(k) \/ create_release(k)
       \/ _download_repo_and_extract(k) \/ (\E p \in Path : StartDocs(k, p))
       \/ _set_git_data(k) \/ _update_head(k) \/ _create_release(k) \/ ReleaseInTarget(k) \/ KillTask(k)

PublishSpec == PublishInit /\ [][PublishNext]_pubVars

-----------------------------------------------------------------------------
(* What is claimed.                                                            *)

\* Publishing replaces and deletes only what it has read: a file pushed after the task has
\* read the branch stays, wherever it is, and a task that commits a directory leaves all
\* that is elsewhere.
OthersWorkStays ==
  [][\A k \in PubTask, p \in Path :
       /\ pubTask[k].at = "head" /\ pubTask'[k] # pubTask[k]
       /\ Tip[p] # target[pubTask[k].base][p] \/ ~InDir(k, p)
       => target'[Len(target')][p] = Tip[p]]_pubVars

\* A published tag stands for the files of the tag of the project, whatever was
\* pushed to the two repositories meanwhile and whichever task was killed.
TagsAgree ==
  \A t \in ReleaseTag : targetTags[t] # 0 =>
    \A p \in Include : ~p.dot => target[targetTags[t]][p] = source[tags[t]][p]

\* "commit: Override the commit used to create the release".
ReleaseIsAtTheCommit ==
  \A k \in PubTask : pubTask[k].at = "release" => tags[pubTask[k].tag] = pubTask[k].commit

\* "Commit all changes in local_dir to branch/repo_dir".
OnlyTheDirectory ==
  [][\A k \in PubTask, p \in Path :
       /\ pubTask[k].at = "head" /\ pubTask[k].kind = "docs" /\ pubTask'[k] # pubTask[k] /\ p.dir # DocsDir
       => target'[Len(target')][p] = Tip[p]]_pubVars
AllChangesAreCommitted ==
  \A k \in PubTask : pubTask[k].at = "published" =>
    \A p \in Include : target[pubTask[k].commit][p] = pubTask[k].files[p]

-----------------------------------------------------------------------------
(* Promoting a package version of the second generation. Its dependencies are *)
(* promoted first, one after another, if the option says so; otherwise the     *)
(* task stops at the first look. A request may fail, and the task is run       *)
(* again, maybe for another package and while another runs.                    *)

CONSTANTS
  PackageNames,   \* the package versions
  SecondGen,      \* those of the second generation
  Needs,          \* by package, the sequence of all it depends on, in order
  Promoter,       \* tasks that may run at once
  MaxPromotions   \* tasks started in all

\* The platform lists all that a version is installed after, in the order to install it.
ASSUME PromotionAssumption ==
  /\ SecondGen \subseteq PackageNames /\ Needs \in [PackageNames -> Seq(PackageNames)] /\ MaxPromotions \in Nat
  /\ \A p \in PackageNames : \A i \in DOMAIN Needs[p] : \A d \in ToSet(Needs[Needs[p][i]]) :
       \E j \in DOMAIN Needs[p] : j < i /\ Needs[p][j] = d

VARIABLES promoted, promoter, started
promotionVars == <<promoted, promoter, started>>

Off == [at |-> "off", package |-> "none", withDependencies |-> FALSE, toPromote |-> {}]

PromoterState ==
  [at : {"off", "query", "promote", "itself"}, package : PackageNames \cup {"none"},
   withDependencies : BOOLEAN, toPromote : SUBSET Nat]

PromotionTypeOK ==
  /\ promoted \subseteq SecondGen /\ started \in 0..MaxPromotions
  /\ promoter \in [Promoter -> PromoterState]

PromotionInit == promoted = {} /\ promoter = [k \in Promoter |-> Off] /\ started = 0

StartPromotion(k, p, b) ==
  /\ promoter[k] = Off /\ started < MaxPromotions /\ started' = started + 1
  /\ promoter' = [promoter EXCEPT ![k] = [at |-> "query", package |-> p, withDependencies |-> b, toPromote |-> {}]]
  /\ UNCHANGED promoted

\* The places of the dependencies to promote; those of the first generation are only named.
_filter_unpromoted_deps(p) == {i \in DOMAIN Needs[p] : Needs[p][i] \notin promoted}
_filter_unpromoted_two_gp_deps(p) == {i \in DOMAIN Needs[p] : Needs[p][i] \in SecondGen \ promoted}

_process_two_gp_depsAnyway(k) ==
  LET found == _filter_unpromoted_two_gp_deps(promoter[k].package) IN
  /\ promoter[k].at = "query"
  /\ promoter' = [promoter EXCEPT ![k].at = IF promoter[k].withDependencies /\ found # {} THEN "promote" ELSE "itself",
                                  ![k].toPromote = IF promoter[k].withDependencies THEN found ELSE {}]
  /\ UNCHANGED <<promoted, started>>
_process_two_gp_deps(k) ==
  LET found == _filter_unpromoted_two_gp_deps(promoter[k].package) IN
  /\ promoter[k].at = "query"
  /\ promoter' = [promoter EXCEPT ![k] =
       IF found = {} THEN [@ EXCEPT !.at = "itself"]
       ELSE IF @.withDependencies THEN [@ EXCEPT !.at = "promote", !.toPromote = found] ELSE Off]
  /\ UNCHANGED <<promoted, started>>

\* One update, in the order of the list; a failure ends the task.
_promote_package_version(k) ==
  LET x == promoter[k] IN
  /\ x.at = "promote"
  /\ \/ \E i \in x.toPromote :
          /\ \A j \in x.toPromote : i <= j
          /\ promoted' = promoted \cup {Needs[x.package][i]}
          /\ promoter' = [promoter EXCEPT ![k].toPromote = @ \ {i},
                                          ![k].at = IF x.toPromote = {i} THEN "itself" ELSE @]
     \/ promoter' = [promoter EXCEPT ![k] = Off] /\ UNCHANGED promoted
  /\ UNCHANGED started

\* A target of the first generation has no Package2Version to promote.
PromoteItself(k) ==
  /\ promoter[k].at = "itself"
  /\ promoted' \in {promoted, promoted \cup ({promoter[k].package} \cap SecondGen)}
  /\ promoter' = [promoter EXCEPT ![k] = Off] /\ UNCHANGED started

PromotionNext ==
  \E k \in Promoter :
    \/ \E p \in PackageNames, b \in BOOLEAN : StartPromotion(k, p, b)
    \/ _process_two_gp_deps(k) \/ _promote_package_version(k) \/ PromoteItself(k)

PromotionSpec == PromotionInit /\ [][PromotionNext]_promotionVars

-----------------------------------------------------------------------------
(* What is claimed.                                                            *)

\* A package is never promoted before what it depends on, as far as that can be
\* promoted, although a task stops halfway through the dependencies, is run
\* again for another package, or meets another one.
DependenciesPromotedFirst ==
  \A p \in promoted : (ToSet(Needs[p]) \cap SecondGen) \subseteq promoted
=============================================================================
