---------------------------- MODULE ReleasePipeline ----------------------------
(***************************************************************************)
(* The release automation: the tracker (version_tracker.py and             *)
(* release_metadata.py of codex_meta_agent) under the two workflows that   *)
(* run it, and the workflow that publishes what is merged                  *)
(* (.github/workflows).  An upstream release is the number of its version. *)
(* Commits are numbered; of what is in one, only what the tracker writes   *)
(* matters here (see VersionTracker).  Any run of a workflow may fail at   *)
(* any step; how many do is bounded.                                       *)
(***************************************************************************)
EXTENDS VersionTracker

CONSTANTS Styles,          \* the ways to spell a version, as styles of its tag
          MaxReleases,     \* bound: upstream releases
          MaxByHand,       \* bound: tracker runs and publishing runs somebody asks for,
                           \* and commits on main that are no release
          MaxFailures      \* bound: steps that fail, and pull requests closed unmerged

ASSUME PipelineAssumption ==
    /\ MaxReleases \in Nat \ {0}
    /\ MaxByHand \in Nat /\ MaxFailures \in Nat

Tags == 1 .. MaxReleases
UpstreamTag(n) == Tag("rust-v", n)
Frontier == "puck/frontier-realese--"
Backport == "puck/backport-release--"

\* The versions somebody may ask for, each in every spelling.
Requests == {Tag(style, n) : style \in Styles, n \in Tags}

\* The groups of concurrency: that of the tracker, and one for the backports of each
\* spelling of a version.
Tracker == Tag("tracker", 0)
Groups == {Tracker} \cup Requests

VARIABLES
    upstream,    \* the latest upstream release
    commits,     \* the commits there are
    main,        \* the head of main
    branches,    \* the head of a release branch, 0 when there is none
    tags,        \* what backport-v<version> is on, 0 when it is on nothing
    prs,         \* the releases with an open pull request
    merged,      \* history: the commits merged to main
    run,         \* of each group, the run in progress
    waiting,     \* the commit a publishing run is queued for, or 0
    publish,     \* the publishing run in progress
    releases,    \* of each version, the commit of its GitHub release, or 0
    pypi,        \* of each version, the commit PyPI has it from, or 0
    torn,        \* history: versions released on GitHub by a run that did not publish
    failed,      \* history: the last publishing run failed
    regressed,   \* history: an older release was merged over a newer one
    byHand, failures

repository == <<commits, main, branches, tags, prs, merged>>
counters == <<byHand, failures>>
publishing == <<waiting, publish, releases, pypi, torn, failed>>
vars == <<upstream, repository, run, publishing, regressed, counters>>

Idle == [at |-> "idle"]

Init ==
    /\ upstream = 1
    /\ commits = <<[state |-> UpstreamTag(1), version |-> 1]>>
    /\ main = 1
    /\ branches = [prefix \in {Frontier, Backport} |-> [n \in Tags |-> 0]]
    /\ tags = [n \in Tags |-> 0]
    /\ prs = {} /\ merged = {}
    /\ run = [w \in Groups |-> Idle]
    /\ waiting = 0 /\ publish = Idle
    /\ releases = [n \in Tags |-> 0] /\ pypi = [n \in Tags |-> 0]
    /\ torn = {} /\ failed = FALSE /\ regressed = FALSE
    /\ byHand = 0 /\ failures = 0

UpstreamReleases ==
    /\ upstream < MaxReleases
    /\ upstream' = upstream + 1
    /\ UNCHANGED <<repository, run, publishing, regressed, counters>>

-----------------------------------------------------------------------------
(* The tracker and its workflows *)

\* A clean checkout of a commit; without a target the latest release is meant.  A run
\* starts when no other of its group is in progress.
Begin(w, prefix, target, base) ==
    /\ run[w] = Idle
    /\ run' = [run EXCEPT ![w] = [at |-> "prepare", prefix |-> prefix, target |-> target,
                                  tree |-> commits[base]]]
    /\ UNCHANGED <<upstream, repository, publishing, regressed, failures>>

ByHand == byHand < MaxByHand /\ byHand' = byHand + 1

Schedule == Begin(Tracker, Frontier, None, main) /\ UNCHANGED byHand

\* base_ref: main, the head of a branch, a tag, or a commit that is none of these.
Dispatch ==
    /\ ByHand
    /\ \E base \in DOMAIN commits, target \in Requests :
          \/ \E prefix \in {Frontier, Backport} :
                Begin(Tracker, prefix, None, base) \/ Begin(Tracker, prefix, target, base)
          \/ Begin(target, Backport, target, base)

Fails == failures < MaxFailures /\ failures' = failures + 1

\* A run fails: a step of the workflow, Codex, the verification or a push.
RunFails(w) ==
    /\ run[w] # Idle
    /\ Fails
    /\ run' = [run EXCEPT ![w] = Idle]
    /\ UNCHANGED <<upstream, repository, publishing, regressed, byHand>>

Ends(w) == run' = [run EXCEPT ![w] = Idle]

\* The tracker, asked for a version or for the latest release.  Codex may put back the
\* version that was there; every way of failing is RunFails.
Prepare(w) ==
    /\ run[w].at = "prepare"
    /\ UNCHANGED <<upstream, repository, publishing, regressed, counters>>
    /\ LET tree == run[w].tree
           config == CommandLine(run[w].target, run[w].prefix, FALSE, FALSE)
           codex(version) == [status |-> "completed", structured |-> TRUE, version |-> version]
           released == {UpstreamTag(n) : n \in 1..upstream}
       IN  \E result \in {RunTracker(config, tree, UpstreamTag(upstream), released,
                                     codex(version), TRUE) : version \in {None, tree.version}} :
              IF result.outcome # "changed" THEN Ends(w)
              ELSE run' = [run EXCEPT ![w] = [at |-> "branch", prefix |-> result.branch[1],
                                              tag |-> result.branch[2], tree |-> result.tree]]

\* Whether the branch is there; the tag of a backport is looked for as well.
CheckExisting(w) ==
    /\ run[w].at = "branch"
    /\ run' = [run EXCEPT ![w] =
                 [at |-> "commit", prefix |-> run[w].prefix, tag |-> run[w].tag,
                  tree |-> run[w].tree,
                  exists |-> branches[run[w].prefix][run[w].tag] # 0]]
    /\ UNCHANGED <<upstream, repository, publishing, regressed, counters>>

Reaches(w, where, head) ==
    run' = [run EXCEPT ![w] = [at |-> where, tag |-> run[w].tag, head |-> head]]

PushBranch(w) ==
    /\ commits' = Append(commits, run[w].tree)
    /\ branches' = [branches EXCEPT ![run[w].prefix][run[w].tag] = Len(commits')]
    /\ Reaches(w, IF run[w].prefix = Frontier THEN "pr" ELSE "tag", Len(commits'))

\* Mutant: the push is forced.
CommitAndPushForced(w) ==
    /\ run[w].at = "commit" /\ ~run[w].exists
    /\ PushBranch(w)
    /\ UNCHANGED <<upstream, main, tags, prs, merged, publishing, regressed, counters>>

\* A branch that was not there gets the changes.  If it is there by now the push is
\* refused and the run fails.
CommitAndPush(w) ==
    /\ run[w].at = "commit" /\ ~run[w].exists
    /\ IF branches[run[w].prefix][run[w].tag] = 0
       THEN PushBranch(w)
       ELSE Ends(w) /\ UNCHANGED <<commits, branches>>
    /\ UNCHANGED <<upstream, main, tags, prs, merged, publishing, regressed, counters>>

\* A branch that was there is used as it is.  For a backport without its tag the
\* workflow would check out that branch: git refuses, because the tracker has just
\* changed the state file of this checkout, and the run fails, whenever it is tried.
ReuseBranch(w) ==
    /\ run[w].at = "commit" /\ run[w].exists
    /\ IF run[w].prefix = Frontier
       THEN Reaches(w, "pr", branches[Frontier][run[w].tag])
       ELSE Ends(w)
    /\ UNCHANGED <<upstream, repository, publishing, regressed, counters>>

\* The tag of a backport; the push is refused if there is one by now.
TagBackport(w) ==
    /\ run[w].at = "tag"
    /\ tags' = [tags EXCEPT ![run[w].tag] = IF @ = 0 THEN run[w].head ELSE @]
    /\ Ends(w)
    /\ UNCHANGED <<upstream, commits, main, branches, prs, merged, publishing, regressed,
                   counters>>

\* Mutant: no pull request for a branch that an earlier run has pushed.
OpenPrForNewBranch(w) ==
    /\ run[w].at = "pr"
    /\ prs' = prs \cup (IF run[w].head = Len(commits) THEN {run[w].tag} ELSE {})
    /\ Ends(w)
    /\ UNCHANGED <<upstream, commits, main, branches, tags, merged, publishing, regressed,
                   counters>>

\* A pull request, if none is open; for what main already has there can be none, and
\* the run fails.
OpenPr(w) ==
    /\ run[w].at = "pr"
    /\ prs' = prs \cup (IF run[w].head \in merged THEN {} ELSE {run[w].tag})
    /\ Ends(w)
    /\ UNCHANGED <<upstream, commits, main, branches, tags, merged, publishing, regressed,
                   counters>>

-----------------------------------------------------------------------------
(* The people who review *)

\* main gets a commit, and a publishing run is queued for it in place of the one
\* that was.
MainMoves(commit) ==
    /\ commits' = Append(commits, commit)
    /\ main' = Len(commits')
    /\ waiting' = Len(commits')
    /\ UNCHANGED <<branches, tags, publish, releases, pypi, torn, failed, failures>>

\* Conflicts with what main has got meanwhile are resolved for the branch.
Merge(n) ==
    /\ n \in prs
    /\ prs' = prs \ {n}
    /\ merged' = merged \cup {branches[Frontier][n]}
    /\ regressed' = (regressed \/ n < NormalizeReleaseVersion(commits[main].state))
    /\ MainMoves(commits[branches[Frontier][n]])
    /\ UNCHANGED <<upstream, run, counters>>

CloseUnmerged(n) ==
    /\ n \in prs
    /\ Fails
    /\ prs' = prs \ {n}
    /\ UNCHANGED <<upstream, commits, main, branches, tags, merged, run, publishing,
                   regressed, byHand>>

PushToMain ==
    /\ ByHand
    /\ MainMoves(commits[main])
    /\ UNCHANGED <<upstream, prs, merged, run, regressed, failures>>

-----------------------------------------------------------------------------
(* Publishing *)

\* Of the runs for main one is in progress and one queued, so that what a run finds
\* released and published is still so when it goes by it.  A run has the commit it
\* was queued for, and releases it if its version is that of the tracked release.
StartPublishing ==
    /\ publish = Idle /\ waiting # 0
    /\ waiting' = 0
    /\ LET commit == commits[waiting]
           version == commit.version
       IN  IF BuildReleaseTag(commit.state) # Tag("v", version)
           THEN failed' = FALSE /\ UNCHANGED publish
           ELSE /\ publish' = [at |-> "release", sha |-> waiting, version |-> version]
                /\ UNCHANGED failed
    /\ UNCHANGED <<upstream, repository, run, releases, pypi, torn, regressed, counters>>

\* Mutant: the release is made of what main has by now.
CreateReleaseOfMain ==
    /\ publish.at = "release"
    /\ releases' = [releases EXCEPT ![publish.version] = IF @ # 0 THEN @ ELSE main]
    /\ publish' = [publish EXCEPT !.at = "upload"]
    /\ UNCHANGED <<upstream, repository, run, waiting, pypi, torn, failed, regressed,
                   counters>>

CreateRelease ==
    /\ publish.at = "release"
    /\ releases' = [releases EXCEPT ![publish.version] = IF @ # 0 THEN @ ELSE publish.sha]
    /\ publish' = [publish EXCEPT !.at = "upload"]
    /\ UNCHANGED <<upstream, repository, run, waiting, pypi, torn, failed, regressed,
                   counters>>

\* The distributions are built of the same commit, and published in another job.
Publish ==
    /\ publish.at = "upload"
    /\ pypi' = [pypi EXCEPT ![publish.version] = IF @ # 0 THEN @ ELSE publish.sha]
    /\ publish' = Idle
    /\ failed' = FALSE
    /\ UNCHANGED <<upstream, repository, run, waiting, releases, torn, regressed, counters>>

PublishingFails ==
    /\ publish # Idle
    /\ Fails
    /\ publish' = Idle
    /\ failed' = TRUE
    /\ torn' = IF publish.at = "upload" /\ pypi[publish.version] = 0
               THEN torn \cup {publish.version} ELSE torn
    /\ UNCHANGED <<upstream, repository, run, waiting, releases, pypi, regressed,
                   byHand>>

\* Somebody runs it again for main.
DispatchPublishing ==
    /\ ByHand
    /\ waiting' = main
    /\ UNCHANGED <<upstream, repository, run, publish, releases, pypi, torn, failed,
                   regressed, failures>>

-----------------------------------------------------------------------------

Step(w) ==
    \/ Prepare(w) \/ CheckExisting(w) \/ CommitAndPush(w) \/ ReuseBranch(w)
    \/ TagBackport(w) \/ OpenPr(w)

Next ==
    \/ UpstreamReleases
    \/ Schedule \/ Dispatch
    \/ \E w \in Groups : Step(w) \/ RunFails(w)
    \/ \E n \in Tags : Merge(n) \/ CloseUnmerged(n)
    \/ PushToMain
    \/ StartPublishing \/ CreateRelease \/ Publish \/ PublishingFails
    \/ DispatchPublishing

Spec == Init /\ [][Next]_vars

\* The tracker runs every day and each run comes to an end; a pull request that stays
\* open is merged.
Fairness ==
    /\ WF_vars(Schedule \/ Step(Tracker))
    /\ \A n \in Tags : WF_vars(Merge(n))

FairSpec == Spec /\ Fairness

-----------------------------------------------------------------------------
(* Properties *)

\* A version is the same on GitHub and on PyPI: both have it from one commit, unless
\* a run released it and failed before it published, in which case a later push to
\* main publishes what main is then.  And once the queue is empty and the last run
\* did not fail, a head of main that has the version of its release is out on both;
\* a run that was dropped from the queue lost nothing of the head.
ReleasesAgree ==
    /\ \A v \in Tags :
          releases[v] # 0 /\ pypi[v] # 0 => releases[v] = pypi[v] \/ v \in torn
    /\ LET head == commits[main]
       IN  NormalizeReleaseVersion(head.state) = head.version /\ main > 1 /\ publish = Idle /\ waiting = 0 /\ ~failed =>
              releases[head.version] # 0 /\ pypi[head.version] # 0

\* However the runs race for one release, those for two spellings of its version included,
\* from whatever commits they start and wherever they fail, the tag of a backport is on
\* the head of its branch, and the head is a commit that tracks that very release; no run
\* replaces what another has pushed.
TagIsBranchHead ==
    \A n \in Tags :
        /\ tags[n] # 0 => tags[n] = branches[Backport][n]
        /\ \A prefix \in {Frontier, Backport} :
              branches[prefix][n] # 0 => commits[branches[prefix][n]].state = UpstreamTag(n)

\* Whichever runs fail on the way, main comes to track the latest release, by way of the
\* daily runs alone: a branch whose pull request was never opened, or was closed, is
\* taken up again.  Unless an older release was merged over a newer one: the branch
\* of the newer is merged then, and no pull request can bring it back.
CatchesUp == <>[](commits[main].state = UpstreamTag(upstream)) \/ <>regressed
=============================================================================
