------------------------ MODULE ReleasePipelineProofs ------------------------
(***************************************************************************)
(* What holds of the release automation whatever runs fail and whichever   *)
(* workflows race, for any number of releases, of runs by hand and of      *)
(* failures: a backport's tag stands on the head of its branch, and GitHub *)
(* and PyPI have one commit for a version.                                 *)
(***************************************************************************)
EXTENDS ReleasePipeline, SequenceTheorems, TLAPS

-----------------------------------------------------------------------------
(* The inductive invariant                                                  *)

BranchPrefixes == {Frontier, Backport}
Commits == [state : {UpstreamTag(n) : n \in Tags}, version : Tags]

Preparing == [at : {"prepare"}, prefix : BranchPrefixes, target : {None} \cup Requests, tree : Commits]
Branching == [at : {"branch"}, prefix : BranchPrefixes, tag : Tags, tree : Commits]
Committing == [at : {"commit"}, prefix : BranchPrefixes, tag : Tags, tree : Commits, exists : BOOLEAN]
Heading == [at : {"pr", "tag"}, tag : Tags, head : Nat]

\* What a run of the tracker knows is still so, of commits cs and heads bs: branches are
\* only ever added.
RunOK(r, cs, bs) ==
    \/ r = Idle
    \/ r \in Preparing
    \/ r \in Branching /\ r.tree.state = UpstreamTag(r.tag)
    \/ /\ r \in Committing /\ r.tree.state = UpstreamTag(r.tag)
       /\ r.exists => bs[r.prefix][r.tag] # 0
    \/ r \in Heading /\ r.at = "pr" /\ bs[Frontier][r.tag] # 0
    \/ r \in Heading /\ r.at = "tag" /\ r.head # 0 /\ bs[Backport][r.tag] = r.head

RunsOK == \A w \in Groups : RunOK(run[w], commits, branches)

Publishing == [at : {"release", "upload"}, sha : Nat, version : Tags]

Typed ==
    /\ upstream \in Tags
    /\ commits \in Seq(Commits)
    /\ main \in 1 .. Len(commits)
    /\ branches \in [BranchPrefixes -> [Tags -> 0 .. Len(commits)]]
    /\ tags \in [Tags -> Nat]
    /\ prs \subseteq Tags
    /\ run = [w \in Groups |-> run[w]]
    /\ waiting \in {0, main}
    /\ publish = Idle \/ (publish \in Publishing /\ publish.sha \in 1 .. Len(commits))
    /\ releases \in [Tags -> Nat]
    /\ pypi \in [Tags -> Nat]
    /\ failed \in BOOLEAN

\* A pull request is for a branch that is there.
Open == \A n \in prs : branches[Frontier][n] # 0

\* What PyPI has was released, from the same commit unless a run was torn; what is
\* released and not on PyPI is either being published or was torn.
Paired ==
    /\ publish # Idle /\ publish.at = "upload" => releases[publish.version] # 0
    /\ \A v \in Tags :
          /\ pypi[v] # 0 => releases[v] # 0 /\ (releases[v] = pypi[v] \/ v \in torn)
          /\ releases[v] # 0 /\ pypi[v] = 0 =>
                \/ v \in torn
                \/ /\ publish # Idle /\ publish.at = "upload"
                   /\ publish.version = v /\ publish.sha = releases[v]

Released == NormalizeReleaseVersion(commits[main].state) = commits[main].version

\* A head that has its release's version is out, in the queue, being published, or its
\* run failed.
Accounted ==
    LET version == commits[main].version
    IN  Released /\ main > 1 /\ waiting = 0 =>
           \/ releases[version] # 0 /\ pypi[version] # 0
           \/ publish # Idle /\ publish.version = version
           \/ publish = Idle /\ failed

IInv ==
    /\ Typed
    /\ RunsOK
    /\ TagIsBranchHead
    /\ Open
    /\ Paired
    /\ Accounted

-----------------------------------------------------------------------------
(* Lemmas about the operators                                               *)

LEMMA Appended ==
  ASSUME NEW S, NEW q \in Seq(S), NEW x \in S
  PROVE  /\ Append(q, x) \in Seq(S)
         /\ Len(Append(q, x)) = Len(q) + 1
         /\ Append(q, x)[Len(q) + 1] = x
         /\ \A i \in 1 .. Len(q) : Append(q, x)[i] = q[i]
BY AppendProperties

\* The trees of the tracker keep their versions, and a release that is tracked.
LEMMA UpstreamTags ==
  ASSUME NEW n \in Tags
  PROVE  /\ UpstreamTag(n) \in {UpstreamTag(k) : k \in Tags}
         /\ NormalizeReleaseVersion(UpstreamTag(n)) = n
BY DEF UpstreamTag, Tag, NormalizeReleaseVersion

LEMMA LeastOfFive ==
  ASSUME NEW found \in SUBSET (1 .. 5), found # {}
  PROVE  \E i \in found : \A j \in found : i <= j
<1>1. PICK k \in 1 .. 5 : k \in found
  OBVIOUS
<1>2. \/ 1 \in found \/ 2 \in found \/ 3 \in found \/ 4 \in found \/ 5 \in found
  BY <1>1
<1>3. QED
  BY <1>2

\* _resolve_target_release() returns a release that GitHub has, or the latest.
LEMMA ResolvedIsPublished ==
  ASSUME NEW target, NEW state, NEW latest, NEW published,
         NEW release, release = ResolveTargetRelease(target, state, latest, published)
  PROVE  release = None \/ release = latest \/ release \in published
<1> DEFINE c == CandidateTags(target, IF state = None THEN latest ELSE state)
           found == {i \in DOMAIN c : c[i] \in published}
           first == CHOOSE i \in found : \A j \in found : i <= j
<1>1. DOMAIN c = 1 .. 5
  BY DEF CandidateTags
<1>2. ASSUME found # {} PROVE first \in found
  <2>1. \E i \in found : \A j \in found : i <= j
    <3>1. found \in SUBSET (1 .. 5)
      BY <1>1
    <3>2. QED
      BY <1>2, <3>1, LeastOfFive
  <2>2. QED
    BY <2>1
<1>3. CASE target = None
  BY <1>3 DEF ResolveTargetRelease
<1>4. CASE target # None /\ found = {}
  BY <1>4 DEF ResolveTargetRelease
<1>5. CASE target # None /\ found # {}
  <2>1. release = c[first]
    BY <1>5 DEF ResolveTargetRelease
  <2>2. first \in found
    BY <1>2, <1>5
  <2>3. c[first] \in published
    BY <2>2
  <2>4. QED
    BY <2>1, <2>3
<1>6. QED
  BY <1>3, <1>4, <1>5

LEMMA ChangedFields ==
  ASSUME NEW prefix, NEW n \in Tags, NEW edited \in Commits
  PROVE  LET release == UpstreamTag(n)
             result == Changed(release, prefix, WriteTrackingState(edited, release))
         IN  /\ result.branch[1] = prefix
             /\ result.branch[2] = n
             /\ result.tree \in Commits
             /\ result.tree.state = UpstreamTag(n)
<1> DEFINE release == UpstreamTag(n)
           result == Changed(release, prefix, WriteTrackingState(edited, release))
<1>1. /\ result.branch = <<prefix, n>>
      /\ result.tree = [edited EXCEPT !.state = release]
  BY UpstreamTags DEF Changed, BuildTrackingBranch, WriteTrackingState
<1>2. UpstreamTag(n) \in {UpstreamTag(k) : k \in Tags}
  OBVIOUS
<1>3. [edited EXCEPT !.state = release] \in Commits /\ [edited EXCEPT !.state = release].state = release
  BY <1>2 DEF Commits
<1> HIDE DEF result, release
<1>4. /\ result.branch[1] = prefix
      /\ result.branch[2] = n
      /\ result.tree \in Commits
      /\ result.tree.state = release
  BY <1>1, <1>3
<1>5. QED
  BY <1>4 DEF result, release

\* A result that has the branch and the tree of one release.
Prepares(result, prefix) ==
    /\ result.branch[1] = prefix
    /\ result.branch[2] \in Tags
    /\ result.tree \in Commits
    /\ result.tree.state = UpstreamTag(result.branch[2])

\* A run that changes the checkout prepares the branch of the release it then
\* tracks, whatever Codex put back.
LEMMA RunPrepares ==
  ASSUME NEW tree \in Commits, NEW config, config.apply = TRUE,
         NEW latest \in {UpstreamTag(k) : k \in Tags},
         NEW published \in SUBSET {UpstreamTag(k) : k \in Tags},
         NEW codex, codex.version \in {None} \cup Tags, NEW verified \in BOOLEAN,
         NEW result, result = RunTracker(config, tree, latest, published, codex, verified),
         result.outcome = "changed"
  PROVE  Prepares(result, config.prefix)
<1> DEFINE release == ResolveTargetRelease(config.target, tree.state, latest, published)
           synced == SyncProjectVersion(tree, NormalizeReleaseVersion(release))
           edited == InvokeCodex(synced, codex)
<1>2. /\ release # None /\ synced # None /\ edited # None
      /\ result = Changed(release, config.prefix, WriteTrackingState(edited, release))
  BY DEF RunTracker, Raised, Unchanged
<1>3. PICK n \in Tags : release = UpstreamTag(n)
  <2>1. release = latest \/ release \in published
    BY <1>2, ResolvedIsPublished
  <2>2. QED
    BY <2>1
<1>4. NormalizeReleaseVersion(release) = n
  BY <1>3, UpstreamTags
<1>5. synced = [tree EXCEPT !.version = n]
  BY <1>2, <1>4 DEF SyncProjectVersion
<1>6. synced \in Commits
  BY <1>5 DEF Commits
<1>7. edited \in Commits
  <2>1. edited = [synced EXCEPT !.version = IF codex.version = None THEN @ ELSE codex.version]
    BY <1>2 DEF InvokeCodex
  <2>2. codex.version = None \/ codex.version \in Tags
    OBVIOUS
  <2> HIDE DEF edited, synced
  <2>3. QED
    BY <1>6, <2>1, <2>2 DEF Commits
<1>8. PICK e : e = edited
  OBVIOUS
<1>9. n \in Tags /\ e \in Commits
  BY <1>3, <1>7, <1>8
<1>10. result = Changed(UpstreamTag(n), config.prefix, WriteTrackingState(e, UpstreamTag(n)))
  BY <1>2, <1>3, <1>8
<1> HIDE DEF release, synced, edited
<1>11. result.branch[1] = config.prefix
  BY ONLY <1>9, <1>10, ChangedFields
<1>12. result.branch[2] = n
  BY ONLY <1>9, <1>10, ChangedFields
<1>13. result.tree \in Commits
  BY ONLY <1>9, <1>10, ChangedFields
<1>14. result.tree.state = UpstreamTag(n)
  BY ONLY <1>9, <1>10, ChangedFields
<1>15. QED
  BY <1>9, <1>11, <1>12, <1>13, <1>14 DEF Prepares

\* A head is moved to a commit that comes after those there were.
LEMMA NestedUpdate ==
  ASSUME NEW k \in Nat, NEW h \in Nat, k <= h, NEW bs \in [BranchPrefixes -> [Tags -> 0 .. k]],
         NEW p \in BranchPrefixes, NEW n \in Tags
  PROVE  LET moved == [bs EXCEPT ![p][n] = h]
         IN  /\ moved \in [BranchPrefixes -> [Tags -> 0 .. h]]
             /\ \A q \in BranchPrefixes, m \in Tags :
                   moved[q][m] = IF q = p /\ m = n THEN h ELSE bs[q][m]
<1>1. bs \in [BranchPrefixes -> [Tags -> 0 .. h]]
  OBVIOUS
<1>2. QED
  BY <1>1

\* What a run knows survives new commits and new branches.
LEMMA RunsStay ==
  ASSUME NEW r, NEW cs, NEW bs, NEW cs2, NEW bs2, RunOK(r, cs, bs),
         Len(cs) \in Nat, Len(cs2) \in Nat, Len(cs) <= Len(cs2),
         \A p \in BranchPrefixes, n \in Tags : bs[p][n] # 0 => bs2[p][n] = bs[p][n]
  PROVE  RunOK(r, cs2, bs2)
<1>1. CASE r = Idle
  BY <1>1 DEF RunOK
<1>2. CASE r \in Preparing
  BY <1>2 DEF RunOK
<1>3. CASE r \in Branching /\ r.tree.state = UpstreamTag(r.tag)
  BY <1>3 DEF RunOK
<1>4. CASE /\ r \in Committing /\ r.tree.state = UpstreamTag(r.tag)
           /\ r.exists => bs[r.prefix][r.tag] # 0
  <2>1. r.prefix \in BranchPrefixes /\ r.tag \in Tags
    BY <1>4 DEF Committing
  <2>2. QED
    BY <1>4, <2>1 DEF RunOK
<1>5. CASE r \in Heading /\ r.at = "pr" /\ bs[Frontier][r.tag] # 0
  <2>1. r.tag \in Tags /\ Frontier \in BranchPrefixes
    BY <1>5 DEF Heading, BranchPrefixes
  <2>2. QED
    BY <1>5, <2>1 DEF RunOK
<1>6. CASE r \in Heading /\ r.at = "tag" /\ r.head # 0 /\ bs[Backport][r.tag] = r.head
  <2>1. r.tag \in Tags /\ Backport \in BranchPrefixes
    BY <1>6 DEF Heading, BranchPrefixes
  <2>2. QED
    BY <1>6, <2>1 DEF RunOK
<1>7. QED
  BY <1>1, <1>2, <1>3, <1>4, <1>5, <1>6 DEF RunOK

\* The runs when one of them moves, and the branches only grow.
LEMMA RunsMove ==
  ASSUME Typed, RunsOK, NEW w \in Groups, NEW r, run' = [run EXCEPT ![w] = r],
         RunOK(r, commits', branches'),
         Len(commits) \in Nat, Len(commits') \in Nat, Len(commits) <= Len(commits'),
         \A p \in BranchPrefixes, n \in Tags :
            branches[p][n] # 0 => branches'[p][n] = branches[p][n]
  PROVE  RunsOK' /\ run' = [v \in Groups |-> run'[v]]
<1>1. run = [v \in Groups |-> run[v]]
  BY DEF Typed
<1>2. run' = [v \in Groups |-> run'[v]]
  BY <1>1
<1>3. ASSUME NEW v \in Groups
      PROVE  RunOK(run'[v], commits', branches')
  <2>1. CASE v = w
    BY <1>1, <2>1
  <2>2. CASE v # w
    <3>1. run'[v] = run[v]
      BY <1>1, <2>2
    <3>2. RunOK(run[v], commits, branches)
      BY DEF RunsOK
    <3>3. QED
      BY <3>1, <3>2, RunsStay
  <2>3. QED
    BY <2>1, <2>2
<1>4. QED
  BY <1>2, <1>3 DEF RunsOK

-----------------------------------------------------------------------------
(* The steps of the tracker's runs                                          *)

LEMMA InitIInv ==
  ASSUME Init, PipelineAssumption
  PROVE  IInv
<1>1. 1 \in Tags
  BY DEF PipelineAssumption, Tags
<1>2. commits \in Seq(Commits) /\ Len(commits) = 1
  BY <1>1 DEF Init, Commits
<1>3. Typed
  <2>1. branches \in [BranchPrefixes -> [Tags -> 0 .. Len(commits)]]
    BY <1>2 DEF Init, BranchPrefixes
  <2>2. run = [w \in Groups |-> run[w]]
    BY DEF Init
  <2>3. upstream \in Tags /\ main \in 1 .. Len(commits) /\ waiting \in {0, main}
    BY <1>1, <1>2 DEF Init
  <2>4. tags \in [Tags -> Nat] /\ releases \in [Tags -> Nat] /\ pypi \in [Tags -> Nat]
    BY DEF Init
  <2>5. prs \subseteq Tags /\ publish = Idle /\ failed \in BOOLEAN
    BY DEF Init
  <2>6. QED
    BY <1>2, <2>1, <2>2, <2>3, <2>4, <2>5 DEF Typed
<1>4. RunsOK
  BY DEF Init, RunsOK, RunOK
<1>5. TagIsBranchHead /\ Open /\ Paired /\ Accounted
  BY DEF Init, TagIsBranchHead, Open, Paired, Accounted, Released, Idle, BranchPrefixes
<1>6. QED
  BY <1>3, <1>4, <1>5 DEF IInv

\* A step that changes nothing but one run, to what that run may be.
LEMMA RunOnly ==
  ASSUME IInv, NEW w \in Groups, NEW r, RunOK(r, commits, branches),
         run' = [run EXCEPT ![w] = r],
         UNCHANGED <<upstream, commits, main, branches, tags, prs, publishing>>
  PROVE  IInv'
<1>1. Len(commits) \in Nat /\ UNCHANGED <<commits, branches>>
  BY DEF IInv, Typed
<1>2. RunsOK' /\ run' = [v \in Groups |-> run'[v]]
  <2>1. Typed /\ RunsOK
    BY DEF IInv
  <2>2. RunOK(r, commits', branches') /\ Len(commits') \in Nat /\ Len(commits) <= Len(commits')
    BY <1>1
  <2>3. \A p \in BranchPrefixes, n \in Tags : branches'[p][n] = branches[p][n]
    BY <1>1
  <2>4. QED
    BY <1>1, <2>1, <2>2, <2>3, RunsMove
<1>3. Typed'
  BY <1>2 DEF IInv, Typed, publishing
<1>4. TagIsBranchHead' /\ Open'
  BY DEF IInv, TagIsBranchHead, Open
<1>5. Paired' /\ Accounted'
  BY DEF IInv, Paired, Accounted, Released, publishing
<1>6. QED
  BY <1>2, <1>3, <1>4, <1>5 DEF IInv

LEMMA BeginStep ==
  ASSUME IInv, NEW w \in Groups, NEW prefix \in BranchPrefixes,
         NEW target \in {None} \cup Requests, NEW base \in DOMAIN commits,
         Begin(w, prefix, target, base)
  PROVE  IInv'
<1> DEFINE r == [at |-> "prepare", prefix |-> prefix, target |-> target, tree |-> commits[base]]
<1>1. commits[base] \in Commits
  BY DEF IInv, Typed
<1>2. r \in Preparing
  BY <1>1 DEF Preparing
<1>3. RunOK(r, commits, branches)
  BY <1>2 DEF RunOK
<1>4. run' = [run EXCEPT ![w] = r]
  BY DEF Begin
<1>5. UNCHANGED <<upstream, commits, main, branches, tags, prs, publishing>>
  BY DEF Begin, repository
<1> HIDE DEF r
<1>6. QED
  BY <1>3, <1>4, <1>5, RunOnly

\* A run that ends, with nothing else changed.
LEMMA EndStep ==
  ASSUME IInv, NEW w \in Groups, Ends(w),
         UNCHANGED <<upstream, commits, main, branches, tags, prs, publishing>>
  PROVE  IInv'
<1>1. RunOK(Idle, commits, branches)
  BY DEF RunOK
<1>2. QED
  BY <1>1, RunOnly DEF Ends

LEMMA EarlierTags ==
  ASSUME NEW n \in Tags
  PROVE  1 .. n \subseteq Tags
<1>1. \A i \in 1 .. n : i \in 1 .. MaxReleases
  BY PipelineAssumption DEF Tags, PipelineAssumption
<1>2. QED
  BY <1>1 DEF Tags

LEMMA PrepareStep ==
  ASSUME IInv, PipelineAssumption, NEW w \in Groups, Prepare(w)
  PROVE  IInv'
<1>1. run[w] \in Preparing
  <2>1. RunOK(run[w], commits, branches)
    BY DEF IInv, RunsOK
  <2>2. run[w].at = "prepare"
    BY DEF Prepare
  <2>3. QED
    BY <2>1, <2>2 DEF RunOK, Idle, Branching, Committing, Heading
<1> DEFINE tree == run[w].tree
           config == CommandLine(run[w].target, run[w].prefix, FALSE, FALSE)
           released == {UpstreamTag(n) : n \in 1..upstream}
           codex(version) == [status |-> "completed", structured |-> TRUE, version |-> version]
           Result(version) == RunTracker(config, tree, UpstreamTag(upstream), released,
                                         codex(version), TRUE)
<1>2. tree \in Commits
  BY <1>1 DEF Preparing
<1>3. PICK result \in {Result(version) : version \in {None, tree.version}} :
        IF result.outcome # "changed" THEN Ends(w)
        ELSE run' = [run EXCEPT ![w] = [at |-> "branch", prefix |-> result.branch[1],
                                        tag |-> result.branch[2], tree |-> result.tree]]
  BY DEF Prepare
<1>4. PICK version \in {None, tree.version} : result = Result(version)
  BY <1>3
<1>5. PICK cd : cd = codex(version)
  OBVIOUS
<1>6. UNCHANGED <<upstream, commits, main, branches, tags, prs, publishing>>
  BY DEF Prepare, repository
<1>7. CASE result.outcome # "changed"
  BY <1>3, <1>6, <1>7, EndStep
<1>8. CASE result.outcome = "changed"
  <2> DEFINE r == [at |-> "branch", prefix |-> result.branch[1], tag |-> result.branch[2],
                   tree |-> result.tree]
  <2>1. /\ UpstreamTag(upstream) \in {UpstreamTag(k) : k \in Tags}
        /\ released \in SUBSET {UpstreamTag(k) : k \in Tags}
    <3>1. upstream \in Tags
      BY DEF IInv, Typed
    <3>2. 1 .. upstream \subseteq Tags
      BY <3>1, EarlierTags
    <3>3. QED
      BY <3>1, <3>2
  <2>2. Prepares(result, config.prefix) /\ config.prefix \in BranchPrefixes
    <3>1. config.apply = TRUE /\ config.prefix \in BranchPrefixes
      BY <1>1 DEF CommandLine, Preparing
    <3>2. cd.version \in {None} \cup Tags
      BY <1>2, <1>4, <1>5 DEF Commits
    <3>3. result = RunTracker(config, tree, UpstreamTag(upstream), released, cd, TRUE)
      BY <1>4, <1>5
    <3> HIDE DEF config, tree, released
    <3>4. Prepares(result, config.prefix)
      BY ONLY <1>2, <1>8, <2>1, <3>1, <3>2, <3>3, RunPrepares
    <3>5. QED
      BY <3>1, <3>4
  <2>3. r \in Branching /\ r.tree.state = UpstreamTag(r.tag)
    BY <2>2 DEF Branching, Prepares
  <2>4. RunOK(r, commits, branches)
    BY <2>3 DEF RunOK
  <2>5. run' = [run EXCEPT ![w] = r]
    BY <1>3, <1>8
  <2> HIDE DEF r
  <2>6. QED
    BY <1>6, <2>4, <2>5, RunOnly
<1>9. QED
  BY <1>7, <1>8

LEMMA CheckExistingStep ==
  ASSUME IInv, NEW w \in Groups, CheckExisting(w)
  PROVE  IInv'
<1> DEFINE r == [at |-> "commit", prefix |-> run[w].prefix, tag |-> run[w].tag,
                 tree |-> run[w].tree, exists |-> branches[run[w].prefix][run[w].tag] # 0]
<1>1. run[w] \in Branching /\ run[w].tree.state = UpstreamTag(run[w].tag)
  <2>1. RunOK(run[w], commits, branches)
    BY DEF IInv, RunsOK
  <2>2. QED
    BY <2>1 DEF CheckExisting, RunOK, Idle, Preparing, Committing, Heading
<1>2. /\ r \in Committing /\ r.tree.state = UpstreamTag(r.tag)
      /\ r.exists => branches[r.prefix][r.tag] # 0
  BY <1>1 DEF Branching, Committing
<1>3. RunOK(r, commits, branches)
  BY <1>2 DEF RunOK
<1>4. run' = [run EXCEPT ![w] = r]
  BY DEF CheckExisting
<1>5. UNCHANGED <<upstream, commits, main, branches, tags, prs, publishing>>
  BY DEF CheckExisting, repository
<1> HIDE DEF r
<1>6. QED
  BY <1>3, <1>4, <1>5, RunOnly

\* What a run knows when it has looked for its branch.
LEMMA AtCommit ==
  ASSUME IInv, NEW w \in Groups, run[w].at = "commit"
  PROVE  /\ run[w].prefix \in BranchPrefixes /\ run[w].tag \in Tags
         /\ run[w].tree \in Commits /\ run[w].tree.state = UpstreamTag(run[w].tag)
         /\ run[w].exists => branches[run[w].prefix][run[w].tag] # 0
<1>1. RunOK(run[w], commits, branches)
  BY DEF IInv, RunsOK
<1>2. QED
  BY <1>1 DEF RunOK, Idle, Preparing, Branching, Heading, Committing

LEMMA ReuseBranchStep ==
  ASSUME IInv, NEW w \in Groups, ReuseBranch(w)
  PROVE  IInv'
<1>1. run[w].tag \in Tags /\ (run[w].exists => branches[run[w].prefix][run[w].tag] # 0)
  BY AtCommit DEF ReuseBranch
<1>2. UNCHANGED <<upstream, commits, main, branches, tags, prs, publishing>>
  BY DEF ReuseBranch, repository
<1>3. CASE run[w].prefix = Frontier
  <2> DEFINE r == [at |-> "pr", tag |-> run[w].tag, head |-> branches[Frontier][run[w].tag]]
  <2>1. branches[Frontier][run[w].tag] \in Nat
    BY <1>1 DEF IInv, Typed, BranchPrefixes
  <2>2. r \in Heading /\ r.at = "pr" /\ branches[Frontier][r.tag] # 0
    BY <1>1, <1>3, <2>1 DEF Heading, ReuseBranch
  <2>3. RunOK(r, commits, branches)
    BY <2>2 DEF RunOK
  <2>4. run' = [run EXCEPT ![w] = r]
    BY <1>3 DEF ReuseBranch, Reaches
  <2> HIDE DEF r
  <2>5. QED
    BY <1>2, <2>3, <2>4, RunOnly
<1>4. CASE run[w].prefix # Frontier
  BY <1>2, <1>4, EndStep DEF ReuseBranch
<1>5. QED
  BY <1>3, <1>4

LEMMA TagBackportStep ==
  ASSUME IInv, NEW w \in Groups, TagBackport(w)
  PROVE  IInv'
<1>1. /\ run[w] \in Heading /\ run[w].head # 0
      /\ branches[Backport][run[w].tag] = run[w].head
  <2>1. RunOK(run[w], commits, branches)
    BY DEF IInv, RunsOK
  <2>2. run[w].at = "tag"
    BY DEF TagBackport
  <2>3. QED
    BY <2>1, <2>2 DEF RunOK, Idle, Preparing, Branching, Committing
<1>2. /\ UNCHANGED <<upstream, commits, main, branches, prs, publishing>>
      /\ tags' = [tags EXCEPT ![run[w].tag] = IF @ = 0 THEN run[w].head ELSE @]
      /\ run' = [run EXCEPT ![w] = Idle]
  BY DEF TagBackport, Ends
<1>3. run[w].tag \in Tags /\ run[w].head \in Nat
  BY <1>1 DEF Heading
<1>4. tags' \in [Tags -> Nat]
  BY <1>2, <1>3 DEF IInv, Typed
<1>5. RunsOK' /\ run' = [v \in Groups |-> run'[v]]
  <2>1. Typed /\ RunsOK /\ Len(commits) \in Nat
    BY DEF IInv, Typed
  <2>2. RunOK(Idle, commits', branches')
    BY DEF RunOK
  <2>3. Len(commits') \in Nat /\ Len(commits) <= Len(commits')
    BY <1>2, <2>1
  <2>4. \A p \in BranchPrefixes, n \in Tags :
           branches[p][n] # 0 => branches'[p][n] = branches[p][n]
    BY <1>2
  <2>5. QED
    BY <1>2, <2>1, <2>2, <2>3, <2>4, RunsMove
<1>6. Typed'
  BY <1>2, <1>4, <1>5 DEF IInv, Typed, publishing
<1>7. TagIsBranchHead'
  <2>1. \A n \in Tags : tags'[n] # 0 => tags'[n] = branches[Backport][n]
    <3>1. TagIsBranchHead /\ tags \in [Tags -> Nat]
      BY DEF IInv, Typed
    <3>2. QED
      BY <1>1, <1>2, <1>3, <3>1 DEF TagIsBranchHead
  <2>2. QED
    BY <1>2, <2>1 DEF IInv, TagIsBranchHead
<1>8. Open' /\ Paired' /\ Accounted'
  BY <1>2 DEF IInv, Open, Paired, Accounted, Released, publishing
<1>9. QED
  BY <1>5, <1>6, <1>7, <1>8 DEF IInv

LEMMA OpenPrStep ==
  ASSUME IInv, NEW w \in Groups, OpenPr(w)
  PROVE  IInv'
<1>1. run[w].tag \in Tags /\ branches[Frontier][run[w].tag] # 0
  <2>1. RunOK(run[w], commits, branches)
    BY DEF IInv, RunsOK
  <2>2. run[w].at = "pr"
    BY DEF OpenPr
  <2>3. QED
    BY <2>1, <2>2 DEF RunOK, Idle, Preparing, Branching, Committing, Heading
<1>2. /\ UNCHANGED <<upstream, commits, main, branches, tags, publishing>>
      /\ prs' \subseteq prs \cup {run[w].tag}
      /\ run' = [run EXCEPT ![w] = Idle]
  BY DEF OpenPr, Ends
<1>3. RunsOK' /\ run' = [v \in Groups |-> run'[v]]
  <2>1. Typed /\ RunsOK /\ Len(commits) \in Nat
    BY DEF IInv, Typed
  <2>2. RunOK(Idle, commits', branches')
    BY DEF RunOK
  <2>3. Len(commits') \in Nat /\ Len(commits) <= Len(commits')
    BY <1>2, <2>1
  <2>4. \A p \in BranchPrefixes, n \in Tags :
           branches[p][n] # 0 => branches'[p][n] = branches[p][n]
    BY <1>2
  <2>5. QED
    BY <1>2, <2>1, <2>2, <2>3, <2>4, RunsMove
<1>4. prs' \subseteq Tags
  BY <1>1, <1>2 DEF IInv, Typed
<1>5. Typed'
  BY <1>2, <1>3, <1>4 DEF IInv, Typed, publishing
<1>6. TagIsBranchHead' /\ Open'
  BY <1>1, <1>2 DEF IInv, TagIsBranchHead, Open
<1>7. Paired' /\ Accounted'
  BY <1>2 DEF IInv, Paired, Accounted, Released, publishing
<1>8. QED
  BY <1>3, <1>5, <1>6, <1>7 DEF IInv

\* A push is of a branch that is not there.
LEMMA PushStep ==
  ASSUME IInv, NEW w \in Groups, CommitAndPush(w), commits' # commits
  PROVE  IInv'
<1> DEFINE k == Len(commits)
           prefix == run[w].prefix
           tag == run[w].tag
           tree == run[w].tree
<1>1. /\ prefix \in BranchPrefixes /\ tag \in Tags
      /\ tree \in Commits /\ tree.state = UpstreamTag(tag)
  BY AtCommit DEF CommitAndPush
<1>2. /\ branches[prefix][tag] = 0
      /\ commits' = Append(commits, tree)
      /\ branches' = [branches EXCEPT ![prefix][tag] = Len(commits')]
      /\ run' = [run EXCEPT ![w] = [at |-> IF prefix = Frontier THEN "pr" ELSE "tag",
                                    tag |-> tag, head |-> Len(commits')]]
      /\ UNCHANGED <<upstream, main, tags, prs, publishing>>
  BY DEF CommitAndPush, PushBranch, Reaches
<1>3. /\ commits \in Seq(Commits) /\ k \in Nat /\ main \in 1 .. k
      /\ branches \in [BranchPrefixes -> [Tags -> 0 .. k]]
  BY DEF IInv, Typed
<1>4. /\ commits' \in Seq(Commits) /\ Len(commits') = k + 1
      /\ commits'[k + 1] = tree
      /\ \A i \in 1 .. k : commits'[i] = commits[i]
  BY <1>1, <1>2, <1>3, Appended
<1> HIDE DEF k, prefix, tag, tree
<1>5. /\ branches' \in [BranchPrefixes -> [Tags -> 0 .. Len(commits')]]
      /\ \A q \in BranchPrefixes, m \in Tags :
            branches'[q][m] = IF q = prefix /\ m = tag THEN k + 1 ELSE branches[q][m]
  BY <1>1, <1>2, <1>3, <1>4, NestedUpdate
<1>6. \A q \in BranchPrefixes, m \in Tags :
         branches[q][m] # 0 => branches'[q][m] = branches[q][m]
  BY <1>2, <1>5
<1>7. RunsOK' /\ run' = [v \in Groups |-> run'[v]]
  <2> DEFINE r == [at |-> IF prefix = Frontier THEN "pr" ELSE "tag",
                   tag |-> tag, head |-> k + 1]
  <2>1. r \in Heading /\ r.head # 0 /\ r.head = k + 1 /\ r.tag = tag
    BY <1>1, <1>3 DEF Heading
  <2>2. branches'[prefix][tag] = k + 1 /\ k + 1 # 0
    BY <1>1, <1>3, <1>5
  <2>3. RunOK(r, commits', branches')
    <3>1. CASE prefix = Frontier
      BY <2>1, <2>2, <3>1 DEF RunOK
    <3>2. CASE prefix = Backport /\ prefix # Frontier
      BY <2>1, <2>2, <3>2 DEF RunOK
    <3>3. QED
      BY <1>1, <3>1, <3>2 DEF BranchPrefixes
  <2>4. run' = [run EXCEPT ![w] = r]
    BY <1>2, <1>4
  <2>5. Typed /\ RunsOK /\ Len(commits) \in Nat /\ Len(commits') \in Nat
    BY <1>3, <1>4 DEF IInv, k
  <2>6. Len(commits) <= Len(commits')
    BY <1>3, <1>4 DEF k
  <2> HIDE DEF r
  <2>7. QED
    BY <1>6, <2>3, <2>4, <2>5, <2>6, RunsMove
<1>8. main \in 1 .. Len(commits') /\ k <= Len(commits')
  BY <1>3, <1>4
<1>9. Typed'
  <2>1. publish = Idle \/ (publish \in Publishing /\ publish.sha \in 1 .. Len(commits'))
    BY <1>3, <1>4 DEF IInv, Typed, k
  <2>2. QED
    BY <1>2, <1>4, <1>5, <1>7, <1>8, <2>1 DEF IInv, Typed, publishing
<1>10. TagIsBranchHead'
  <2>1. TagIsBranchHead /\ Frontier \in BranchPrefixes /\ Backport \in BranchPrefixes
    BY DEF IInv, BranchPrefixes
  <2>2. ASSUME NEW n \in Tags, tags[n] # 0
        PROVE  tags[n] = branches'[Backport][n]
    BY <1>6, <2>1, <2>2 DEF TagIsBranchHead
  <2>3. ASSUME NEW n \in Tags, NEW p \in BranchPrefixes, branches'[p][n] # 0
        PROVE  commits'[branches'[p][n]].state = UpstreamTag(n)
    <3>1. CASE p = prefix /\ n = tag
      BY <1>1, <1>4, <1>5, <3>1
    <3>2. CASE ~(p = prefix /\ n = tag)
      <4>1. branches'[p][n] = branches[p][n] /\ branches[p][n] \in 1 .. k
        BY <1>3, <1>5, <2>3, <3>2
      <4>2. commits[branches[p][n]].state = UpstreamTag(n)
        BY <2>1, <2>3, <4>1 DEF TagIsBranchHead, BranchPrefixes
      <4>3. QED
        BY <1>4, <4>1, <4>2
    <3>3. QED
      BY <3>1, <3>2
  <2>4. QED
    BY <1>2, <2>2, <2>3 DEF TagIsBranchHead, BranchPrefixes
<1>11. Open'
  BY <1>2, <1>6 DEF IInv, Open, Typed, BranchPrefixes
<1>12. Paired'
  BY <1>2 DEF IInv, Paired, publishing
<1>13. Accounted'
  <2>1. commits'[main] = commits[main]
    BY <1>3, <1>4
  <2>2. QED
    BY <1>2, <2>1 DEF IInv, Accounted, Released, publishing
<1>14. QED
  BY <1>7, <1>9, <1>10, <1>11, <1>12, <1>13 DEF IInv

LEMMA CommitAndPushStep ==
  ASSUME IInv, NEW w \in Groups, CommitAndPush(w)
  PROVE  IInv'
<1>1. CASE branches[run[w].prefix][run[w].tag] = 0
  <2>1. commits' = Append(commits, run[w].tree)
    BY <1>1 DEF CommitAndPush, PushBranch
  <2>2. commits \in Seq(Commits) /\ run[w].tree \in Commits
    BY AtCommit DEF IInv, Typed, CommitAndPush
  <2>3. Len(commits') = Len(commits) + 1 /\ Len(commits) \in Nat
    BY <2>1, <2>2, Appended
  <2>4. commits' # commits
    BY <2>3
  <2>5. QED
    BY <2>4, PushStep
<1>2. CASE branches[run[w].prefix][run[w].tag] # 0
  <2>1. Ends(w) /\ UNCHANGED <<upstream, commits, main, branches, tags, prs, publishing>>
    BY <1>2 DEF CommitAndPush
  <2>2. QED
    BY <2>1, EndStep
<1>3. QED
  BY <1>1, <1>2

-----------------------------------------------------------------------------
(* The people who review, and the releases upstream                         *)

\* Whatever commit main gets, a run is queued for it.
LEMMA MainMovesStep ==
  ASSUME IInv, NEW commit \in Commits, MainMoves(commit), prs' \subseteq prs,
         UNCHANGED <<upstream, run>>
  PROVE  IInv'
<1> DEFINE k == Len(commits)
<1>1. /\ commits \in Seq(Commits) /\ k \in Nat /\ main \in 1 .. k
      /\ branches \in [BranchPrefixes -> [Tags -> 0 .. k]]
  BY DEF IInv, Typed
<1>2. /\ commits' = Append(commits, commit)
      /\ main' = Len(commits') /\ waiting' = Len(commits')
      /\ UNCHANGED <<branches, tags, publish, releases, pypi, torn, failed>>
  BY DEF MainMoves
<1>3. /\ commits' \in Seq(Commits) /\ Len(commits') = k + 1
      /\ \A i \in 1 .. k : commits'[i] = commits[i]
  BY <1>1, <1>2, Appended
<1> HIDE DEF k
<1>4. main' \in 1 .. Len(commits') /\ waiting' \in {0, main'} /\ waiting' # 0
  BY <1>1, <1>2, <1>3
<1>5. branches' \in [BranchPrefixes -> [Tags -> 0 .. Len(commits')]]
  <2>1. \A q \in BranchPrefixes, m \in Tags : branches[q][m] \in 0 .. k + 1
    BY <1>1
  <2>2. QED
    BY <1>1, <1>2, <1>3, <2>1
<1>6. publish = Idle \/ (publish \in Publishing /\ publish.sha \in 1 .. Len(commits'))
  BY <1>1, <1>3 DEF IInv, Typed, k
<1>7. Typed'
  BY <1>2, <1>3, <1>4, <1>5, <1>6 DEF IInv, Typed
<1>8. RunsOK'
  <2>1. Len(commits) \in Nat /\ Len(commits') \in Nat /\ Len(commits) <= Len(commits')
    BY <1>1, <1>3 DEF k
  <2>2. \A p \in BranchPrefixes, n \in Tags :
           branches[p][n] # 0 => branches'[p][n] = branches[p][n]
    BY <1>2
  <2>3. ASSUME NEW w \in Groups
        PROVE  RunOK(run[w], commits', branches')
    <3>1. RunOK(run[w], commits, branches)
      BY DEF IInv, RunsOK
    <3>2. QED
      BY <2>1, <2>2, <3>1, RunsStay
  <2>4. QED
    BY <2>3 DEF RunsOK
<1>9. TagIsBranchHead'
  <2>1. ASSUME NEW n \in Tags, NEW p \in BranchPrefixes, branches[p][n] # 0
        PROVE  commits'[branches[p][n]].state = UpstreamTag(n)
    <3>1. branches[p][n] \in 1 .. k
      BY <1>1, <2>1
    <3>2. commits[branches[p][n]].state = UpstreamTag(n)
      BY <2>1 DEF IInv, TagIsBranchHead, BranchPrefixes
    <3>3. QED
      BY <1>3, <3>1, <3>2
  <2>2. \A n \in Tags : tags[n] # 0 => tags[n] = branches[Backport][n]
    BY DEF IInv, TagIsBranchHead
  <2>3. QED
    BY <1>2, <2>1, <2>2 DEF TagIsBranchHead, BranchPrefixes
<1>10. Open' /\ Paired'
  BY <1>2 DEF IInv, Open, Paired
<1>11. Accounted'
  BY <1>4 DEF Accounted
<1>12. QED
  BY <1>7, <1>8, <1>9, <1>10, <1>11 DEF IInv

LEMMA MergeStep ==
  ASSUME IInv, NEW n \in Tags, Merge(n)
  PROVE  IInv'
<1>1. branches[Frontier][n] \in 1 .. Len(commits)
  <2>1. branches[Frontier][n] # 0
    BY DEF IInv, Open, Merge
  <2>2. branches[Frontier][n] \in 0 .. Len(commits) /\ Len(commits) \in Nat
    BY DEF IInv, Typed, BranchPrefixes
  <2>3. QED
    BY <2>1, <2>2
<1>2. commits[branches[Frontier][n]] \in Commits
  BY <1>1 DEF IInv, Typed
<1>3. /\ MainMoves(commits[branches[Frontier][n]]) /\ prs' \subseteq prs
      /\ UNCHANGED <<upstream, run>>
  BY DEF Merge
<1>4. QED
  BY <1>2, <1>3, MainMovesStep

LEMMA PushToMainStep ==
  ASSUME IInv, PushToMain
  PROVE  IInv'
<1>1. commits[main] \in Commits
  BY DEF IInv, Typed
<1>2. MainMoves(commits[main]) /\ prs' \subseteq prs /\ UNCHANGED <<upstream, run>>
  BY DEF PushToMain
<1>3. QED
  BY <1>1, <1>2, MainMovesStep

\* A step that changes neither the repository nor what is published.
LEMMA QuietStep ==
  ASSUME IInv, UNCHANGED <<commits, main, branches, tags, run, publishing>>,
         upstream' \in Tags, prs' \subseteq prs
  PROVE  IInv'
<1>1. Typed'
  BY DEF IInv, Typed, publishing
<1>2. RunsOK' /\ TagIsBranchHead' /\ Open'
  BY DEF IInv, RunsOK, TagIsBranchHead, Open
<1>3. Paired' /\ Accounted'
  BY DEF IInv, Paired, Accounted, Released, publishing
<1>4. QED
  BY <1>1, <1>2, <1>3 DEF IInv

LEMMA UpstreamReleasesStep ==
  ASSUME IInv, UpstreamReleases
  PROVE  IInv'
<1>1. upstream \in Tags
  BY DEF IInv, Typed
<1>2. upstream' \in Tags
  BY <1>1, PipelineAssumption DEF UpstreamReleases, Tags, PipelineAssumption
<1>3. QED
  BY <1>2, QuietStep DEF UpstreamReleases, repository

LEMMA CloseUnmergedStep ==
  ASSUME IInv, NEW n \in Tags, CloseUnmerged(n)
  PROVE  IInv'
<1>1. upstream' \in Tags /\ prs' \subseteq prs
  BY DEF CloseUnmerged, IInv, Typed
<1>2. QED
  BY <1>1, QuietStep DEF CloseUnmerged

-----------------------------------------------------------------------------
(* The steps of publishing                                                  *)

\* What is published touches no run and no branch.
LEMMA Published ==
  ASSUME IInv, UNCHANGED <<upstream, repository, run>>,
         waiting' \in {0, main},
         publish' = Idle \/ (publish' \in Publishing /\ publish'.sha \in 1 .. Len(commits)),
         releases' \in [Tags -> Nat], pypi' \in [Tags -> Nat], failed' \in BOOLEAN,
         Paired', Accounted'
  PROVE  IInv'
<1>1. Typed'
  BY DEF IInv, Typed, repository
<1>2. RunsOK' /\ TagIsBranchHead' /\ Open'
  BY DEF IInv, RunsOK, TagIsBranchHead, Open, repository
<1>3. QED
  BY <1>1, <1>2 DEF IInv

LEMMA StartPublishingStep ==
  ASSUME IInv, StartPublishing
  PROVE  IInv'
<1> DEFINE commit == commits[main]
<1>1. /\ waiting = main /\ waiting' = 0 /\ publish = Idle
      /\ main \in 1 .. Len(commits) /\ commit \in Commits
  BY DEF IInv, Typed, StartPublishing
<1>2. UNCHANGED <<upstream, repository, run, releases, pypi, torn>>
  BY DEF StartPublishing
<1>3. commit.version \in Tags /\ (Released <=> BuildReleaseTag(commit.state) = Tag("v", commit.version))
  BY <1>1 DEF Commits, Released, BuildReleaseTag, Tag
<1>4. UNCHANGED <<main, commits>>
  BY <1>2 DEF repository
<1>5. Released' <=> Released
  BY <1>4 DEF Released
<1>6. Paired
  BY DEF IInv
<1>7. CASE ~Released
  <2>1. failed' = FALSE /\ publish' = Idle
    BY <1>1, <1>3, <1>7 DEF StartPublishing
  <2>2. Paired'
    BY <1>1, <1>2, <1>6, <2>1 DEF Paired
  <2>3. Accounted'
    BY <1>5, <1>7 DEF Accounted
  <2>4. releases' \in [Tags -> Nat] /\ pypi' \in [Tags -> Nat]
    BY <1>2 DEF IInv, Typed
  <2>5. QED
    BY <1>1, <1>2, <2>1, <2>2, <2>3, <2>4, Published
<1>8. CASE Released
  <2>1. /\ publish' = [at |-> "release", sha |-> main, version |-> commit.version]
        /\ failed' = failed
    BY <1>1, <1>3, <1>8 DEF StartPublishing
  <2>2. publish' \in Publishing /\ publish'.sha \in 1 .. Len(commits) /\ publish' # Idle
    <3>1. main \in Nat
      BY <1>1
    <3>2. publish'.at = "release" /\ Idle.at = "idle"
      BY <2>1 DEF Idle
    <3>3. QED
      BY <1>1, <1>3, <2>1, <3>1, <3>2 DEF Publishing
  <2>3. Paired'
    BY <1>1, <1>2, <1>6, <2>1 DEF Paired
  <2>4. Accounted'
    BY <1>4, <2>1, <2>2 DEF Accounted
  <2>5. releases' \in [Tags -> Nat] /\ pypi' \in [Tags -> Nat] /\ failed' \in BOOLEAN
    BY <1>2, <2>1 DEF IInv, Typed
  <2>6. QED
    BY <1>1, <1>2, <2>2, <2>3, <2>4, <2>5, Published
<1>9. QED
  BY <1>7, <1>8

\* The run that is publishing, by its fields.
LEMMA InProgress ==
  ASSUME IInv, publish # Idle
  PROVE  /\ publish.at \in {"release", "upload"} /\ publish.version \in Tags
         /\ publish.sha \in 1 .. Len(commits) /\ publish.sha \in Nat \ {0}
         /\ publish = [at |-> publish.at, sha |-> publish.sha, version |-> publish.version]
<1>1. publish \in Publishing /\ publish.sha \in 1 .. Len(commits) /\ Len(commits) \in Nat
  BY DEF IInv, Typed
<1>2. QED
  BY <1>1 DEF Publishing

LEMMA HeadOfMain ==
  ASSUME IInv
  PROVE  commits[main].version \in Tags
<1>1. commits[main] \in Commits
  BY DEF IInv, Typed
<1>2. QED
  BY <1>1 DEF Commits

LEMMA CreateReleaseStep ==
  ASSUME IInv, CreateRelease
  PROVE  IInv'
<1> DEFINE version == publish.version
<1>1. publish # Idle /\ publish.at = "release"
  BY DEF CreateRelease, Idle
<1>2. /\ version \in Tags /\ publish.sha \in 1 .. Len(commits) /\ publish.sha \in Nat \ {0}
      /\ publish' = [at |-> "upload", sha |-> publish.sha, version |-> version]
  BY <1>1, InProgress DEF CreateRelease
<1>3. /\ releases' = [releases EXCEPT ![version] = IF @ # 0 THEN @ ELSE publish.sha]
      /\ UNCHANGED <<upstream, repository, run, waiting, pypi, torn, failed>>
  BY DEF CreateRelease
<1>4. /\ releases \in [Tags -> Nat] /\ pypi \in [Tags -> Nat] /\ failed \in BOOLEAN
      /\ waiting \in {0, main} /\ Paired /\ Accounted
  BY DEF IInv, Typed
<1>5. publish' \in Publishing /\ publish' # Idle
  <2>1. publish'.at = "upload" /\ Idle.at = "idle"
    BY <1>2 DEF Idle
  <2>2. QED
    BY <1>2, <2>1 DEF Publishing
<1>6. /\ releases' \in [Tags -> Nat] /\ releases'[version] # 0
      /\ \A v \in Tags : releases[v] # 0 => releases'[v] = releases[v]
      /\ \A v \in Tags : v # version => releases'[v] = releases[v]
      /\ releases[version] = 0 => releases'[version] = publish.sha
  BY <1>2, <1>3, <1>4
<1>7. Paired'
  <2>1. publish'.version = version /\ publish'.sha = publish.sha /\ publish'.at = "upload"
    BY <1>2
  <2>2. ASSUME NEW v \in Tags
        PROVE  /\ pypi[v] # 0 => releases'[v] # 0 /\ (releases'[v] = pypi[v] \/ v \in torn)
               /\ releases'[v] # 0 /\ pypi[v] = 0 =>
                     v \in torn \/ (version = v /\ publish.sha = releases'[v])
    BY <1>1, <1>4, <1>6 DEF Paired
  <2>3. QED
    BY <1>3, <1>5, <1>6, <2>1, <2>2 DEF Paired
<1>8. Accounted'
  <2>1. publish'.version = publish.version
    BY <1>2
  <2>2. commits[main].version \in Tags
    BY HeadOfMain
  <2>3. QED
    BY <1>1, <1>3, <1>4, <1>5, <1>6, <2>1, <2>2 DEF Accounted, Released, repository
<1>9. UNCHANGED <<upstream, repository, run>> /\ waiting' \in {0, main} /\ failed' \in BOOLEAN
      /\ pypi' \in [Tags -> Nat] /\ publish'.sha \in 1 .. Len(commits)
  BY <1>2, <1>3, <1>4
<1>10. QED
  BY <1>5, <1>6, <1>7, <1>8, <1>9, Published

LEMMA PublishStep ==
  ASSUME IInv, Publish
  PROVE  IInv'
<1> DEFINE version == publish.version
<1>1. publish # Idle /\ publish.at = "upload"
  BY DEF Publish, Idle
<1>2. version \in Tags /\ publish.sha \in Nat \ {0}
  BY <1>1, InProgress
<1>3. /\ pypi' = [pypi EXCEPT ![version] = IF @ # 0 THEN @ ELSE publish.sha]
      /\ publish' = Idle /\ failed' = FALSE
      /\ UNCHANGED <<upstream, repository, run, waiting, releases, torn>>
  BY DEF Publish
<1>4. /\ releases \in [Tags -> Nat] /\ pypi \in [Tags -> Nat]
      /\ waiting \in {0, main} /\ Paired /\ Accounted
  BY DEF IInv, Typed
<1>5. /\ pypi' \in [Tags -> Nat] /\ pypi'[version] # 0
      /\ \A v \in Tags : pypi[v] # 0 => pypi'[v] = pypi[v]
      /\ \A v \in Tags : v # version => pypi'[v] = pypi[v]
      /\ pypi[version] = 0 => pypi'[version] = publish.sha
  BY <1>2, <1>3, <1>4
<1>6. Paired'
  <2>1. ASSUME NEW v \in Tags
        PROVE  /\ pypi'[v] # 0 => releases[v] # 0 /\ (releases[v] = pypi'[v] \/ v \in torn)
               /\ releases[v] # 0 /\ pypi'[v] = 0 => v \in torn
    BY <1>1, <1>4, <1>5 DEF Paired
  <2>2. QED
    BY <1>3, <2>1 DEF Paired
<1>7. Accounted'
  <2>1. releases[version] # 0
    BY <1>1, <1>4 DEF Paired
  <2>2. commits[main].version \in Tags
    BY HeadOfMain
  <2>3. QED
    BY <1>1, <1>3, <1>4, <1>5, <2>1, <2>2 DEF Accounted, Released, repository
<1>8. UNCHANGED <<upstream, repository, run>> /\ waiting' \in {0, main} /\ failed' \in BOOLEAN
      /\ releases' \in [Tags -> Nat]
  BY <1>3, <1>4
<1>9. QED
  BY <1>3, <1>5, <1>6, <1>7, <1>8, Published

LEMMA PublishingFailsStep ==
  ASSUME IInv, PublishingFails
  PROVE  IInv'
<1>1. /\ publish # Idle /\ publish' = Idle /\ failed' = TRUE
      /\ torn' = IF publish.at = "upload" /\ pypi[publish.version] = 0
                 THEN torn \cup {publish.version} ELSE torn
      /\ UNCHANGED <<upstream, repository, run, waiting, releases, pypi>>
  BY DEF PublishingFails
<1>2. publish.version \in Tags
  BY <1>1, InProgress
<1>3. /\ releases \in [Tags -> Nat] /\ pypi \in [Tags -> Nat]
      /\ waiting \in {0, main} /\ Paired /\ Accounted
  BY DEF IInv, Typed
<1>4. Paired'
  <2>1. ASSUME NEW v \in Tags
        PROVE  /\ pypi[v] # 0 => releases[v] # 0 /\ (releases[v] = pypi[v] \/ v \in torn')
               /\ releases[v] # 0 /\ pypi[v] = 0 => v \in torn'
    BY <1>1, <1>2, <1>3 DEF Paired
  <2>2. QED
    BY <1>1, <2>1 DEF Paired
<1>5. Accounted'
  BY <1>1 DEF Accounted
<1>6. UNCHANGED <<upstream, repository, run>> /\ waiting' \in {0, main} /\ failed' \in BOOLEAN
      /\ releases' \in [Tags -> Nat] /\ pypi' \in [Tags -> Nat]
  BY <1>1, <1>3
<1>7. QED
  BY <1>1, <1>4, <1>5, <1>6, Published

LEMMA DispatchPublishingStep ==
  ASSUME IInv, DispatchPublishing
  PROVE  IInv'
<1>1. /\ waiting' = main
      /\ UNCHANGED <<upstream, repository, run, publish, releases, pypi, torn, failed>>
  BY DEF DispatchPublishing
<1>2. /\ releases \in [Tags -> Nat] /\ pypi \in [Tags -> Nat] /\ failed \in BOOLEAN
      /\ publish = Idle \/ (publish \in Publishing /\ publish.sha \in 1 .. Len(commits))
      /\ main \in 1 .. Len(commits) /\ Paired
  BY DEF IInv, Typed
<1>3. Paired'
  BY <1>1, <1>2 DEF Paired
<1>4. waiting' # 0
  BY <1>1, <1>2
<1>5. Accounted'
  BY <1>4 DEF Accounted
<1>6. /\ releases' \in [Tags -> Nat] /\ pypi' \in [Tags -> Nat] /\ failed' \in BOOLEAN
      /\ publish' = Idle \/ (publish' \in Publishing /\ publish'.sha \in 1 .. Len(commits))
      /\ waiting' \in {0, main} /\ UNCHANGED <<upstream, repository, run>>
  BY <1>1, <1>2
<1>7. QED
  BY <1>3, <1>5, <1>6, Published

-----------------------------------------------------------------------------
(* The theorems                                                             *)

LEMMA StepPreserves ==
  ASSUME IInv, PipelineAssumption, [Next]_vars
  PROVE  IInv'
<1>1. CASE UpstreamReleases
  BY <1>1, UpstreamReleasesStep
<1>2. CASE Schedule \/ Dispatch
  <2>1. /\ Tracker \in Groups /\ Requests \subseteq Groups /\ main \in DOMAIN commits
        /\ Frontier \in BranchPrefixes /\ Backport \in BranchPrefixes
    BY DEF IInv, Typed, Groups, BranchPrefixes
  <2>2. PICK w \in Groups, prefix \in BranchPrefixes, target \in {None} \cup Requests,
             base \in DOMAIN commits : Begin(w, prefix, target, base)
    <3>1. CASE Schedule
      BY <2>1, <3>1 DEF Schedule
    <3>2. CASE Dispatch
      <4>1. PICK base \in DOMAIN commits, target \in Requests :
               \/ \E prefix \in {Frontier, Backport} :
                     Begin(Tracker, prefix, None, base) \/ Begin(Tracker, prefix, target, base)
               \/ Begin(target, Backport, target, base)
        BY <3>2 DEF Dispatch
      <4>2. QED
        BY <2>1, <4>1 DEF BranchPrefixes
    <3>3. QED
      BY <1>2, <3>1, <3>2
  <2>3. QED
    BY <2>2, BeginStep
<1>3. ASSUME NEW w \in Groups, Step(w)
      PROVE  IInv'
  BY <1>3, PrepareStep, CheckExistingStep, CommitAndPushStep, ReuseBranchStep,
     TagBackportStep, OpenPrStep DEF Step
<1>4. ASSUME NEW w \in Groups, RunFails(w)
      PROVE  IInv'
  BY <1>4, EndStep DEF RunFails, Ends, repository
<1>5. ASSUME NEW n \in Tags, Merge(n) \/ CloseUnmerged(n)
      PROVE  IInv'
  BY <1>5, MergeStep, CloseUnmergedStep
<1>6. CASE PushToMain
  BY <1>6, PushToMainStep
<1>7. CASE StartPublishing \/ CreateRelease \/ Publish \/ PublishingFails \/ DispatchPublishing
  BY <1>7, StartPublishingStep, CreateReleaseStep, PublishStep, PublishingFailsStep,
     DispatchPublishingStep
<1>8. CASE UNCHANGED vars
  <2>1. upstream \in Tags
    BY DEF IInv, Typed
  <2>2. QED
    BY <1>8, <2>1, QuietStep DEF vars, repository
<1>9. QED
  BY <1>1, <1>2, <1>3, <1>4, <1>5, <1>6, <1>7, <1>8 DEF Next

LEMMA Inductive == Spec => []IInv
<1>1. Init => IInv
  BY InitIInv, PipelineAssumption
<1>2. IInv /\ [Next]_vars => IInv'
  BY StepPreserves, PipelineAssumption
<1>3. QED
  BY <1>1, <1>2, PTL DEF Spec

\* The workflows share no lock, nor do backports for two spellings of a version; a run
\* starts from any commit, and may stop between the push of a branch and that of its tag:
\* still a tag of a backport is on the head of its branch, and the head tracks that
\* release, however many runs there are at once, however many by hand, and however many fail.
THEOREM BackportsAreIntact == Spec => []TagIsBranchHead
<1>1. IInv => TagIsBranchHead
  BY DEF IInv
<1>2. QED
  BY <1>1, Inductive, PTL

\* GitHub and PyPI have a version from one commit unless a run was torn between them,
\* and a head of main that no publishing run is left for is out on both: replacing the
\* queued run by a later one loses nothing of the head.
THEOREM PublishingAgrees == Spec => []ReleasesAgree
<1>1. IInv => ReleasesAgree
  BY DEF IInv, Paired, Accounted, Released, ReleasesAgree
<1>2. QED
  BY <1>1, Inductive, PTL
=============================================================================
