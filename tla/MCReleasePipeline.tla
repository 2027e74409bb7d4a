-------------------------- MODULE MCReleasePipeline --------------------------
EXTENDS ReleasePipeline, BackportHistory

-----------------------------------------------------------------------------
(* Facts about one run of the tracker, over every small checkout *)

Releases == {Tag(style, n) : style \in {"rust-v", "v"}, n \in 1..2}
Trees == [state : Releases \cup {None}, version : {1, 2, 3, None}]
Targets == Releases \cup {None, Tag("", 1), Tag("", 2), Tag("", 3)}
CodexRuns == [status : {"completed", "failed"}, structured : BOOLEAN, version : {None, 3}]
Configs == {CommandLine(target, Frontier, dryRun, skip) :
                target \in Targets, dryRun \in BOOLEAN, skip \in BOOLEAN}

\* A run that raises, at whatever step, has not moved the state file, so that the next
\* run finds the drift again; and on the checkout the first one left it prepares what
\* it would have prepared on a clean one.
ASSUME RaisedRunsCanBeRepeated ==
    \A tree \in Trees, published \in SUBSET Releases, config \in Configs, codex \in CodexRuns :
        \A latest \in published :
            LET first == RunTracker(config, tree, latest, published, codex, FALSE)
                good == [status |-> "completed", structured |-> TRUE, version |-> None]
                again == RunTracker(config, first.tree, latest, published, good, TRUE)
            IN  first.outcome = "raised" =>
                    /\ first.tree.state = tree.state
                    /\ again = RunTracker(config, tree, latest, published, good, TRUE)

\* A release that was asked for by version is found under every style there has been,
\* and never another version in its place.
ASSUME RequestedVersionIsFound ==
    \A state \in Releases \cup {None}, published \in SUBSET Releases, target \in Targets \ {None} :
        \A latest \in published :
            LET found == ResolveTargetRelease(target, state, latest, published)
                versions == {NormalizeReleaseVersion(tag) : tag \in published}
            IN  /\ found # None => NormalizeReleaseVersion(found) = NormalizeReleaseVersion(target)
                /\ (found = None) = (NormalizeReleaseVersion(target) \notin versions)

-----------------------------------------------------------------------------
(* Facts about the walk over the history *)

Listing(n, day, draft) ==
    [tag |-> Tag("rust-v", n), published |-> day, draft |-> draft, prerelease |-> FALSE]
Listings == {Listing(n, day, draft) : n \in 1..3, day \in 1..3, draft \in BOOLEAN}
Histories == {h \in [1..3 -> Listings] : \A i \in 1..3 : h[i].tag[2] = i}
CompareOf == [tag \in {Tag("rust-v", n) : n \in 1..3} |->
                 [commits |-> 5 + 7 * tag[2], files |-> <<[additions |-> 1200, deletions |-> 0]>>]]
Plan(current, all, oldest, limit) ==
    PlanHistoricalBackports(current, all, CompareOf, oldest, limit, DefaultThresholds)

\* The plan walks back in time from the current release, over stable releases only,
\* skips none on the way and goes on past the oldest only when it never meets it.
ASSUME PlanWalksBack ==
    \A all \in Histories, oldest \in 1..4 \cup {None}, limit \in 0..3 \cup {None} :
        LET current == all[3]
            entries == Plan(current, all, oldest, limit)
            at(entry) == CHOOSE i \in 1..3 : all[i].tag = entry.tag
            chosen == {at(entries[n]) : n \in DOMAIN entries}
            earlier == {i \in 1..3 : ~all[i].draft /\ all[i].published < current.published}
        IN  /\ chosen \subseteq earlier
            /\ Len(entries) = Cardinality(chosen)
            /\ \A m, n \in DOMAIN entries : m < n =>
                  all[at(entries[m])].published >= all[at(entries[n])].published
            /\ \A i \in earlier \ chosen, n \in DOMAIN entries :
                  all[i].published <= all[at(entries[n])].published
            /\ limit = None /\ (oldest = None \/ oldest \notin earlier) => chosen = earlier
            /\ \A n \in 1 .. Len(entries) - 1 : at(entries[n]) # oldest

Outcomes == [added : BOOLEAN, removed : BOOLEAN, tracker : {"changed", "raised"},
             numstat : {<<[additions |-> 800, deletions |-> 0]>>}]
Planned == Plan(Listing(3, 3, FALSE), <<Listing(1, 1, FALSE), Listing(2, 2, FALSE)>>, None, None)

\* A preparation that fails takes no other with it: there is a report unless git fails
\* on the worktrees themselves, every planned entry is in it, in order, prepared or
\* failed by its own run alone, and the worktrees are gone unless they were to be kept.
\* Without a report the entries before the failure are lost; all that was left behind
\* is the worktree that could not be removed, and those to be kept.
ASSUME FailuresAreIsolated ==
    \A outcomes \in [1..2 -> Outcomes], keep, fetched \in BOOLEAN :
        LET done == ExecuteHistoricalBackports(Planned, fetched, outcomes, keep, DefaultThresholds)
            report == Report(Listing(3, 3, FALSE), TRUE, Planned, fetched, outcomes, keep,
                             DefaultThresholds)
            gitFails == ~fetched \/ \E n \in 1..2 :
                           ~outcomes[n].added \/ (~keep /\ ~outcomes[n].removed)
        IN  /\ (report = None) = gitFails
            /\ report # None => \A n \in 1..2 :
                  LET entry == report.entries[n]
                  IN  /\ entry.tag = Planned[n].tag
                      /\ (entry.status = "failed") = (outcomes[n].tracker = "raised")
                      /\ entry.worktree = keep
                      /\ Planned[n].notes \subseteq entry.notes
            /\ ~keep => Cardinality(done.left) <= 1 /\ (done.left # {} => done.raised)
=============================================================================
