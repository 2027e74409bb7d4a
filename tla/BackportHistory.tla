---------------------------- MODULE BackportHistory ----------------------------
(***************************************************************************)
(* The plan of the backports of older releases and its execution, each in  *)
(* a worktree of its own (backport_history.py of codex_meta_agent), as a   *)
(* function of what the releases are and of how each command ends.         *)
(***************************************************************************)
EXTENDS VersionTracker, FiniteSetsExt

DefaultThresholds == [commits |-> 12, files |-> 20, lines |-> 1200,
                      diffFiles |-> 15, diffLines |-> 800]

BuildBackportBranch(tag) == BuildTrackingBranch(tag, "puck/backport-release--")
BuildBackportTag(tag) == Tag("backport-v", NormalizeReleaseVersion(tag))

LineDelta(changes) ==
    FoldLeft(LAMBDA sum, c : sum + c.additions + c.deletions, 0, changes)

CollectCompareStats(compare) ==
    [commits |-> compare.commits, files |-> Len(compare.files),
     lines |-> LineDelta(compare.files)]

\* git diff --numstat: a binary file is a file without numbers; an untracked one is none.
CollectDiffStats(numstat) ==
    [files |-> Len(numstat), lines |-> LineDelta(numstat)]

\* The notes a backport gets, one for each threshold it reaches; with any it is major.
AssessBackportEffort(compare, diff, thresholds) ==
    {note \in {"commits", "files", "lines"} : compare[note] >= thresholds[note]}
    \cup (IF diff = None THEN {}
          ELSE {note \in {"diffFiles", "diffLines"} :
                  diff[IF note = "diffFiles" THEN "files" ELSE "lines"] >= thresholds[note]})

\* The releases before the current one, the latest first, down to the oldest that is
\* wanted, if it is met at all.
HistoricalReleases(current, releases, oldest, limit) ==
    LET earlier == SelectSeq(releases, LAMBDA r : r.tag # current.tag
                                                  /\ r.published < current.published)
        order == SetToSortSeq(DOMAIN earlier, LAMBDA i, j :
                     \/ earlier[i].published > earlier[j].published
                     \/ earlier[i].published = earlier[j].published /\ i < j)
        selected == [n \in DOMAIN order |-> earlier[order[n]]]
        stops == {n \in DOMAIN selected :
                    oldest # None /\ NormalizeReleaseVersion(selected[n].tag) = oldest}
        bounds == {Len(selected)} \cup (IF stops = {} THEN {} ELSE {Min(stops)})
                                  \cup (IF limit = None THEN {} ELSE {limit})
    IN  SubSeq(selected, 1, Min(bounds))

PlannedEntry(release, compare, thresholds) ==
    LET stats == CollectCompareStats(compare)
        notes == AssessBackportEffort(stats, None, thresholds)
    IN  [tag |-> release.tag, branch |-> BuildBackportBranch(release.tag),
         tagName |-> BuildBackportTag(release.tag), compare |-> stats, diff |-> None,
         notes |-> notes, major |-> notes # {}, status |-> "planned", worktree |-> FALSE]

PlanHistoricalBackports(current, all, compareOf, oldest, limit, thresholds) ==
    LET planned == HistoricalReleases(current, ListReleases(all, TRUE, None), oldest, limit)
    IN  [n \in DOMAIN planned |->
            PlannedEntry(planned[n], compareOf[planned[n].tag], thresholds)]

\* What becomes of an entry in its worktree: outcome has how the tracker ended and what
\* git says of the worktree then.  A run that raises leaves the notes of the plan.
PreparedEntry(entry, outcome, thresholds) ==
    IF outcome.tracker = "raised"
    THEN [entry EXCEPT !.status = "failed", !.notes = @ \cup {"failed"}]
    ELSE LET diff == CollectDiffStats(outcome.numstat)
             notes == AssessBackportEffort(entry.compare, diff, thresholds)
         IN  [entry EXCEPT !.status = "prepared", !.diff = diff, !.notes = notes,
                           !.major = notes # {}]

\* One turn of the loop.  A worktree that cannot be added, or cannot be removed again,
\* ends the whole execution, with what was prepared so far.
ExecuteEntry(done, entry, outcome, keep, thresholds) ==
    LET prepared == [PreparedEntry(entry, outcome, thresholds) EXCEPT !.worktree = keep]
    IN  IF done.raised THEN done
        ELSE IF ~outcome.added THEN [done EXCEPT !.raised = TRUE]
        ELSE IF ~keep /\ ~outcome.removed
             THEN [done EXCEPT !.raised = TRUE, !.left = @ \cup {entry.tag}]
        ELSE [done EXCEPT !.entries = Append(@, prepared),
                          !.left = IF keep THEN @ \cup {entry.tag} ELSE @]

\* left is the worktrees there are afterwards.
ExecuteHistoricalBackports(entries, fetched, outcomes, keep, thresholds) ==
    LET step(done, n) == ExecuteEntry(done, entries[n], outcomes[n], keep, thresholds)
    IN  FoldLeft(step, [raised |-> ~fetched, entries |-> <<>>, left |-> {}],
                 [n \in DOMAIN entries |-> n])

\* main: the report is written when nothing raised; None otherwise.
Report(current, execute, entries, fetched, outcomes, keep, thresholds) ==
    LET executed == ExecuteHistoricalBackports(entries, fetched, outcomes, keep, thresholds)
    IN  IF ~execute \/ entries = <<>>
        THEN [current |-> current.tag, execute |-> execute, entries |-> entries]
        ELSE IF executed.raised THEN None
        ELSE [current |-> current.tag, execute |-> TRUE, entries |-> executed.entries]
=============================================================================
