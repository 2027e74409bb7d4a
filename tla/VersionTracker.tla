----------------------------- MODULE VersionTracker -----------------------------
(***************************************************************************)
(* One run of the tracker on one checkout (version_tracker.py and          *)
(* release_metadata.py of codex_meta_agent).  A release tag is a pair of   *)
(* its style, what stands before the version, and the version it           *)
(* normalises to.  Of a checkout, the release its state file tracks (None  *)
(* without one) and the version of the project matter (None when the       *)
(* project file has no line for it).                                       *)
(***************************************************************************)
EXTENDS Naturals, SequencesExt

CONSTANT None

Tag(style, version) == <<style, version>>
NormalizeReleaseVersion(tag) == tag[2]

BuildReleaseTag(tag) == Tag("v", NormalizeReleaseVersion(tag))
BuildTrackingBranch(tag, prefix) == <<prefix, NormalizeReleaseVersion(tag)>>

\* list_releases, over all the pages: drafts and prereleases are skipped.
ListReleases(all, stableOnly, limit) ==
    LET listed == SelectSeq(all, LAMBDA r : ~stableOnly \/ ~(r.draft \/ r.prerelease))
    IN  IF limit = None \/ limit >= Len(listed) THEN listed ELSE SubSeq(listed, 1, limit)

\* The tags a requested release may have: as it was asked for, in the style of the
\* release that is tracked, or of the latest, and in the styles there have been.
CandidateTags(target, template) ==
    LET version == NormalizeReleaseVersion(target)
    IN  <<target, Tag(template[1], version), Tag("rust-v", version), Tag("v", version),
          Tag("", version)>>

\* _resolve_target_release: the first candidate that GitHub has, None when it raises.
ResolveTargetRelease(target, state, latest, published) ==
    IF target = None THEN latest
    ELSE LET candidates == CandidateTags(target, IF state = None THEN latest ELSE state)
             found == {i \in DOMAIN candidates : candidates[i] \in published}
         IN  IF found = {} THEN None
             ELSE candidates[CHOOSE i \in found : \A j \in found : i <= j]

\* None when there is no line to replace.
SyncProjectVersion(tree, version) ==
    IF tree.version = None THEN None ELSE [tree EXCEPT !.version = version]

\* A turn that does not complete, or whose answer is not of the schema, raises.  What
\* Codex does to the files is its own affair: codex.version is what it writes over the
\* version, or None.
InvokeCodex(tree, codex) ==
    IF codex.status # "completed" \/ ~codex.structured THEN None
    ELSE [tree EXCEPT !.version = IF codex.version = None THEN @ ELSE codex.version]

WriteTrackingState(tree, release) == [tree EXCEPT !.state = release]

\* main: a dry run neither changes the checkout nor verifies it.
CommandLine(target, prefix, dryRun, skipVerification) ==
    [target |-> target, prefix |-> prefix, apply |-> ~dryRun,
     verify |-> ~skipVerification /\ ~dryRun]

Changed(release, prefix, tree) ==
    [outcome |-> "changed", release |-> release, branch |-> BuildTrackingBranch(release, prefix),
     tree |-> tree]
Unchanged(tree) == [outcome |-> "unchanged", tree |-> tree]
Raised(tree) == [outcome |-> "raised", tree |-> tree]

\* VersionTracker.run: by the way it ends, and the checkout it leaves behind, which a
\* run that raises has changed as far as it got.  The state file is written last.
RunTracker(config, tree, latest, published, codex, verified) ==
    LET release == ResolveTargetRelease(config.target, tree.state, latest, published)
        synced == SyncProjectVersion(tree, NormalizeReleaseVersion(release))
        edited == InvokeCodex(synced, codex)
    IN  IF release = None THEN Raised(tree)
        ELSE IF release = tree.state THEN Unchanged(tree)
        ELSE IF ~config.apply THEN Changed(release, config.prefix, tree)
        ELSE IF synced = None THEN Raised(tree)
        ELSE IF edited = None THEN Raised(synced)
        ELSE IF config.verify /\ ~verified THEN Raised(edited)
        ELSE Changed(release, config.prefix, WriteTrackingState(edited, release))
=============================================================================
