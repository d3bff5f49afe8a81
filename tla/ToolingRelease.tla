-------------------------- MODULE ToolingRelease --------------------------
(***************************************************************************)
(* The GitHub-only release of the tooling archive: the classification the  *)
(* workflow release-tooling-github.yml makes before it runs repository     *)
(* code, and the publisher complete-tooling-github-release.cjs it runs.    *)
(*                                                                         *)
(* A run is a sequence of remote requests, and between any two of them     *)
(* main may move, another maintainer may act on the draft, GitHub may lose *)
(* an answer, and the run itself may die (a failing build, a runner that   *)
(* is lost, the ninety minutes of the job).  The operator then starts      *)
(* another run; the workflow's concurrency group lets only one run at a    *)
(* time.  What is at stake is that a protected tag and an immutable        *)
(* release can never be repaired.                                          *)
(*                                                                         *)
(* Commits are the numbers 0 .. main in the order they reached main.  The  *)
(* archive, its evidence and the notes are functions of the commit they    *)
(* were built from, so their content IS that commit, or Other for anything *)
(* that nobody reviewed.                                                   *)
(***************************************************************************)
EXTENDS Naturals

CONSTANTS Reviewed,   \* the four reviewed asset names
          Extra,      \* an asset name nobody reviewed
          Absent,     \* the content of a name the release does not have
          Other,      \* content that was built from no commit
          None,       \* no tag, no release
          MaxMain,    \* main moves at most this often
          MaxFaults,  \* requests and runs that fail for no reason of theirs
          MaxEdits,   \* acts of other maintainers
          Attempts    \* of the final check (attempts = 6 in the code)

ASSUME BoundsAreNaturals ==
  /\ MaxMain \in Nat /\ MaxFaults \in Nat /\ MaxEdits \in Nat
  /\ Attempts \in Nat \ {0}

VARIABLES main,     \* the newest commit of the protected branch
          tag,      \* the commit of tooling-vX.Y.Z, or None
          release,  \* the GitHub Release of that tag, or None
          run,      \* the one run of the workflow
          faults,   \* faults left
          edits,    \* acts left to other maintainers
          late,     \* names others changed since the run last looked at them
          done      \* the commit some run reported as released, or None

vars == <<main, tag, release, run, faults, edits, late, done>>

Commits  == 0 .. MaxMain
AllNames == Reviewed \union {Extra}
Contents == Commits \union {Other}

Releases == [draft : BOOLEAN, immutable : BOOLEAN, byRun : BOOLEAN,
             notes : Contents, files : [AllNames -> Contents \union {Absent}]]

ASSUME ValuesDiffer ==
  /\ Extra \notin Reviewed /\ Absent \notin Contents
  /\ Other \notin Commits /\ None \notin Contents \union Releases

Phases == {"Stopped", "ReadMain", "Classify", "EnsureMain", "CreateTag",
           "VerifyTag", "View", "CreateDraft", "ViewDraft", "DraftTag",
           "CompareExisting", "Upload", "ViewFull", "CompareDraft",
           "DraftTagAgain", "ViewAgain", "CompareAgain", "Publish",
           "FinalView", "CompareFinal", "FinalTag", "PublicTag",
           "ComparePublic"}

TypeOK ==
  /\ main \in Commits
  /\ tag \in Commits \union {None}
  /\ release \in Releases \union {None}
  /\ run \in [pc : Phases, commit : Commits, mode : {"first", "recovery"},
              hosted : SUBSET Reviewed, left : SUBSET Reviewed,
              attempt : 0 .. Attempts]
  /\ faults \in 0 .. MaxFaults /\ edits \in 0 .. MaxEdits
  /\ late \subseteq AllNames
  /\ done \in Commits \union {None}

NoRun == [pc |-> "Stopped", commit |-> 0, mode |-> "first",
          hosted |-> {}, left |-> {}, attempt |-> 0]

Init ==
  /\ main = 0 /\ tag = None /\ release = None
  /\ run = NoRun
  /\ faults = MaxFaults /\ edits = MaxEdits
  /\ late = {} /\ done = None

-----------------------------------------------------------------------------
(* What one answer of GitHub tells the run.                                *)

HasDraft == release # None /\ release.draft

HostedNames(r) == {n \in AllNames : r.files[n] # Absent}

\* The title carries only the version; notes carry the commit.
MetadataMatches(r) == r.notes = run.commit

ShapeMatches(r, requireImmutable) ==
  /\ r # None
  /\ MetadataMatches(r)
  /\ requireImmutable => (~r.draft /\ r.immutable)
  /\ HostedNames(r) = Reviewed

TagMatches == tag = run.commit

\* A download of a name, or of a release, that is gone fails as well.
BytesMatch(n) == release # None /\ release.files[n] = run.commit

-----------------------------------------------------------------------------
(* Control of the run.                                                     *)

At(pc)   == run.pc = pc
Goto(pc) == run' = [run EXCEPT !.pc = pc]
GotoWith(pc, names) == run' = [run EXCEPT !.pc = pc, !.left = names]
Strike(n) == run' = [run EXCEPT !.left = @ \ {n}]
Stop     == run' = NoRun

Fault == faults > 0 /\ faults' = faults - 1

Remote == <<tag, release>>
Others == <<main, edits>>

-----------------------------------------------------------------------------
(* The workflow before it runs repository code.                            *)

StartRun(c) ==
  /\ At("Stopped")
  /\ c \in 0 .. main
  /\ run' = [NoRun EXCEPT !.pc = "ReadMain", !.commit = c]
  /\ UNCHANGED <<Remote, Others, faults, late, done>>

\* An older commit can only be a recovery.  Which it is stays fixed for the
\* whole run, whatever main and the tag do later.
ReadMain ==
  /\ At("ReadMain")
  /\ run' = [run EXCEPT !.pc = "Classify",
               !.mode = IF main = run.commit THEN "first" ELSE "recovery"]
  /\ UNCHANGED <<Remote, Others, faults, late, done>>

Classified ==
  \/ run.mode = "first" /\ tag \in {None, run.commit}
  \/ run.mode = "recovery" /\ TagMatches /\ release # None

Classify ==
  /\ At("Classify")
  /\ IF ~Classified THEN Stop
     ELSE Goto(IF run.mode = "first" THEN "EnsureMain" ELSE "VerifyTag")
  /\ UNCHANGED <<Remote, Others, faults, late, done>>

-----------------------------------------------------------------------------
(* The publisher: the source is locked by the tag before anything else.    *)

EnsureMain ==
  /\ At("EnsureMain")
  /\ IF main = run.commit THEN Goto("CreateTag") ELSE Stop
  /\ UNCHANGED <<Remote, Others, faults, late, done>>

\* The error of this request is ignored: a name that exists, an answer that
\* was lost and a request that never arrived are told apart by the next check.
CreateTag ==
  /\ At("CreateTag")
  /\ Goto("VerifyTag")
  /\ \/ tag = None /\ tag' = run.commit /\ UNCHANGED faults
     \/ tag # None /\ UNCHANGED <<tag, faults>>
     \/ tag = None /\ Fault /\ UNCHANGED tag
  /\ UNCHANGED <<release, Others, late, done>>

\* Mutant of VerifyTag: an error of the tag request that was ignored stays so.
VerifyTagUnchecked ==
  /\ At("VerifyTag") /\ Goto("View")
  /\ UNCHANGED <<Remote, Others, faults, late, done>>

VerifyTag ==
  /\ At("VerifyTag")
  /\ IF TagMatches THEN Goto("View") ELSE Stop
  /\ UNCHANGED <<Remote, Others, faults, late, done>>

\* The checks that follow a view read only what it returned: the metadata and
\* the unexpected names of a draft, the whole shape of a public release.
AcceptDraft ==
  IF MetadataMatches(release) /\ HostedNames(release) \subseteq Reviewed
  THEN run' = [run EXCEPT !.pc = "DraftTag", !.hosted = HostedNames(release)]
  ELSE Stop

\* Mutant of View: a draft of an interrupted run is a conflict.
ViewUnlessDraft ==
  /\ At("View")
  /\ \/ release = None /\ Goto("CreateDraft")
     \/ HasDraft /\ Stop
     \/ release # None /\ ~release.draft
        /\ IF ShapeMatches(release, TRUE) THEN Goto("PublicTag") ELSE Stop
  /\ UNCHANGED <<Remote, Others, faults, late, done>>

View ==
  /\ At("View")
  /\ \/ release = None /\ Goto("CreateDraft")
     \/ HasDraft /\ AcceptDraft
     \/ release # None /\ ~release.draft
        /\ IF ShapeMatches(release, TRUE) THEN Goto("PublicTag") ELSE Stop
  /\ UNCHANGED <<Remote, Others, faults, late, done>>

\* Only a run creates a release for the tag, an assumption about the other
\* maintainers that OneSource rests on, so there is still none.
CreateDraft ==
  /\ At("CreateDraft")
  /\ release = None
  /\ release' = [draft |-> TRUE, immutable |-> FALSE, byRun |-> FALSE,
                 notes |-> run.commit, files |-> [n \in AllNames |-> Absent]]
  /\ Goto("ViewDraft")
  /\ UNCHANGED <<tag, Others, faults, late, done>>

ViewDraft ==
  /\ At("ViewDraft")
  /\ IF HasDraft THEN AcceptDraft ELSE Stop
  /\ UNCHANGED <<Remote, Others, faults, late, done>>

TagCheck(at, next, names) ==
  /\ At(at)
  /\ IF TagMatches THEN GotoWith(next, names) ELSE Stop
  /\ UNCHANGED <<Remote, Others, faults, late, done>>

DraftTag == TagCheck("DraftTag", "CompareExisting", run.hosted)

\* compareHostedAssets downloads and compares one name at a time.  The order
\* of the names, fixed in the code, is left open here and in Upload.
Compare(at, next, names) ==
  /\ At(at)
  /\ \/ run.left = {} /\ GotoWith(next, names) /\ UNCHANGED late
     \/ \E n \in run.left :
          IF BytesMatch(n) THEN Strike(n) /\ late' = late \ {n}
          ELSE Stop /\ UNCHANGED late
  /\ UNCHANGED <<Remote, Others, faults, done>>

CompareExisting == Compare("CompareExisting", "Upload", Reviewed \ run.hosted)

\* gh refuses a name the draft already has.  A broken transfer may leave the
\* name with other bytes.
Upload ==
  /\ At("Upload")
  /\ \E n \in run.left :
       LET Put(content) == release' = [release EXCEPT !.files[n] = content]
           accepted == HasDraft /\ release.files[n] = Absent
       IN \/ accepted /\ Put(run.commit) /\ Strike(n) /\ UNCHANGED faults
          \/ accepted /\ Put(Other) /\ Stop /\ Fault
          \/ ~accepted /\ Stop /\ UNCHANGED <<release, faults>>
  /\ UNCHANGED <<tag, Others, late, done>>

Uploaded ==
  /\ At("Upload")
  /\ run.left = {}
  /\ Goto("ViewFull")
  /\ UNCHANGED <<Remote, Others, faults, late, done>>

\* Every mutable fact of the draft is read and compared, then once more after
\* the tag.  Neither view asks whether the release is still a draft.
ViewFull ==
  /\ At("ViewFull")
  /\ IF ShapeMatches(release, FALSE) THEN GotoWith("CompareDraft", Reviewed) ELSE Stop
  /\ UNCHANGED <<Remote, Others, faults, late, done>>

CompareDraft == Compare("CompareDraft", "DraftTagAgain", {})

DraftTagAgain == TagCheck("DraftTagAgain", "ViewAgain", {})

ViewAgain ==
  /\ At("ViewAgain")
  /\ IF ShapeMatches(release, FALSE) THEN GotoWith("CompareAgain", Reviewed) ELSE Stop
  /\ late' = {}
  /\ UNCHANGED <<Remote, Others, faults, done>>

\* Mutant of CompareAgain: the names of the fresh view are taken for the bytes.
CompareNames ==
  /\ At("CompareAgain") /\ GotoWith("Publish", {})
  /\ UNCHANGED <<Remote, Others, faults, late, done>>

CompareAgain == Compare("CompareAgain", "Publish", {})

-----------------------------------------------------------------------------
(* Publication, and what is believed about it.                             *)

\* The request writes the reviewed title and notes again and publishes what
\* the draft holds when it arrives; a published release refuses it.  Its
\* error is kept for the message only, so an applied request whose answer was
\* lost is the first disjunct as well.
Publish ==
  /\ At("Publish")
  /\ run' = [run EXCEPT !.pc = "FinalView", !.attempt = 1]
  /\ \/ /\ release # None /\ release.draft
        /\ release' = [release EXCEPT !.draft = FALSE, !.byRun = TRUE,
                                      !.notes = run.commit]
        /\ UNCHANGED faults
     \/ ~HasDraft /\ UNCHANGED <<release, faults>>
     \/ Fault /\ UNCHANGED release
  /\ UNCHANGED <<tag, Others, late, done>>

Retry ==
  IF run.attempt < Attempts
  THEN run' = [run EXCEPT !.pc = "FinalView", !.left = {}, !.attempt = @ + 1]
  ELSE Stop

Succeed == Stop /\ done' = run.commit

\* Whatever an attempt throws (a view, a download, the tag request, or what
\* they found) costs that attempt only.
FinalView ==
  /\ At("FinalView")
  /\ \/ /\ IF ShapeMatches(release, TRUE) THEN GotoWith("CompareFinal", Reviewed) ELSE Retry
        /\ UNCHANGED faults
     \/ Fault /\ Retry
  /\ UNCHANGED <<Remote, Others, late, done>>

\* Mutant of CompareFinal: the bytes compared before publication are trusted.
CompareFinalSkipped ==
  /\ At("CompareFinal") /\ Goto("FinalTag")
  /\ UNCHANGED <<Remote, Others, faults, late, done>>

CompareFinal ==
  /\ At("CompareFinal")
  /\ \/ run.left = {} /\ Goto("FinalTag") /\ UNCHANGED faults
     \/ /\ \E n \in run.left : IF BytesMatch(n) THEN Strike(n) ELSE Retry
        /\ UNCHANGED faults
     \/ Fault /\ Retry
  /\ UNCHANGED <<Remote, Others, late, done>>

FinalTag ==
  /\ At("FinalTag")
  /\ \/ TagMatches /\ Succeed /\ UNCHANGED faults
     \/ ~TagMatches /\ Retry /\ UNCHANGED <<faults, done>>
     \/ Fault /\ Retry /\ UNCHANGED done
  /\ UNCHANGED <<Remote, Others, late>>

\* A release that is already public is only read.
PublicTag == TagCheck("PublicTag", "ComparePublic", Reviewed)

ComparePublic ==
  /\ At("ComparePublic")
  /\ \/ run.left = {} /\ Succeed
     \/ /\ \E n \in run.left : IF BytesMatch(n) THEN Strike(n) ELSE Stop
        /\ UNCHANGED done
  /\ UNCHANGED <<Remote, Others, faults, late>>

RunStep ==
  \/ ReadMain \/ Classify \/ EnsureMain \/ CreateTag \/ VerifyTag \/ View
  \/ CreateDraft \/ ViewDraft \/ DraftTag \/ CompareExisting \/ Upload
  \/ Uploaded \/ ViewFull \/ CompareDraft \/ DraftTagAgain \/ ViewAgain
  \/ CompareAgain \/ Publish \/ FinalView \/ CompareFinal \/ FinalTag
  \/ PublicTag \/ ComparePublic

-----------------------------------------------------------------------------
(* Everyone else.                                                          *)

\* A build or test that fails, a lost runner, a request whose error is thrown.
RunDies ==
  /\ ~At("Stopped")
  /\ Fault /\ Stop
  /\ UNCHANGED <<Remote, Others, late, done>>

MainMoves ==
  /\ main < MaxMain
  /\ main' = main + 1
  /\ UNCHANGED <<Remote, run, faults, edits, late, done>>

\* GitHub reports a published release as immutable some time later.
Settles ==
  /\ release # None /\ ~release.draft /\ ~release.immutable
  /\ release' = [release EXCEPT !.immutable = TRUE]
  /\ UNCHANGED <<tag, run, Others, faults, late, done>>

OtherTags ==
  /\ tag = None
  /\ tag' \in 0 .. main
  /\ UNCHANGED <<release, late>>

OtherEditsFile(n) ==
  /\ HasDraft
  /\ \E content \in {Absent, Other} \ {release.files[n]} :
       release' = [release EXCEPT !.files[n] = content]
  /\ late' = late \union {n}
  /\ UNCHANGED tag

OtherEditsDraft ==
  /\ HasDraft
  /\ \/ release' = [release EXCEPT !.notes = Other]
     \/ release' = [release EXCEPT !.draft = FALSE]
     \/ release' = None
  /\ UNCHANGED <<tag, late>>

\* The host controls the operator audits before a run keep others from moving
\* a tag and from changing a published release.
OtherActs ==
  /\ edits > 0 /\ edits' = edits - 1
  /\ OtherTags \/ OtherEditsDraft \/ \E n \in AllNames : OtherEditsFile(n)
  /\ UNCHANGED <<main, run, faults, done>>

Next ==
  \/ RunStep \/ RunDies \/ MainMoves \/ Settles \/ OtherActs
  \/ \E c \in Commits : StartRun(c)

\* The commit RELEASING.md tells the operator to enter.
RightCommit == IF tag = None THEN main ELSE tag

Fairness ==
  /\ WF_vars(RunStep) /\ WF_vars(Settles)
  /\ SF_vars(StartRun(RightCommit))

Spec == Init /\ [][Next]_vars /\ Fairness

-----------------------------------------------------------------------------
(* Properties.                                                             *)

Exact(c) ==
  /\ tag = c
  /\ release # None /\ ~release.draft /\ release.immutable /\ release.notes = c
  /\ \A n \in AllNames : release.files[n] = IF n \in Reviewed THEN c ELSE Absent

(* A run that reports success leaves the exact release for ever: the       *)
(* protected tag on its commit and the public, immutable release with the  *)
(* reviewed notes and bytes and nothing else, also when the publication    *)
(* answer was lost or another maintainer changed the draft after the last  *)
(* comparison (completeToolingGithubRelease, verifyFinalHostedRelease).    *)
SuccessIsExact == done # None => Exact(done)

(* The release never mixes two sources: across any number of runs, for     *)
(* whichever commits, a release exists only once the tag is locked, and    *)
(* what runs put into it was built from the tag's commit                   *)
(* (ensureReleaseTag before the first view).                               *)
OneSource ==
  release # None =>
    /\ tag # None
    /\ release.notes \in {tag, Other}
    /\ \A n \in AllNames : release.files[n] \in {tag, Other, Absent}

(* What a run publishes is what it reviewed: its notes, and every file     *)
(* except those another maintainer changed after the run's last look at    *)
(* them, the window between the second comparison and the request          *)
(* (completeToolingGithubRelease 571-590).                                 *)
PublishedIsReviewed ==
  (release # None /\ release.byRun) =>
    /\ release.notes = tag
    /\ \A n \in AllNames \ late :
         release.files[n] = IF n \in Reviewed THEN tag ELSE Absent

(* Recovery repairs only by adding: no step of a run removes or replaces a *)
(* tag, a file, or a published release, although the run decides what to   *)
(* upload from an older view.                                              *)
OnlyAdds ==
  [][edits' = edits =>
       /\ tag # None => tag' = tag
       /\ release # None =>
            /\ release' # None
            /\ ~release.draft => ~release'.draft /\ release'.notes = release.notes
            /\ \A n \in HostedNames(release) :
                 release'.files[n] = release.files[n]]_vars

\* What no run may repair: a draft or a public release with content nobody
\* reviewed, a release made public too early, and a tag without a release
\* that main has left behind (the workflow takes no tag alone as a recovery).
Incident ==
  \/ tag # None /\ tag # main /\ release = None
  \/ release # None /\ release.notes = Other
  \/ release # None /\ \E n \in AllNames : release.files[n] = Other
  \/ release # None /\ ~release.draft
     /\ \E n \in Reviewed : release.files[n] = Absent

(* An interrupted release finishes: when faults, edits and moves of main   *)
(* end, an operator who keeps starting runs for the tag's commit ends with *)
(* the exact release, unless one of the named incidents stands             *)
(* (docs/RELEASING.md:309-311).                                            *)
ReleaseCompletes == <>[]((Exact(tag) /\ done = tag) \/ Incident)

(* The comment of ensureReleaseTag: "A first attempt can create the tag    *)
(* only while the reviewed commit is current main."                        *)
TagOnlyAtMain == [][tag' # tag /\ edits' = edits => tag' = main]_vars
=============================================================================
