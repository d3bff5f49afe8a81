------------------------ MODULE ToolingReleaseProofs ------------------------
(***************************************************************************)
(* Proofs about ToolingRelease, for any files, any number of attempts,     *)
(* moves of main, lost requests, runs that die and acts of others.         *)
(*                                                                         *)
(* What a run has read is history: others may have changed the draft.      *)
(* ReleaseInv says which of it still stands at each place of the run: the  *)
(* tag, because it is protected; a published release, because it is        *)
(* immutable; and of a draft only what is not in late.                     *)
(***************************************************************************)
EXTENDS ToolingRelease, TLAPS

\* Where the tag is not known to be the run's own yet.
Unlocked == {"Stopped", "ReadMain", "Classify", "EnsureMain", "CreateTag", "VerifyTag"}

Drafting == {"CreateDraft", "ViewDraft", "DraftTag", "CompareExisting", "Upload",
             "ViewFull", "CompareDraft", "DraftTagAgain", "ViewAgain",
             "CompareAgain", "Publish"}

Comparing == {"ComparePublic", "CompareFinal", "FinalTag"}

Expected(n) == IF n \in Reviewed THEN run.commit ELSE Absent

TagHeld == run.pc \notin Unlocked => tag = run.commit

NotPublishedYet ==
  release # None /\ (release.draft \/ run.pc \in Drafting) => ~release.byRun

\* What the second comparison has been through is right but for later edits.
LastLook ==
  run.pc \in {"CompareAgain", "Publish"} /\ release # None =>
    \A n \in AllNames \ (late \union run.left) : release.files[n] = Expected(n)

PublicView ==
  run.pc \in Comparing \union {"PublicTag"} =>
    /\ release # None /\ ~release.draft /\ release.immutable
    /\ release.notes = run.commit
    /\ HostedNames(release) = Reviewed

PublicBytes ==
  run.pc \in Comparing =>
    \A n \in AllNames \ run.left : release.files[n] = Expected(n)

NothingLeft == run.pc \in {"Publish", "FinalTag"} => run.left = {}

RunKnows == TagHeld /\ LastLook /\ PublicView /\ PublicBytes /\ NothingLeft

ReleaseInv ==
  /\ TypeOK /\ RunKnows /\ NotPublishedYet
  /\ OneSource /\ PublishedIsReviewed /\ SuccessIsExact


-----------------------------------------------------------------------------
\* What each step of the control does to the record of the run.
RunType == run \in [pc : Phases, commit : Commits, mode : {"first", "recovery"},
                    hosted : SUBSET Reviewed, left : SUBSET Reviewed,
                    attempt : 0 .. Attempts]

LEMMA GotoTypes ==
  ASSUME RunType, NEW pc \in Phases, Goto(pc)
  PROVE  RunType' /\ run'.pc = pc /\ run'.commit = run.commit /\ run'.left = run.left
BY DEF RunType, Goto

LEMMA GotoWithTypes ==
  ASSUME RunType, NEW pc \in Phases, NEW names \in SUBSET Reviewed, GotoWith(pc, names)
  PROVE  RunType' /\ run'.pc = pc /\ run'.commit = run.commit /\ run'.left = names
BY DEF RunType, GotoWith

LEMMA StrikeTypes ==
  ASSUME RunType, NEW n, Strike(n)
  PROVE  RunType' /\ run'.pc = run.pc /\ run'.commit = run.commit /\ run'.left = run.left \ {n}
BY DEF RunType, Strike

LEMMA StopTypes == ASSUME Stop PROVE RunType' /\ run'.pc = "Stopped"
BY BoundsAreNaturals DEF RunType, Stop, NoRun, Phases, Commits

LEMMA RetryTypes ==
  ASSUME RunType, Retry
  PROVE  RunType' /\ (\/ run'.pc = "Stopped"
                      \/ run'.pc = "FinalView" /\ run'.commit = run.commit)
<1>1. run.attempt \in 0 .. Attempts /\ "FinalView" \in Phases
  BY DEF RunType, Phases
<1>2. CASE run.attempt < Attempts
  <2>1. run' = [run EXCEPT !.pc = "FinalView", !.left = {}, !.attempt = @ + 1]
    BY <1>2 DEF Retry
  <2>2. run.attempt + 1 \in 0 .. Attempts
    BY <1>1, <1>2, BoundsAreNaturals
  <2> QED BY <2>1, <2>2, <1>1 DEF RunType
<1>3. CASE ~(run.attempt < Attempts)
  BY <1>3, StopTypes DEF Retry
<1> QED BY <1>2, <1>3

LEMMA AcceptDraftTypes ==
  ASSUME RunType, AcceptDraft
  PROVE  RunType' /\ (\/ run'.pc = "Stopped"
                      \/ run'.pc = "DraftTag" /\ run'.commit = run.commit)
<1>1. CASE MetadataMatches(release) /\ HostedNames(release) \subseteq Reviewed
  <2>1. run' = [run EXCEPT !.pc = "DraftTag", !.hosted = HostedNames(release)]
    BY <1>1 DEF AcceptDraft
  <2>2. "DraftTag" \in Phases
    BY DEF Phases
  <2> QED BY <1>1, <2>1, <2>2 DEF RunType
<1>2. CASE ~(MetadataMatches(release) /\ HostedNames(release) \subseteq Reviewed)
  BY <1>2, StopTypes DEF AcceptDraft
<1> QED BY <1>1, <1>2

\* What each write does to the release.
LEMMA PutTypes ==
  ASSUME NEW r \in Releases, NEW n \in AllNames, NEW content \in Contents \union {Absent}
  PROVE  LET p == [r EXCEPT !.files[n] = content]
         IN  /\ p \in Releases
             /\ p.draft = r.draft /\ p.immutable = r.immutable
             /\ p.byRun = r.byRun /\ p.notes = r.notes
             /\ p.files[n] = content
             /\ \A m \in AllNames \ {n} : p.files[m] = r.files[m]
BY DEF Releases

LEMMA TypeStep == ASSUME TypeOK, [Next]_vars PROVE TypeOK'
<1>1. RunType /\ main \in Commits /\ MaxMain \in Nat
  BY BoundsAreNaturals DEF TypeOK, RunType
<1>2. RunType'
  <2>1. ASSUME NEW c \in Commits, StartRun(c) PROVE RunType'
    <3>1. run' = [NoRun EXCEPT !.pc = "ReadMain", !.commit = c]
      BY <2>1 DEF StartRun
    <3>2. NoRun \in [pc : Phases, commit : Commits, mode : {"first", "recovery"},
                     hosted : SUBSET Reviewed, left : SUBSET Reviewed, attempt : 0 .. Attempts]
      BY BoundsAreNaturals DEF NoRun, Phases, Commits
    <3>3. "ReadMain" \in Phases
      BY DEF Phases
    <3> QED BY <3>1, <3>2, <3>3 DEF RunType
  <2>2. CASE ReadMain
    <3>1. run' = [run EXCEPT !.pc = "Classify",
                    !.mode = IF main = run.commit THEN "first" ELSE "recovery"]
      BY <2>2 DEF ReadMain
    <3>2. "Classify" \in Phases
      BY DEF Phases
    <3> QED BY <1>1, <3>1, <3>2 DEF RunType
  <2>3. CASE Classify \/ EnsureMain \/ CreateTag \/ VerifyTag \/ CreateDraft \/ Uploaded
    BY <2>3, <1>1, GotoTypes, StopTypes
       DEF Classify, EnsureMain, CreateTag, VerifyTag, CreateDraft, Uploaded, Phases
  <2>4. CASE View \/ ViewDraft
    BY <2>4, <1>1, GotoTypes, StopTypes, AcceptDraftTypes DEF View, ViewDraft, Phases
  <2>5. CASE DraftTag \/ DraftTagAgain \/ PublicTag
    <3>1. run.hosted \in SUBSET Reviewed /\ {} \in SUBSET Reviewed
      BY <1>1 DEF RunType
    <3> QED
      BY <2>5, <3>1, <1>1, GotoWithTypes, StopTypes
         DEF DraftTag, DraftTagAgain, PublicTag, TagCheck, Phases
  <2>6. CASE CompareExisting \/ CompareDraft \/ CompareAgain
    <3>1. ASSUME NEW at, NEW next \in Phases, NEW names \in SUBSET Reviewed,
                 Compare(at, next, names)
          PROVE  RunType'
      BY <3>1, <1>1, GotoWithTypes, StrikeTypes, StopTypes DEF Compare
    <3> QED
      BY <2>6, <3>1 DEF CompareExisting, CompareDraft, CompareAgain, Phases
  <2>7. CASE Upload
    BY <2>7, <1>1, StrikeTypes, StopTypes DEF Upload
  <2>8. CASE ViewFull \/ ViewAgain
    BY <2>8, <1>1, GotoWithTypes, StopTypes DEF ViewFull, ViewAgain, Phases
  <2>9. CASE Publish
    <3>1. run' = [run EXCEPT !.pc = "FinalView", !.attempt = 1]
      BY <2>9 DEF Publish
    <3>2. "FinalView" \in Phases /\ 1 \in 0 .. Attempts
      BY BoundsAreNaturals DEF Phases
    <3> QED BY <1>1, <3>1, <3>2 DEF RunType
  <2>10. CASE FinalView \/ CompareFinal
    BY <2>10, <1>1, GotoTypes, GotoWithTypes, StrikeTypes, RetryTypes
       DEF FinalView, CompareFinal, Phases
  <2>11. CASE FinalTag \/ ComparePublic
    BY <2>11, <1>1, StrikeTypes, StopTypes, RetryTypes DEF FinalTag, ComparePublic, Succeed
  <2>12. CASE RunDies
    BY <2>12, StopTypes DEF RunDies
  <2>13. CASE MainMoves \/ Settles \/ OtherActs \/ UNCHANGED vars
    BY <2>13, <1>1 DEF MainMoves, Settles, OtherActs, RunType, vars
  <2> QED
    BY <2>1, <2>2, <2>3, <2>4, <2>5, <2>6, <2>7, <2>8, <2>9, <2>10, <2>11, <2>12, <2>13
       DEF Next, RunStep
<1>3. (main \in Commits /\ tag \in Commits \union {None})'
  <2>1. CASE CreateTag \/ MainMoves \/ OtherActs
    BY <2>1, <1>1 DEF CreateTag, MainMoves, OtherActs, OtherTags, OtherEditsDraft,
       OtherEditsFile, TypeOK, RunType, Commits, Others, Remote
  <2>2. CASE ~(CreateTag \/ MainMoves \/ OtherActs)
    <3>1. UNCHANGED <<main, tag>>
      BY <2>2 DEF Next, RunStep, StartRun, ReadMain, Classify, EnsureMain, VerifyTag, View,
         CreateDraft, ViewDraft, DraftTag, DraftTagAgain, PublicTag, TagCheck, CompareExisting,
         CompareDraft, CompareAgain, Compare, Upload, Uploaded, ViewFull, ViewAgain, Publish,
         FinalView, CompareFinal, FinalTag, ComparePublic, RunDies, Settles, vars, Remote, Others
    <3> QED BY <3>1 DEF TypeOK
  <2> QED BY <2>1, <2>2
<1>4. (release \in Releases \union {None})'
  <2>1. CASE CreateDraft
    <3>1. release' = [draft |-> TRUE, immutable |-> FALSE, byRun |-> FALSE,
                      notes |-> run.commit, files |-> [n \in AllNames |-> Absent]]
      BY <2>1 DEF CreateDraft
    <3> QED BY <3>1, <1>1 DEF Releases, RunType, Contents
  <2>2. CASE Upload
    BY <2>2, <1>1, PutTypes DEF Upload, HasDraft, TypeOK, RunType, AllNames, Contents
  <2>3. CASE Publish
    BY <2>3, <1>1 DEF Publish, HasDraft, TypeOK, RunType, Releases, Contents
  <2>4. CASE Settles
    BY <2>4 DEF Settles, TypeOK, Releases
  <2>5. CASE OtherActs
    <3>1. CASE OtherTags \/ OtherEditsDraft
      BY <3>1 DEF OtherTags, OtherEditsDraft, HasDraft, TypeOK, Releases, Contents
    <3>2. ASSUME NEW n \in AllNames, OtherEditsFile(n) PROVE release' \in Releases
      BY <3>2, PutTypes DEF OtherEditsFile, HasDraft, TypeOK, Contents
    <3> QED BY <2>5, <3>1, <3>2 DEF OtherActs
  <2>6. CASE ~(CreateDraft \/ Upload \/ Publish \/ Settles \/ OtherActs)
    <3>1. UNCHANGED release
      BY <2>6 DEF Next, RunStep, StartRun, ReadMain, Classify, EnsureMain, CreateTag, VerifyTag,
         View, ViewDraft, DraftTag, DraftTagAgain, PublicTag, TagCheck, CompareExisting,
         CompareDraft, CompareAgain, Compare, Uploaded, ViewFull, ViewAgain, FinalView,
         CompareFinal, FinalTag, ComparePublic, RunDies, MainMoves, vars, Remote
    <3> QED BY <3>1 DEF TypeOK
  <2> QED BY <2>1, <2>2, <2>3, <2>4, <2>5, <2>6
<1>5. (faults \in 0 .. MaxFaults /\ edits \in 0 .. MaxEdits)'
  <2>1. UNCHANGED faults \/ (faults > 0 /\ faults' = faults - 1)
    BY DEF Next, RunStep, StartRun, ReadMain, Classify, EnsureMain, CreateTag, VerifyTag,
         View, CreateDraft, ViewDraft, DraftTag, DraftTagAgain, PublicTag, TagCheck, CompareExisting,
         CompareDraft, CompareAgain, Compare, Upload, Uploaded, ViewFull, ViewAgain, Publish, FinalView,
         CompareFinal, FinalTag, ComparePublic, RunDies, MainMoves, Settles, OtherActs, vars, Fault
  <2>2. UNCHANGED edits \/ (edits > 0 /\ edits' = edits - 1)
    BY DEF Next, RunStep, StartRun, ReadMain, Classify, EnsureMain, CreateTag, VerifyTag,
         View, CreateDraft, ViewDraft, DraftTag, DraftTagAgain, PublicTag, TagCheck, CompareExisting,
         CompareDraft, CompareAgain, Compare, Upload, Uploaded, ViewFull, ViewAgain, Publish, FinalView,
         CompareFinal, FinalTag, ComparePublic, RunDies, MainMoves, Settles, OtherActs, vars, Others
  <2> QED BY <2>1, <2>2, BoundsAreNaturals DEF TypeOK
<1>6. (late \subseteq AllNames /\ done \in Commits \union {None})'
  <2>1. UNCHANGED late \/ late' \subseteq late \/ \E n \in AllNames : late' = late \union {n}
    BY DEF Next, RunStep, StartRun, ReadMain, Classify, EnsureMain, CreateTag, VerifyTag,
         View, CreateDraft, ViewDraft, DraftTag, DraftTagAgain, PublicTag, TagCheck, CompareExisting,
         CompareDraft, CompareAgain, Compare, Upload, Uploaded, ViewFull, ViewAgain, Publish, FinalView,
         CompareFinal, FinalTag, ComparePublic, RunDies, MainMoves, Settles, OtherActs, OtherTags,
         OtherEditsDraft, OtherEditsFile, vars
  <2>2. UNCHANGED done \/ done' = run.commit
    BY DEF Next, RunStep, StartRun, ReadMain, Classify, EnsureMain, CreateTag, VerifyTag,
         View, CreateDraft, ViewDraft, DraftTag, DraftTagAgain, PublicTag, TagCheck, CompareExisting,
         CompareDraft, CompareAgain, Compare, Upload, Uploaded, ViewFull, ViewAgain, Publish, FinalView,
         CompareFinal, FinalTag, ComparePublic, RunDies, MainMoves, Settles, OtherActs, vars, Succeed
  <2> QED BY <2>1, <2>2, <1>1 DEF TypeOK, RunType
<1> QED BY <1>2, <1>3, <1>4, <1>5, <1>6 DEF TypeOK, RunType

(* The state has its types; in particular the final check never makes more *)
(* attempts than it was given (verifyFinalHostedRelease).                  *)
THEOREM ReleaseTypeCorrect == Spec => []TypeOK
<1>1. Init => TypeOK
  BY BoundsAreNaturals DEF Init, TypeOK, NoRun, Phases, Commits
<1>2. TypeOK /\ [Next]_vars => TypeOK'
  BY TypeStep
<1> QED BY <1>1, <1>2, PTL DEF Spec

-----------------------------------------------------------------------------
\* What no step, of a run or of anyone else, does to what stands: a tag is
\* protected, and a public release keeps all but its immutability.
LEMMA Protected ==
  ASSUME TypeOK, [Next]_vars
  PROVE  /\ tag # None => tag' = tag
         /\ tag' # tag => CreateTag \/ (OtherActs /\ UNCHANGED run)
         /\ release # None /\ ~release.draft =>
              /\ release' # None
              /\ release'.draft = release.draft /\ release'.byRun = release.byRun
              /\ release'.notes = release.notes /\ release'.files = release.files
              /\ release.immutable => release'.immutable
<1>1. /\ tag # None => tag' = tag
      /\ tag' # tag => CreateTag \/ (OtherActs /\ UNCHANGED run)
  BY DEF Next, RunStep, StartRun, ReadMain, Classify, EnsureMain, CreateTag, VerifyTag,
     View, CreateDraft, ViewDraft, DraftTag, DraftTagAgain, PublicTag, TagCheck, CompareExisting,
     CompareDraft, CompareAgain, Compare, Upload, Uploaded, ViewFull, ViewAgain, Publish, FinalView,
     CompareFinal, FinalTag, ComparePublic, RunDies, MainMoves, Settles, OtherActs, OtherTags,
     OtherEditsDraft, OtherEditsFile, vars, Remote
<1>2. ASSUME release # None, ~release.draft
      PROVE  UNCHANGED release \/ Settles
  BY <1>2 DEF Next, RunStep, StartRun, ReadMain, Classify, EnsureMain, CreateTag, VerifyTag,
     View, CreateDraft, ViewDraft, DraftTag, DraftTagAgain, PublicTag, TagCheck, CompareExisting,
     CompareDraft, CompareAgain, Compare, Upload, Uploaded, ViewFull, ViewAgain, Publish, FinalView,
     CompareFinal, FinalTag, ComparePublic, RunDies, MainMoves, OtherActs, OtherTags,
     OtherEditsDraft, OtherEditsFile, HasDraft, vars, Remote
<1>3. ASSUME release # None, ~release.draft, Settles
      PROVE  /\ release' # None
             /\ release'.draft = release.draft /\ release'.byRun = release.byRun
             /\ release'.notes = release.notes /\ release'.files = release.files
             /\ release.immutable => release'.immutable
  <2>1. release \in Releases /\ release' = [release EXCEPT !.immutable = TRUE]
    BY <1>3 DEF Settles, TypeOK
  <2>2. release' \in Releases
    BY <2>1 DEF Releases
  <2> QED BY <2>1, <2>2, ValuesDiffer DEF Releases
<1> QED BY <1>1, <1>2, <1>3

-----------------------------------------------------------------------------
\* What the run knows at each place.
Elsewhere == Phases \ ({"CompareAgain", "Publish", "PublicTag"} \union Comparing)

\* Most steps lead to places where nothing but the tag is known.
LEMMA KnowsElsewhere ==
  ASSUME run'.pc \in Elsewhere
  PROVE  LastLook' /\ PublicView' /\ PublicBytes' /\ NothingLeft'
BY DEF Elsewhere, Comparing, LastLook, PublicView, PublicBytes, NothingLeft

LEMMA EarlyStep ==
  ASSUME TypeOK, TagHeld,
         \/ \E c \in Commits : StartRun(c)
         \/ ReadMain \/ Classify \/ EnsureMain \/ CreateTag \/ VerifyTag \/ CreateDraft
         \/ ViewDraft \/ DraftTag \/ CompareExisting \/ Upload \/ Uploaded \/ ViewFull
         \/ CompareDraft \/ DraftTagAgain \/ Publish \/ RunDies
  PROVE  /\ run'.pc \in Elsewhere
         /\ run'.pc \notin Unlocked => tag = run.commit /\ run'.commit = run.commit
<1>1. RunType
  BY DEF TypeOK, RunType
<1>2. ASSUME NEW c \in Commits, StartRun(c) PROVE run'.pc = "ReadMain"
  BY <1>2, BoundsAreNaturals DEF StartRun, NoRun
<1>3. CASE ReadMain
  BY <1>1, <1>3 DEF ReadMain, RunType, Unlocked, Elsewhere, Phases, Comparing
<1>4. CASE Classify \/ EnsureMain \/ CreateTag
  BY <1>1, <1>4, GotoTypes, StopTypes
     DEF Classify, EnsureMain, CreateTag, Unlocked, Elsewhere, Phases, Comparing
<1>5. CASE VerifyTag \/ CreateDraft \/ Uploaded
  BY <1>1, <1>5, GotoTypes, StopTypes
     DEF VerifyTag, CreateDraft, Uploaded, TagMatches, TagHeld, At, Unlocked, Elsewhere, Phases,
     Comparing
<1>6. CASE ViewDraft
  BY <1>1, <1>6, AcceptDraftTypes, StopTypes
     DEF ViewDraft, TagHeld, At, Unlocked, Elsewhere, Phases, Comparing
<1>7. CASE DraftTag \/ DraftTagAgain
  <2>1. run.hosted \in SUBSET Reviewed
    BY <1>1 DEF RunType
  <2> QED
    BY <1>1, <1>7, <2>1, GotoWithTypes, StopTypes
       DEF DraftTag, DraftTagAgain, TagCheck, TagMatches, Unlocked, Elsewhere, Phases, Comparing
<1>8. CASE CompareExisting \/ CompareDraft
  <2>1. ASSUME NEW at \in Elsewhere \ Unlocked, NEW next \in Elsewhere,
               NEW names \in SUBSET Reviewed, Compare(at, next, names)
        PROVE  /\ run'.pc \in Elsewhere
               /\ run'.pc \notin Unlocked => tag = run.commit /\ run'.commit = run.commit
    <3>1. next \in Phases /\ run.pc = at
      BY <2>1 DEF Elsewhere, Compare, At
    <3>2. CASE GotoWith(next, names)
      BY <1>1, <2>1, <3>1, <3>2, GotoWithTypes DEF TagHeld
    <3>3. ASSUME NEW n, Strike(n)
          PROVE  run'.pc = run.pc /\ run'.commit = run.commit
      BY <1>1, <3>3, StrikeTypes
    <3>4. CASE Stop
      BY <3>4, StopTypes DEF Elsewhere, Phases, Comparing, Unlocked
    <3> QED BY <2>1, <3>1, <3>2, <3>3, <3>4 DEF Compare, TagHeld
  <2> QED
    BY <1>8, <2>1 DEF CompareExisting, CompareDraft, Elsewhere, Unlocked, Phases, Comparing
<1>9. CASE Upload
  BY <1>1, <1>9, StrikeTypes, StopTypes
     DEF Upload, TagHeld, At, Unlocked, Elsewhere, Phases, Comparing
<1>10. CASE ViewFull
  BY <1>1, <1>10, GotoWithTypes, StopTypes
     DEF ViewFull, TagHeld, At, Unlocked, Elsewhere, Phases, Comparing
<1>11. CASE Publish
  BY <1>1, <1>11 DEF Publish, RunType, TagHeld, At, Unlocked, Elsewhere, Phases, Comparing
<1>12. CASE RunDies
  BY <1>12, StopTypes DEF RunDies, Unlocked, Elsewhere, Phases, Comparing
<1> QED
  BY <1>2, <1>3, <1>4, <1>5, <1>6, <1>7, <1>8, <1>9, <1>10, <1>11, <1>12
     DEF Unlocked, Elsewhere, Phases, Comparing

\* A name the view has been compared for is right; the rest is left.
LEMMA MatchedName ==
  ASSUME TypeOK, NEW n \in run.left, BytesMatch(n)
  PROVE  n \in Reviewed /\ release # None /\ release.files[n] = Expected(n)
BY DEF TypeOK, BytesMatch, Expected

\* An unexpected name of an exact view is absent.
LEMMA ShapeOfNames ==
  ASSUME NEW r, HostedNames(r) = Reviewed
  PROVE  \A n \in AllNames \ Reviewed : r.files[n] = Absent
BY DEF HostedNames

LEMMA ViewStep ==
  ASSUME TypeOK, TagHeld, View
  PROVE  RunKnows'
<1>1. RunType /\ run.pc = "View" /\ tag = run.commit
  BY DEF TypeOK, RunType, View, At, TagHeld, Unlocked
<1>2. UNCHANGED <<tag, release, late>>
  BY DEF View, Remote
<1>3. ASSUME release # None, ~release.draft, ShapeMatches(release, TRUE), Goto("PublicTag")
      PROVE  RunKnows'
  <2>1. run'.pc = "PublicTag" /\ run'.commit = run.commit
    BY <1>1, <1>3, GotoTypes DEF Phases
  <2>2. TagHeld' /\ PublicView'
    BY <1>1, <1>2, <1>3, <2>1
       DEF TagHeld, PublicView, ShapeMatches, MetadataMatches, HostedNames
  <2> QED BY <2>1, <2>2 DEF RunKnows, LastLook, PublicBytes, NothingLeft, Comparing
<1>4. ASSUME run'.pc \in Elsewhere, run'.pc \in Unlocked \/ run'.commit = run.commit
      PROVE  RunKnows'
  BY <1>1, <1>2, <1>4, KnowsElsewhere DEF RunKnows, TagHeld
<1> QED
  BY <1>1, <1>3, <1>4, GotoTypes, StopTypes, AcceptDraftTypes
     DEF View, HasDraft, Unlocked, Elsewhere, Phases, Comparing

LEMMA ViewAgainStep ==
  ASSUME TypeOK, TagHeld, ViewAgain
  PROVE  RunKnows'
<1>1. RunType /\ run.pc = "ViewAgain" /\ tag = run.commit
  BY DEF TypeOK, RunType, ViewAgain, At, TagHeld, Unlocked
<1>2. UNCHANGED <<tag, release>> /\ late' = {}
  BY DEF ViewAgain, Remote
<1>3. CASE ShapeMatches(release, FALSE)
  <2>1. /\ run'.pc = "CompareAgain" /\ run'.commit = run.commit
        /\ run'.left = Reviewed
    BY <1>1, <1>3, GotoWithTypes DEF ViewAgain, Phases
  <2>2. release # None /\ HostedNames(release) = Reviewed
    BY <1>3 DEF ShapeMatches
  <2>3. LastLook'
    BY <1>2, <2>1, <2>2, ShapeOfNames DEF LastLook, Expected
  <2> QED
    BY <1>1, <1>2, <2>1, <2>3
       DEF RunKnows, TagHeld, PublicView, PublicBytes, NothingLeft, Comparing
<1>4. CASE ~ShapeMatches(release, FALSE)
  <2>1. run'.pc = "Stopped"
    BY <1>4, StopTypes DEF ViewAgain
  <2> QED
    BY <2>1, KnowsElsewhere DEF RunKnows, TagHeld, Unlocked, Elsewhere, Phases, Comparing
<1> QED BY <1>3, <1>4

LEMMA CompareAgainStep ==
  ASSUME TypeOK, TagHeld, LastLook, CompareAgain
  PROVE  RunKnows'
<1>1. RunType /\ run.pc = "CompareAgain" /\ tag = run.commit
  BY DEF TypeOK, RunType, CompareAgain, Compare, At, TagHeld, Unlocked
<1>2. UNCHANGED <<tag, release>>
  BY DEF CompareAgain, Compare, Remote
<1>3. CASE run.left = {} /\ GotoWith("Publish", {}) /\ UNCHANGED late
  <2>1. run'.pc = "Publish" /\ run'.commit = run.commit /\ run'.left = {}
    BY <1>1, <1>3, GotoWithTypes DEF Phases
  <2>2. LastLook'
    BY <1>1, <1>2, <1>3, <2>1 DEF LastLook, Expected
  <2> QED
    BY <1>1, <1>2, <2>1, <2>2
       DEF RunKnows, TagHeld, PublicView, PublicBytes, NothingLeft, Comparing
<1>4. ASSUME NEW n \in run.left, BytesMatch(n), Strike(n), late' = late \ {n}
      PROVE  RunKnows'
  <2>1. run'.pc = "CompareAgain" /\ run'.commit = run.commit /\ run'.left = run.left \ {n}
    BY <1>1, <1>4, StrikeTypes
  <2>2. release.files[n] = Expected(n)
    BY <1>4, MatchedName
  <2>3. LastLook'
    BY <1>1, <1>2, <1>4, <2>1, <2>2 DEF LastLook, Expected
  <2> QED
    BY <1>1, <1>2, <2>1, <2>3
       DEF RunKnows, TagHeld, PublicView, PublicBytes, NothingLeft, Comparing
<1>5. CASE Stop
  <2>1. run'.pc = "Stopped"
    BY <1>5, StopTypes
  <2> QED
    BY <2>1, KnowsElsewhere DEF RunKnows, TagHeld, Unlocked, Elsewhere, Phases, Comparing
<1> QED BY <1>3, <1>4, <1>5 DEF CompareAgain, Compare

\* The comparisons of a public release, for success or for another attempt.
LEMMA PublicStep ==
  ASSUME TypeOK, RunKnows,
         PublicTag \/ ComparePublic \/ FinalView \/ CompareFinal \/ FinalTag
  PROVE  RunKnows'
<1>1. RunType /\ tag = run.commit /\ UNCHANGED <<tag, release, late>>
  BY DEF TypeOK, RunType, RunKnows, TagHeld, Unlocked, PublicTag, TagCheck, ComparePublic,
     FinalView, CompareFinal, FinalTag, At, Remote
<1>2. ASSUME \/ run'.pc = "Stopped"
             \/ run'.pc = "FinalView" /\ run'.commit = run.commit
      PROVE  RunKnows'
  BY <1>1, <1>2, KnowsElsewhere DEF RunKnows, TagHeld, Unlocked, Elsewhere, Phases, Comparing
<1>3. ASSUME NEW pc \in Comparing, run'.pc = pc, run'.commit = run.commit,
             release # None, ~release.draft, release.immutable,
             release.notes = run.commit, HostedNames(release) = Reviewed,
             \A n \in AllNames \ run'.left : release.files[n] = Expected(n),
             pc = "FinalTag" => run'.left = {}
      PROVE  RunKnows'
  <2>1. TagHeld' /\ LastLook' /\ NothingLeft'
    BY <1>1, <1>3 DEF TagHeld, LastLook, NothingLeft, Comparing
  <2>2. PublicView' /\ PublicBytes'
    BY <1>1, <1>3 DEF PublicView, PublicBytes, HostedNames, Expected
  <2> QED BY <2>1, <2>2 DEF RunKnows
<1>4. CASE PublicTag
  <2>1. PublicView /\ run.pc = "PublicTag"
    BY <1>4 DEF RunKnows, PublicTag, TagCheck, At
  <2>2. CASE GotoWith("ComparePublic", Reviewed)
    <3>1. /\ run'.pc = "ComparePublic" /\ run'.commit = run.commit
          /\ run'.left = Reviewed
      BY <1>1, <2>2, GotoWithTypes DEF Phases
    <3>2. \A n \in AllNames \ run'.left : release.files[n] = Expected(n)
      BY <2>1, <3>1, ShapeOfNames DEF PublicView, Expected
    <3> QED BY <1>3, <2>1, <3>1, <3>2 DEF PublicView, Comparing
  <2> QED BY <1>2, <1>4, <2>2, StopTypes DEF PublicTag, TagCheck
<1>5. CASE FinalView
  <2>1. CASE ShapeMatches(release, TRUE) /\ GotoWith("CompareFinal", Reviewed)
    <3>1. /\ run'.pc = "CompareFinal" /\ run'.commit = run.commit
          /\ run'.left = Reviewed
      BY <1>1, <2>1, GotoWithTypes DEF Phases
    <3>2. HostedNames(release) = Reviewed
      BY <2>1 DEF ShapeMatches
    <3>3. \A n \in AllNames \ run'.left : release.files[n] = Expected(n)
      BY <3>1, <3>2, ShapeOfNames DEF Expected
    <3> QED
      BY <1>3, <2>1, <3>1, <3>2, <3>3 DEF ShapeMatches, MetadataMatches, Comparing
  <2> QED BY <1>1, <1>2, <1>5, <2>1, RetryTypes DEF FinalView
<1>6. ASSUME PublicView, PublicBytes, run.pc \in Comparing, NEW n \in run.left,
             BytesMatch(n), Strike(n), run.pc # "FinalTag"
      PROVE  RunKnows'
  <2>1. run'.pc = run.pc /\ run'.commit = run.commit /\ run'.left = run.left \ {n}
    BY <1>1, <1>6, StrikeTypes
  <2>2. release.files[n] = Expected(n)
    BY <1>6, MatchedName
  <2>3. \A m \in AllNames \ run'.left : release.files[m] = Expected(m)
    BY <1>6, <2>1, <2>2 DEF PublicBytes
  <2> QED BY <1>3, <1>6, <2>1, <2>3 DEF PublicView
<1>7. CASE CompareFinal
  <2>1. PublicView /\ PublicBytes /\ run.pc = "CompareFinal"
    BY <1>7 DEF RunKnows, CompareFinal, At
  <2>2. CASE run.left = {} /\ Goto("FinalTag")
    <3>1. /\ run'.pc = "FinalTag" /\ run'.commit = run.commit
          /\ run'.left = {} /\ run.left = {}
      BY <1>1, <2>2, GotoTypes DEF Phases
    <3> QED BY <1>3, <2>1, <3>1 DEF PublicView, PublicBytes, Comparing
  <2> QED BY <1>1, <1>2, <1>6, <1>7, <2>1, <2>2, RetryTypes DEF CompareFinal, Comparing
<1>8. CASE FinalTag
  BY <1>1, <1>2, <1>8, StopTypes, RetryTypes DEF FinalTag, Succeed
<1>9. CASE ComparePublic
  <2>1. PublicView /\ PublicBytes /\ run.pc = "ComparePublic"
    BY <1>9 DEF RunKnows, ComparePublic, At
  <2> QED BY <1>2, <1>6, <1>9, <2>1, StopTypes DEF ComparePublic, Succeed, Comparing
<1> QED BY <1>4, <1>5, <1>7, <1>8, <1>9

\* What others do while the run waits.
LEMMA OthersKeepKnowledge ==
  ASSUME ReleaseInv, [Next]_vars,
         MainMoves \/ Settles \/ OtherActs \/ UNCHANGED vars
  PROVE  RunKnows'
<1>1. TypeOK /\ RunKnows /\ OneSource /\ UNCHANGED run /\ tag # None => tag' = tag
  BY Protected DEF ReleaseInv, MainMoves, Settles, OtherActs, vars
<1>2. run.pc \notin Unlocked => tag # None
  BY <1>1, ValuesDiffer DEF ReleaseInv, RunKnows, TagHeld, TypeOK, Contents
<1>3. TagHeld' /\ NothingLeft' /\ UNCHANGED run
  BY <1>1, <1>2, Protected
     DEF ReleaseInv, RunKnows, TagHeld, NothingLeft, MainMoves, Settles, OtherActs, vars
<1>4. PublicView' /\ PublicBytes'
  BY <1>3, Protected DEF ReleaseInv, RunKnows, PublicView, PublicBytes, HostedNames, Expected,
     Comparing
<1>5. LastLook'
  <2> SUFFICES ASSUME run.pc \in {"CompareAgain", "Publish"}, release' # None,
                      NEW n \in AllNames, n \notin late', n \notin run.left
               PROVE  release'.files[n] = Expected(n)
    BY <1>3 DEF LastLook, Expected
  <2>1. ASSUME release # None, n \notin late, release'.files[n] = release.files[n]
        PROVE  release'.files[n] = Expected(n)
    BY <2>1 DEF ReleaseInv, RunKnows, LastLook
  <2>2. CASE MainMoves \/ UNCHANGED vars
    BY <2>1, <2>2 DEF MainMoves, Remote, vars
  <2>3. CASE Settles
    <3>1. release # None /\ release \in Releases /\ release' = [release EXCEPT !.immutable = TRUE]
      BY <2>3 DEF Settles, ReleaseInv, TypeOK
    <3>2. release'.files[n] = release.files[n] /\ UNCHANGED late
      BY <2>3, <3>1 DEF Settles, Releases
    <3> QED BY <2>1, <3>1, <3>2
  <2>4. CASE OtherActs /\ OtherTags
    BY <2>1, <2>4 DEF OtherTags
  <2>5. CASE OtherActs /\ OtherEditsDraft
    <3>1. release # None /\ release \in Releases /\ UNCHANGED late
      BY <2>5 DEF OtherEditsDraft, HasDraft, ReleaseInv, TypeOK
    <3>2. release'.files[n] = release.files[n]
      BY <2>5, <3>1 DEF OtherEditsDraft, Releases
    <3> QED BY <2>1, <3>1, <3>2
  <2>6. ASSUME NEW m \in AllNames, OtherEditsFile(m)
        PROVE  release'.files[n] = Expected(n)
    <3>1. release # None /\ release \in Releases /\ late' = late \union {m}
      BY <2>6 DEF OtherEditsFile, HasDraft, ReleaseInv, TypeOK
    <3>2. release'.files[n] = release.files[n]
      BY <2>6, <3>1, PutTypes DEF OtherEditsFile, Contents
    <3> QED BY <2>1, <3>1, <3>2
  <2> QED BY <2>2, <2>3, <2>4, <2>5, <2>6 DEF OtherActs
<1> QED BY <1>3, <1>4, <1>5 DEF RunKnows

LEMMA KnowsStep == ASSUME ReleaseInv, [Next]_vars PROVE RunKnows'
<1>1. TypeOK /\ RunKnows /\ TagHeld /\ LastLook
  BY DEF ReleaseInv, RunKnows
<1>2. CASE \/ \E c \in Commits : StartRun(c)
           \/ ReadMain \/ Classify \/ EnsureMain \/ CreateTag \/ VerifyTag \/ CreateDraft
           \/ ViewDraft \/ DraftTag \/ CompareExisting \/ Upload \/ Uploaded \/ ViewFull
           \/ CompareDraft \/ DraftTagAgain \/ RunDies
  <2>1. /\ run'.pc \in Elsewhere
        /\ run'.pc \notin Unlocked => tag = run.commit /\ run'.commit = run.commit
    BY <1>1, <1>2, EarlyStep
  <2>2. tag # None => tag' = tag
    BY <1>1, Protected
  <2>3. run.commit # None
    BY <1>1, ValuesDiffer DEF TypeOK, Contents
  <2> QED BY <2>1, <2>2, <2>3, KnowsElsewhere DEF RunKnows, TagHeld
<1>3. CASE Publish
  <2>1. /\ run'.pc \in Elsewhere
        /\ run'.pc \notin Unlocked => tag = run.commit /\ run'.commit = run.commit
    BY <1>1, <1>3, EarlyStep
  <2>2. UNCHANGED tag
    BY <1>3 DEF Publish
  <2> QED BY <2>1, <2>2, KnowsElsewhere DEF RunKnows, TagHeld
<1> QED
  BY <1>1, <1>2, <1>3, ViewStep, ViewAgainStep, CompareAgainStep, PublicStep,
     OthersKeepKnowledge DEF Next, RunStep

-----------------------------------------------------------------------------
\* What is remote.  Only six actions write it.
LEMMA WhoWrites ==
  ASSUME [Next]_vars
  PROVE  \/ UNCHANGED <<tag, release>>
         \/ CreateTag \/ CreateDraft \/ Upload \/ Publish \/ Settles \/ OtherActs
BY DEF Next, RunStep, StartRun, ReadMain, Classify, EnsureMain, VerifyTag,
   View, ViewDraft, DraftTag, DraftTagAgain, PublicTag, TagCheck, CompareExisting,
   CompareDraft, CompareAgain, Compare, Uploaded, ViewFull, ViewAgain, FinalView,
   CompareFinal, FinalTag, ComparePublic, RunDies, MainMoves, vars, Remote

LEMMA OneSourceStep == ASSUME ReleaseInv, [Next]_vars PROVE OneSource'
<1>1. /\ TypeOK /\ OneSource /\ TagHeld /\ run.commit # None
      /\ tag # None => tag' = tag
  BY Protected, ValuesDiffer DEF ReleaseInv, RunKnows, TypeOK, Contents
<1>2. CASE UNCHANGED <<tag, release>>
  BY <1>1, <1>2 DEF OneSource
<1>3. CASE CreateTag \/ (OtherActs /\ OtherTags)
  BY <1>1, <1>3 DEF CreateTag, OtherActs, OtherTags, OneSource
<1>4. CASE CreateDraft
  <2>1. tag' = run.commit /\ tag' # None
    BY <1>1, <1>4 DEF CreateDraft, TagHeld, At, Unlocked
  <2>2. release' = [draft |-> TRUE, immutable |-> FALSE, byRun |-> FALSE,
                    notes |-> run.commit, files |-> [n \in AllNames |-> Absent]]
    BY <1>4 DEF CreateDraft
  <2> QED BY <2>1, <2>2 DEF OneSource
<1>5. CASE Upload
  <2>1. tag = run.commit /\ UNCHANGED tag
    BY <1>1, <1>5 DEF Upload, TagHeld, At, Unlocked
  <2>2. ASSUME release # None, NEW n \in Reviewed, NEW content \in {run.commit, Other},
               release' = [release EXCEPT !.files[n] = content]
        PROVE  OneSource'
    <3>1. release \in Releases /\ n \in AllNames /\ content \in Contents \union {Absent}
      BY <1>1, <2>2 DEF TypeOK, AllNames, Contents
    <3>2. /\ release'.notes = release.notes
          /\ release'.files[n] = content
          /\ \A m \in AllNames \ {n} : release'.files[m] = release.files[m]
      BY <2>2, <3>1, PutTypes
    <3> QED BY <1>1, <2>1, <2>2, <3>2 DEF OneSource
  <2>3. run.left \subseteq Reviewed
    BY <1>1 DEF TypeOK
  <2> QED BY <1>1, <1>5, <2>1, <2>2, <2>3 DEF Upload, HasDraft, OneSource
<1>6. CASE Publish
  <2>1. tag = run.commit /\ UNCHANGED tag
    BY <1>1, <1>6 DEF Publish, TagHeld, At, Unlocked
  <2>2. ASSUME release # None,
               release' = [release EXCEPT !.draft = FALSE, !.byRun = TRUE, !.notes = run.commit]
        PROVE  OneSource'
    <3>1. release \in Releases
      BY <1>1, <2>2 DEF TypeOK
    <3>2. release'.notes = run.commit /\ release'.files = release.files
      BY <2>2, <3>1 DEF Releases
    <3> QED BY <1>1, <2>1, <2>2, <3>2 DEF OneSource
  <2> QED BY <1>1, <1>6, <2>1, <2>2 DEF Publish, OneSource
<1>7. CASE Settles
  <2>1. release \in Releases /\ release' = [release EXCEPT !.immutable = TRUE] /\ UNCHANGED tag
    BY <1>1, <1>7 DEF Settles, TypeOK
  <2>2. release'.notes = release.notes /\ release'.files = release.files
    BY <2>1 DEF Releases
  <2> QED BY <1>1, <1>7, <2>1, <2>2 DEF Settles, OneSource
<1>8. CASE OtherActs /\ OtherEditsDraft
  <2>1. release # None /\ release \in Releases /\ UNCHANGED tag
    BY <1>1, <1>8 DEF OtherEditsDraft, HasDraft, TypeOK
  <2>2. release' # None => /\ release'.notes \in {release.notes, Other}
                           /\ release'.files = release.files
    BY <1>8, <2>1 DEF OtherEditsDraft, Releases
  <2> QED BY <1>1, <2>1, <2>2 DEF OneSource
<1>9. ASSUME NEW n \in AllNames, OtherEditsFile(n) PROVE OneSource'
  <2>1. release # None /\ release \in Releases /\ UNCHANGED tag
    BY <1>1, <1>9 DEF OtherEditsFile, HasDraft, TypeOK
  <2>2. PICK content \in {Absent, Other} : release' = [release EXCEPT !.files[n] = content]
    BY <1>9 DEF OtherEditsFile
  <2>3. /\ release'.notes = release.notes
        /\ release'.files[n] = content
        /\ \A m \in AllNames \ {n} : release'.files[m] = release.files[m]
    BY <2>1, <2>2, PutTypes DEF Contents
  <2> QED BY <1>1, <2>1, <2>3 DEF OneSource
<1> QED
  BY <1>2, <1>3, <1>4, <1>5, <1>6, <1>7, <1>8, <1>9, WhoWrites DEF OtherActs

\* Only Publish marks a release as published by a run, and the next run meets
\* it as a public one.
LEMMA NotPublishedYetStep == ASSUME ReleaseInv, [Next]_vars PROVE NotPublishedYet'
<1>1. TypeOK /\ NotPublishedYet /\ RunType
  BY DEF ReleaseInv, TypeOK, RunType
<1>2. CASE Publish
  BY <1>1, <1>2, ValuesDiffer DEF Publish, HasDraft, NotPublishedYet, RunType, At, Drafting,
     TypeOK, Releases
<1>3. CASE CreateDraft
  BY <1>3 DEF CreateDraft, NotPublishedYet
<1>4. ASSUME release' # None, ~Publish, ~CreateDraft
      PROVE  /\ release # None
             /\ release'.byRun = release.byRun
             /\ release'.draft => release.draft
  <2>1. CASE UNCHANGED release
    BY <1>4, <2>1
  <2>2. CASE Upload
    <3>1. PICK n \in run.left : \/ UNCHANGED release
                                \/ release # None /\ release' = [release EXCEPT !.files[n] = run.commit]
                                \/ release # None /\ release' = [release EXCEPT !.files[n] = Other]
      BY <2>2 DEF Upload, HasDraft
    <3>2. n \in AllNames /\ {run.commit, Other} \subseteq Contents \union {Absent}
      BY <1>1, <3>1 DEF RunType, AllNames, Contents
    <3>3. release # None => release \in Releases
      BY <1>1 DEF TypeOK
    <3>4. ASSUME NEW content \in {run.commit, Other}, release # None,
                 release' = [release EXCEPT !.files[n] = content]
          PROVE  release'.byRun = release.byRun /\ release'.draft = release.draft
      BY <3>2, <3>3, <3>4, PutTypes
    <3> QED BY <1>4, <3>1, <3>4
  <2>3. CASE Settles
    BY <1>1, <2>3 DEF Settles, TypeOK, Releases
  <2>4. CASE OtherActs /\ OtherEditsDraft
    BY <1>1, <1>4, <2>4 DEF OtherEditsDraft, HasDraft, TypeOK, Releases
  <2>5. ASSUME NEW n \in AllNames, OtherEditsFile(n)
        PROVE  /\ release # None
               /\ release'.byRun = release.byRun
               /\ release'.draft => release.draft
    <3>1. release # None /\ release \in Releases
      BY <1>1, <2>5 DEF OtherEditsFile, HasDraft, TypeOK
    <3>2. PICK content \in {Absent, Other} : release' = [release EXCEPT !.files[n] = content]
      BY <2>5 DEF OtherEditsFile
    <3> QED BY <3>1, <3>2, PutTypes DEF Contents
  <2> QED
    BY <1>4, <2>1, <2>2, <2>3, <2>4, <2>5, WhoWrites DEF CreateTag, OtherActs, OtherTags
<1>5. ASSUME run'.pc \in Drafting, release # None, ~Publish, ~CreateDraft
      PROVE  release.draft \/ run.pc \in Drafting
  <2>1. CASE UNCHANGED run
    BY <1>5, <2>1
  <2>2. CASE View
    <3>1. release # None /\ ~release.draft => run'.pc \in {"PublicTag", "Stopped"}
      BY <1>1, <2>2, GotoTypes, StopTypes DEF View, HasDraft, Phases
    <3> QED BY <1>5, <3>1 DEF Drafting
  <2>3. CASE \E c \in Commits : StartRun(c)
    BY <1>5, <2>3, BoundsAreNaturals DEF StartRun, NoRun, Drafting
  <2>4. CASE ReadMain \/ Classify \/ EnsureMain \/ CreateTag \/ VerifyTag \/ RunDies
    <3>1. CASE ReadMain \/ Classify \/ VerifyTag
      <4>1. CASE ReadMain
        BY <1>1, <1>5, <4>1, GotoTypes, StopTypes DEF ReadMain, Phases, Drafting
      <4>2. CASE Classify
        BY <1>1, <1>5, <4>2, GotoTypes, StopTypes DEF Classify, Phases, Drafting
      <4>3. CASE VerifyTag
        BY <1>1, <1>5, <4>3, GotoTypes, StopTypes DEF VerifyTag, Phases, Drafting
      <4> QED BY <3>1, <4>1, <4>2, <4>3
    <3>2. CASE EnsureMain \/ CreateTag
      BY <1>1, <1>5, <3>2, GotoTypes, StopTypes DEF EnsureMain, CreateTag, Phases, Drafting
    <3>3. CASE RunDies
      BY <1>5, <3>3, StopTypes DEF RunDies, Drafting
    <3> QED BY <2>4, <3>1, <3>2, <3>3
  <2>5. CASE FinalView \/ CompareFinal \/ FinalTag \/ ComparePublic \/ PublicTag
    BY <1>1, <1>5, <2>5, GotoTypes, GotoWithTypes, StrikeTypes, RetryTypes, StopTypes
       DEF FinalView, CompareFinal, FinalTag, ComparePublic, PublicTag, TagCheck, Succeed,
           At, Phases, Drafting
  <2>6. CASE \/ ViewDraft \/ DraftTag \/ CompareExisting \/ Upload \/ Uploaded \/ ViewFull
             \/ CompareDraft \/ DraftTagAgain \/ ViewAgain \/ CompareAgain
    BY <2>6 DEF ViewDraft, DraftTag, CompareExisting, Upload, Uploaded, ViewFull, CompareDraft,
       DraftTagAgain, ViewAgain, CompareAgain, TagCheck, Compare, At, Drafting
  <2> QED
    BY <1>5, <2>1, <2>2, <2>3, <2>4, <2>5, <2>6
       DEF Next, RunStep, MainMoves, Settles, OtherActs, vars
<1> QED
  BY <1>1, <1>2, <1>3, <1>4, <1>5 DEF NotPublishedYet

\* A reported release is public and stays; the report itself is made where the
\* run has seen all of it.
LEMMA SuccessStep == ASSUME ReleaseInv, [Next]_vars PROVE SuccessIsExact'
<1>1. TypeOK /\ RunKnows /\ SuccessIsExact /\ (done # None => tag # None)
  BY ValuesDiffer DEF ReleaseInv, SuccessIsExact, Exact, TypeOK, Contents
<1>2. CASE UNCHANGED done
  BY <1>1, <1>2, Protected DEF SuccessIsExact, Exact
<1>3. ASSUME Succeed, UNCHANGED <<tag, release>>, tag = run.commit, PublicView, PublicBytes,
             run.pc \in Comparing, run.left = {}
      PROVE  SuccessIsExact'
  <2>1. done' = run.commit
    BY <1>3 DEF Succeed
  <2> QED
    BY <1>3, <2>1 DEF SuccessIsExact, Exact, PublicView, PublicBytes, Expected
<1>4. CASE FinalTag /\ Succeed
  BY <1>1, <1>3, <1>4
     DEF FinalTag, RunKnows, TagHeld, NothingLeft, At, Unlocked, Comparing, Remote
<1>5. CASE ComparePublic /\ Succeed /\ run.left = {}
  BY <1>1, <1>3, <1>5 DEF ComparePublic, RunKnows, TagHeld, At, Unlocked, Comparing, Remote
<1>6. \/ UNCHANGED done
      \/ FinalTag /\ Succeed
      \/ ComparePublic /\ Succeed /\ run.left = {}
  BY DEF Next, RunStep, StartRun, ReadMain, Classify, EnsureMain, CreateTag, VerifyTag,
     View, CreateDraft, ViewDraft, DraftTag, DraftTagAgain, PublicTag, TagCheck, CompareExisting,
     CompareDraft, CompareAgain, Compare, Upload, Uploaded, ViewFull, ViewAgain, Publish, FinalView,
     CompareFinal, FinalTag, ComparePublic, RunDies, MainMoves, Settles, OtherActs, vars
<1> QED BY <1>2, <1>4, <1>5, <1>6

\* late only loses names while a draft is compared, and a name that it loses
\* holds the reviewed bytes.
LEMMA PublishedStep == ASSUME ReleaseInv, [Next]_vars PROVE PublishedIsReviewed'
<1>1. /\ TypeOK /\ RunType /\ RunKnows /\ NotPublishedYet /\ PublishedIsReviewed /\ OneSource
      /\ NotPublishedYet'
  BY NotPublishedYetStep DEF ReleaseInv, TypeOK, RunType
<1>2. CASE Publish
  <2>1. /\ tag = run.commit /\ run.pc = "Publish" /\ run.left = {}
        /\ UNCHANGED <<tag, late>>
    BY <1>1, <1>2 DEF Publish, At, RunKnows, TagHeld, NothingLeft, Unlocked
  <2>2. CASE UNCHANGED release
    BY <1>1, <2>1, <2>2 DEF PublishedIsReviewed
  <2>3. CASE /\ release # None
             /\ release' = [release EXCEPT !.draft = FALSE, !.byRun = TRUE, !.notes = run.commit]
    <3>1. release \in Releases
      BY <1>1, <2>3 DEF TypeOK
    <3>2. release'.notes = run.commit /\ release'.files = release.files
      BY <2>3, <3>1 DEF Releases
    <3>3. \A n \in AllNames \ late : release.files[n] = Expected(n)
      BY <1>1, <2>1, <2>3 DEF RunKnows, LastLook
    <3> QED BY <2>1, <3>2, <3>3 DEF PublishedIsReviewed, Expected
  <2> QED BY <1>2, <2>2, <2>3 DEF Publish
<1>3. ASSUME ~Publish, release' # None, release'.byRun
      PROVE  /\ release # None /\ release.byRun /\ ~release.draft
             /\ release'.notes = release.notes /\ release'.files = release.files
             /\ tag # None /\ tag' = tag
             /\ run.pc \notin Drafting
  <2>1. release # None /\ release.byRun
    <3>1. CASE UNCHANGED release
      BY <1>3, <3>1
    <3>2. CASE CreateDraft
      BY <1>3, <3>2 DEF CreateDraft
    <3>3. CASE Upload
      <4>1. PICK n \in run.left : \/ UNCHANGED release
                                  \/ release # None /\ release' = [release EXCEPT !.files[n] = run.commit]
                                  \/ release # None /\ release' = [release EXCEPT !.files[n] = Other]
        BY <3>3 DEF Upload, HasDraft
      <4>2. n \in AllNames /\ {run.commit, Other} \subseteq Contents \union {Absent}
        BY <1>1, <4>1 DEF RunType, AllNames, Contents
      <4>3. release # None => release \in Releases
        BY <1>1 DEF TypeOK
      <4>4. ASSUME NEW content \in {run.commit, Other}, release # None,
                   release' = [release EXCEPT !.files[n] = content]
            PROVE  release'.byRun = release.byRun
        BY <4>2, <4>3, <4>4, PutTypes
      <4> QED BY <1>3, <4>1, <4>4
    <3>4. CASE Settles
      BY <1>1, <1>3, <3>4 DEF Settles, TypeOK, Releases
    <3>5. CASE OtherActs /\ OtherEditsDraft
      BY <1>1, <1>3, <3>5 DEF OtherEditsDraft, HasDraft, TypeOK, Releases
    <3>6. ASSUME NEW n \in AllNames, OtherEditsFile(n) PROVE release # None /\ release.byRun
      <4>1. release # None /\ release \in Releases
        BY <1>1, <3>6 DEF OtherEditsFile, HasDraft, TypeOK
      <4>2. PICK content \in {Absent, Other} : release' = [release EXCEPT !.files[n] = content]
        BY <3>6 DEF OtherEditsFile
      <4> QED BY <1>3, <4>1, <4>2, PutTypes DEF Contents
    <3> QED
      BY <1>3, <3>1, <3>2, <3>3, <3>4, <3>5, <3>6, WhoWrites DEF CreateTag, OtherActs, OtherTags
  <2>2. ~release.draft /\ run.pc \notin Drafting
    BY <1>1, <2>1, ValuesDiffer DEF NotPublishedYet, TypeOK, Releases
  <2> QED BY <1>1, <2>1, <2>2, Protected DEF OneSource
<1>4. ASSUME ~Publish, release' # None, release'.byRun
      PROVE  AllNames \ late' \subseteq AllNames \ late
  <2>1. run.pc \notin Drafting
    BY <1>3, <1>4
  <2>2. late \subseteq late'
    BY <1>4, <2>1 DEF Next, RunStep, StartRun, ReadMain, Classify, EnsureMain, CreateTag, VerifyTag,
     View, CreateDraft, ViewDraft, DraftTag, DraftTagAgain, PublicTag, TagCheck, CompareExisting,
     CompareDraft, CompareAgain, Compare, Upload, Uploaded, ViewFull, ViewAgain, FinalView,
     CompareFinal, FinalTag, ComparePublic, RunDies, MainMoves, Settles, OtherActs, OtherTags,
     OtherEditsDraft, OtherEditsFile, vars, At, Drafting
  <2> QED BY <2>2
<1> QED BY <1>1, <1>2, <1>3, <1>4 DEF PublishedIsReviewed

LEMMA InvInit == Init => ReleaseInv
<1> SUFFICES ASSUME Init PROVE ReleaseInv
  OBVIOUS
<1>1. TypeOK
  BY BoundsAreNaturals DEF Init, TypeOK, NoRun, Phases, Commits
<1>2. run.pc = "Stopped" /\ release = None /\ done = None
  BY DEF Init, NoRun
<1> QED
  BY <1>1, <1>2
     DEF ReleaseInv, RunKnows, TagHeld, LastLook, PublicView, PublicBytes, NothingLeft,
         NotPublishedYet, OneSource, PublishedIsReviewed, SuccessIsExact, Unlocked, Comparing

(* What every step relies on: the tag from the first check on, the bytes   *)
(* of the second comparison but for later edits, and a public release as   *)
(* it was read (completeToolingGithubRelease).                             *)
THEOREM ReleaseInvariant == Spec => []ReleaseInv
<1>1. Init => ReleaseInv
  BY InvInit
<1>2. ReleaseInv /\ [Next]_vars => ReleaseInv'
  BY TypeStep, KnowsStep, OneSourceStep, NotPublishedYetStep, PublishedStep, SuccessStep
     DEF ReleaseInv
<1> QED BY <1>1, <1>2, PTL DEF Spec

(* A run that reports success leaves the exact release for ever            *)
(* (verifyFinalHostedRelease).                                             *)
THEOREM ReportedReleaseIsExact == Spec => []SuccessIsExact
<1>1. ReleaseInv => SuccessIsExact
  BY DEF ReleaseInv
<1> QED BY <1>1, ReleaseInvariant, PTL

(* Runs for different commits never mix in one release                     *)
(* (ensureReleaseTag).                                                     *)
THEOREM ReleasesHaveOneSource == Spec => []OneSource
<1>1. ReleaseInv => OneSource
  BY DEF ReleaseInv
<1> QED BY <1>1, ReleaseInvariant, PTL

(* What a run publishes is what it compared, but for what others changed   *)
(* after its last look (completeToolingGithubRelease 571-590).             *)
THEOREM RunsPublishReviewed == Spec => []PublishedIsReviewed
<1>1. ReleaseInv => PublishedIsReviewed
  BY DEF ReleaseInv
<1> QED BY <1>1, ReleaseInvariant, PTL

(* No run removes or replaces a tag, a file or a public release.           *)
THEOREM RunsOnlyAdd == Spec => OnlyAdds
<1>1. ASSUME TypeOK, [Next]_vars, edits' = edits
      PROVE  /\ tag # None => tag' = tag
             /\ release # None =>
                  /\ release' # None
                  /\ ~release.draft => ~release'.draft /\ release'.notes = release.notes
                  /\ \A n \in HostedNames(release) : release'.files[n] = release.files[n]
  <2>1. /\ tag # None => tag' = tag
        /\ release # None /\ ~release.draft =>
             /\ release' # None /\ ~release'.draft
             /\ release'.notes = release.notes /\ release'.files = release.files
    BY <1>1, Protected
  <2>2. ASSUME release # None, release.draft
        PROVE  /\ release' # None
               /\ \A n \in HostedNames(release) : release'.files[n] = release.files[n]
    <3>1. release \in Releases
      BY <1>1, <2>2 DEF TypeOK
    <3>2. ~OtherActs
      BY <1>1 DEF OtherActs, TypeOK
    <3>3. CASE Upload
      <4>1. PICK n \in run.left :
              \/ UNCHANGED release
              \/ /\ release.files[n] = Absent
                 /\ \/ release' = [release EXCEPT !.files[n] = run.commit]
                    \/ release' = [release EXCEPT !.files[n] = Other]
        BY <3>3 DEF Upload
      <4>2. n \in AllNames /\ {run.commit, Other} \subseteq Contents \union {Absent}
        BY <1>1, <4>1 DEF TypeOK, AllNames, Contents
      <4>3. ASSUME NEW content \in {run.commit, Other}, release.files[n] = Absent,
                   release' = [release EXCEPT !.files[n] = content]
            PROVE  /\ release' # None
                   /\ \A m \in HostedNames(release) : release'.files[m] = release.files[m]
        <5>1. release' \in Releases /\ \A m \in AllNames \ {n} : release'.files[m] = release.files[m]
          BY <3>1, <4>2, <4>3, PutTypes
        <5> QED BY <4>3, <5>1, ValuesDiffer DEF HostedNames
      <4> QED BY <2>2, <4>1, <4>3
    <3>4. CASE Publish
      <4>1. ASSUME release' = [release EXCEPT !.draft = FALSE, !.byRun = TRUE, !.notes = run.commit]
            PROVE  release' \in Releases /\ release'.files = release.files
        BY <1>1, <3>1, <4>1 DEF Releases, TypeOK, Contents
      <4> QED BY <2>2, <3>4, <4>1, ValuesDiffer DEF Publish
    <3>5. CASE UNCHANGED release
      BY <2>2, <3>5
    <3> QED
      BY <1>1, <2>2, <3>2, <3>3, <3>4, <3>5, WhoWrites DEF CreateTag, CreateDraft, Settles
  <2> QED BY <2>1, <2>2, <1>1 DEF TypeOK, Releases, HostedNames
<1>2. TypeOK /\ [Next]_vars => [edits' = edits =>
       /\ tag # None => tag' = tag
       /\ release # None =>
            /\ release' # None
            /\ ~release.draft => ~release'.draft /\ release'.notes = release.notes
            /\ \A n \in HostedNames(release) :
                 release'.files[n] = release.files[n]]_vars
  BY <1>1
<1> QED BY <1>2, ReleaseTypeCorrect, PTL DEF Spec, OnlyAdds
=============================================================================
