-------------------------- MODULE AuthorityMigration --------------------------
(***************************************************************************)
(* tooling/src/session/authority-migration.ts: how a project that was last *)
(* built by a release with one marker per entry moves to one marker per    *)
(* output directory, inside the starts, builds and deaths of its sessions. *)
(*                                                                         *)
(* Four files change, each in a transaction of its own (module             *)
(* ArtifactTransaction): the new bytes are staged, the lock is made, the   *)
(* journal becomes durable, the old file moves to the backup, the new one  *)
(* moves in, the journal goes.  A process may die between any two of these *)
(* and while it recovers what another one left.  The builds of the session *)
(* publish with a fifth transaction, whose last file is the root marker.   *)
(***************************************************************************)
EXTENDS Naturals, FiniteSets

CONSTANTS
  Digest,      \* contents of the generated tree
  MaxBuilds,   \* bound: generations made after the first
  MaxCrashes   \* bound: processes that die

ASSUME MigrationAssumption == Digest # {} /\ MaxBuilds \in Nat /\ MaxCrashes \in Nat

VARIABLES
  file,      \* receipt, fence (the old entry marker), owner, marker
  tree,      \* the content of the generated tree
  stage,     \* the staged file of each step
  journal,   \* the undecided transaction of each step, and of a build
  half,      \* the transactions whose control files are half written: a lock
             \* without a journal, or journal.json.tmp beside an undecided one
  pc,        \* the session of the entry, or "idle"
  seen,      \* the root marker it read first
  doing,     \* what it does there: "none", "stage", "publish" or "recover"
  refused,   \* why the last start was refused, or "none"
  made,      \* generations made so far
  accepted,  \* history: the generation a session accepted last
  migrated,  \* history: a root marker has been published
  crashes

vars == <<file, tree, stage, journal, half, pc, seen, doing, refused, made, accepted, migrated, crashes>>

Step == {"receipt", "fence", "owner", "marker"}
Transaction == Step \cup {"build"}

\* The file a transaction moves last, and the place where a start recovers it.
Last(t)  == IF t = "build" THEN "marker" ELSE t
Place(t) == IF t = "build" THEN "recover" ELSE t

None      == [kind |-> "none"]
Gen(n, d) == [kind |-> "generation", n |-> n, digest |-> d]
Receipt(g) == [kind |-> "receipt", of |-> g]
Fence     == [kind |-> "fence"]
Torn      == [kind |-> "torn"]
Entry(e)  == [kind |-> "entry", name |-> e]
Present(s) == file[s] # None

Plan(prior, next) == [kind |-> "plan", phase |-> "prepared", prior |-> prior, next |-> next]
BuildPlan(prior, next, before) ==
  [kind |-> "plan", phase |-> "prepared", prior |-> prior, next |-> next, tree |-> before]
Pending(t) == journal[t] # None
Build == journal["build"]

\* An old project has a marker and a tree, which somebody may have changed
\* since; a new one has neither.
Init ==
  /\ tree \in Digest
  /\ \E old \in {None} \cup {Gen(0, d) : d \in Digest} :
       /\ file = [receipt |-> None, fence |-> old, owner |-> None, marker |-> None]
       /\ accepted = old
  /\ stage = [s \in Step |-> None] /\ journal = [t \in Transaction |-> None] /\ half = {}
  /\ pc = "idle" /\ seen = None /\ doing = "none" /\ refused = "none"
  /\ made = 0 /\ migrated = FALSE /\ crashes = 0

durable == <<file, tree, stage, journal, half>>
history == <<made, accepted, migrated, crashes>>

-----------------------------------------------------------------------------
(* establishSessionAuthority.                                              *)

Start ==
  /\ pc = "idle"
  /\ pc' = "read" /\ refused' = "none"
  /\ UNCHANGED <<durable, seen, doing, history>>

Refuse(why) ==
  /\ pc' = "idle" /\ refused' = why /\ seen' = None /\ doing' = "none"
  /\ UNCHANGED <<durable, history>>

Go(next) == pc' = next /\ UNCHANGED <<refused, history>>

\* The generation that is moved: the receipt's, else that of the old marker.
Basis == IF Present("receipt") THEN file["receipt"].of ELSE file["fence"]

Prior(s) == IF s = "fence" THEN Basis ELSE None
Published(s) == CASE s = "receipt" -> Receipt(Basis)
              [] s = "fence"   -> Fence
              [] s = "owner"   -> Entry("A")
              [] s = "marker"  -> Basis

\* What the files say before the first transaction.
Doubt ==
  CASE Present("receipt") -> "none"
    [] file["fence"] = Fence -> "fence without receipt"
    [] file["fence"] # None /\ Present("marker") -> "coexist"
    [] file["fence"] # None /\ file["fence"].digest # tree -> "changed"
    [] file["fence"] = None /\ Present("marker") /\ ~Present("owner") -> "no owner"
    [] OTHER -> "none"

Read ==
  /\ pc = "read" /\ Doubt = "none"
  /\ seen' = file["marker"]
  /\ Go(IF Present("receipt") \/ Present("fence") THEN "receipt" ELSE "claim")
  /\ UNCHANGED <<durable, doing>>

ReadRefuses == pc = "read" /\ Doubt # "none" /\ Refuse(Doubt)

-----------------------------------------------------------------------------
(* recoverArtifacts, for the transaction of a step and for that of a build. *)

\* A lock without a journal is refused, and the temporary file of a journal
\* which somebody else left is never overwritten.
RecoverRefuses(t) ==
  pc = Place(t) /\ doing = "none" /\ t \in half /\ Refuse("control files")

\* Mutant of Intended: the marker is not looked at.
TreeIntended(t) ==
  IF t = "build" THEN tree = Build.next.digest ELSE file[t] = journal[t].next

\* A transaction whose last file is in place is finished, any other undone.
Intended(t) == file[Last(t)] = journal[t].next

Rolling(t) == journal[t].phase = "rolling-back"
Undone(t) ==
  Rolling(t) /\ file[Last(t)] = journal[t].prior /\ (t = "build" => tree = Build.tree)
Settled(t) == Intended(t) \/ Undone(t)

Reopened(t) == pc = Place(t) /\ Pending(t) /\ doing \in {"none", "recover"} /\ t \notin half

\* persistPhase, first its temporary file, then the rename: to "rolling-back"
\* before anything is undone, to "committed" (RecoverEnds, BuildRecovered) after.
Persist(t) ==
  /\ Reopened(t) /\ (Settled(t) \/ ~Rolling(t))
  /\ half' = half \cup {t} /\ doing' = "recover"
  /\ UNCHANGED <<file, tree, stage, journal, pc, seen, refused, history>>

Persisting(t) == pc = Place(t) /\ Pending(t) /\ doing = "recover" /\ t \in half

RollBack(t) ==
  /\ Persisting(t) /\ ~Settled(t)
  /\ journal' = [journal EXCEPT ![t].phase = "rolling-back"] /\ half' = half \ {t}
  /\ UNCHANGED <<file, tree, stage, pc, seen, doing, refused, history>>

\* rollbackTransaction: the last file first.
Restore(t) ==
  /\ Reopened(t) /\ Rolling(t) /\ file[Last(t)] = None /\ journal[t].prior # None
  /\ file' = [file EXCEPT ![Last(t)] = journal[t].prior]
  /\ UNCHANGED <<tree, stage, journal, half, pc, seen, doing, refused, history>>

RestoreTree ==
  /\ Reopened("build") /\ Rolling("build") /\ ~Settled("build")
  /\ file["marker"] = Build.prior
  /\ tree' = Build.tree
  /\ UNCHANGED <<file, stage, journal, half, pc, seen, doing, refused, history>>

RecoverConflicts(t) ==
  /\ Reopened(t) /\ Rolling(t) /\ file[Last(t)] \notin {journal[t].next, journal[t].prior, None}
  /\ Refuse("ambiguous")

RecoverEnds(s) ==
  /\ Persisting(s) /\ Settled(s)
  /\ journal' = [journal EXCEPT ![s] = None] /\ half' = half \ {s} /\ doing' = "none"
  /\ UNCHANGED <<file, tree, stage, pc, seen, refused, history>>

-----------------------------------------------------------------------------
(* publishStep.                                                            *)

\* What follows a step.
After(s) ==
  CASE s = "receipt" -> "decide"
    [] s = "fence"   -> "fenced"
    [] s = "owner"   -> "marker"
    [] s = "marker"  -> "claim"

\* Recovery has found nothing, or is through.
Fresh(s) == pc = s /\ ~Pending(s) /\ s \notin half /\ doing = "none"
IsDone(s) == file[s] = Published(s)

Done(s) ==
  /\ Fresh(s) /\ IsDone(s)
  /\ stage' = [stage EXCEPT ![s] = None]
  /\ Go(After(s))
  /\ UNCHANGED <<file, tree, journal, half, seen, doing>>

Contradicts(s) ==
  Fresh(s) /\ file[s] \notin {Published(s), Prior(s)} /\ Refuse("contradictory")

\* stageExact creates the staged file, then writes it; one that is there from
\* an earlier start must hold exactly these bytes.
Create(s) ==
  /\ Fresh(s) /\ ~IsDone(s) /\ file[s] = Prior(s) /\ stage[s] = None
  /\ stage' = [stage EXCEPT ![s] = Torn] /\ doing' = "stage"
  /\ UNCHANGED <<file, tree, journal, half, pc, seen, refused, history>>

Write(s) ==
  /\ pc = s /\ doing = "stage"
  /\ stage' = [stage EXCEPT ![s] = Published(s)] /\ doing' = "none"
  /\ UNCHANGED <<file, tree, journal, half, pc, seen, refused, history>>

StageDiffers(s) ==
  /\ Fresh(s) /\ ~IsDone(s) /\ file[s] = Prior(s) /\ stage[s] \notin {None, Published(s)}
  /\ Refuse("staged bytes")

\* publishArtifacts takes the lock ...
Lock(s) ==
  /\ Fresh(s) /\ ~IsDone(s) /\ file[s] = Prior(s) /\ stage[s] = Published(s)
  /\ half' = half \cup {s} /\ doing' = "publish"
  /\ UNCHANGED <<file, tree, stage, journal, pc, seen, refused, history>>

Publishes(t) == pc = t /\ doing = "publish"

\* ... and makes the journal durable.
Begin(s) ==
  /\ Publishes(s) /\ ~Pending(s)
  /\ journal' = [journal EXCEPT ![s] = Plan(Prior(s), Published(s))] /\ half' = half \ {s}
  /\ UNCHANGED <<file, tree, stage, pc, seen, doing, refused, history>>

\* updateJournal: a temporary file, then the rename.  The phase is "publishing"
\* before the first move and "published" after the last one.
Draft(t) ==
  /\ Publishes(t) /\ Pending(t) /\ t \notin half
  /\ journal[t].phase = "prepared" \/ file[Last(t)] = journal[t].next
  /\ half' = half \cup {t}
  /\ UNCHANGED <<file, tree, stage, journal, pc, seen, doing, refused, history>>

Update(t) ==
  /\ Publishes(t) /\ Pending(t) /\ t \in half /\ journal[t].phase # "published"
  /\ journal' = [journal EXCEPT ![t].phase =
                    IF journal[t].phase = "prepared" THEN "publishing" ELSE "published"]
  /\ half' = half \ {t}
  /\ UNCHANGED <<file, tree, stage, pc, seen, doing, refused, history>>

Moves(t) ==
  Publishes(t) /\ Pending(t) /\ t \notin half /\ journal[t].phase = "publishing"

PublishTree ==
  /\ Moves("build") /\ tree # Build.next.digest
  /\ tree' = Build.next.digest
  /\ UNCHANGED <<file, stage, journal, half, pc, seen, doing, refused, history>>

TreeIsIn(t) == t = "build" => tree = Build.next.digest

MoveOut(t) ==
  /\ Moves(t) /\ TreeIsIn(t) /\ file[Last(t)] = journal[t].prior /\ journal[t].prior # None
  /\ file' = [file EXCEPT ![Last(t)] = None]
  /\ UNCHANGED <<tree, stage, journal, half, pc, seen, doing, refused, history>>

MoveIn(t) ==
  /\ Moves(t) /\ TreeIsIn(t) /\ file[Last(t)] = None
  /\ file' = [file EXCEPT ![Last(t)] = IF t = "build" THEN Build.next ELSE stage[t]]
  /\ stage' = [s \in Step |-> IF s = t THEN None ELSE stage[s]]
  /\ UNCHANGED <<tree, journal, half, pc, seen, doing, refused, history>>

\* The rename that makes the phase "committed".  From there every recovery only
\* clears away what is left, as if there were no journal.
Decided(t) ==
  /\ Publishes(t) /\ Pending(t) /\ t \in half /\ journal[t].phase = "published"
  /\ journal' = [journal EXCEPT ![t] = None] /\ half' = half \ {t} /\ doing' = "none"

Finish(s) ==
  /\ Decided(s)
  /\ pc' = After(s) /\ migrated' = (migrated \/ s = "marker")
  /\ UNCHANGED <<file, tree, stage, seen, refused, made, accepted, crashes>>

-----------------------------------------------------------------------------
(* Which steps are gone through.                                           *)

\* The first file to change once the receipt is there.
FirstChange == "fence"

\* The path taken when a root marker was there at the start: it must stand on a
\* fence and an owner.  The steps are gone through again only if no later build
\* has replaced the marker the receipt stands for.
Resumes(next) ==
  /\ seen # None /\ file["fence"] = Fence /\ file["owner"] = Entry("A") /\ Present("marker")
  /\ next = IF file["marker"] = Basis THEN FirstChange ELSE "claim"


\* The path taken when there was none.
Upgrades == seen = None /\ tree = Basis.digest

Decide(next) ==
  /\ pc = "decide" /\ (Resumes(next) \/ (Upgrades /\ next = FirstChange))
  /\ Go(next)
  /\ UNCHANGED <<durable, seen, doing>>

DecideRefuses ==
  /\ pc = "decide"
  /\ \/ seen # None /\ ~(\E next \in Step \cup {"claim"} : Resumes(next)) /\ Refuse("coexist")
     \/ seen = None /\ ~Upgrades /\ Refuse("changed")

Fenced ==
  /\ pc = "fenced" /\ file["fence"] = Fence
  /\ Go("owner")
  /\ UNCHANGED <<durable, seen, doing>>

\* claimSessionRootOwner: the first entry to come owns the output directory.
Claim ==
  /\ pc = "claim" /\ file["owner"] \in {None, Entry("A")}
  /\ file' = [file EXCEPT !["owner"] = Entry("A")]
  /\ Go("recover")
  /\ UNCHANGED <<tree, stage, journal, half, seen, doing>>

ClaimRefuses == pc = "claim" /\ file["owner"] = Entry("B") /\ Refuse("other entry")

-----------------------------------------------------------------------------
(* The session around it.                                                  *)

\* runtime.ts recovers the builds' transaction after the migration, and only
\* then reads which generation is accepted.
NothingPending ==
  /\ pc = "recover" /\ doing = "none" /\ ~Pending("build") /\ "build" \notin half
  /\ pc' = "ready" /\ seen' = None
  /\ UNCHANGED <<durable, doing, refused, history>>

BuildRecovered ==
  /\ Persisting("build") /\ Settled("build")
  /\ journal' = [journal EXCEPT !["build"] = None] /\ half' = half \ {"build"}
  /\ accepted' = IF Intended("build") THEN Build.next ELSE accepted
  /\ pc' = "ready" /\ seen' = None /\ doing' = "none"
  /\ UNCHANGED <<file, tree, stage, refused, made, migrated, crashes>>

\* A build publishes its tree and then its marker.
LockBuild ==
  /\ pc = "ready" /\ made < MaxBuilds
  /\ made' = made + 1 /\ pc' = "build" /\ doing' = "publish" /\ half' = half \cup {"build"}
  /\ UNCHANGED <<file, tree, stage, journal, seen, refused, accepted, migrated, crashes>>

BeginBuild(d) ==
  /\ Publishes("build") /\ ~Pending("build")
  /\ journal' = [journal EXCEPT !["build"] = BuildPlan(file["marker"], Gen(made, d), tree)]
  /\ half' = half \ {"build"}
  /\ UNCHANGED <<file, tree, stage, pc, seen, doing, refused, history>>

CommitBuild ==
  /\ Decided("build")
  /\ accepted' = Build.next /\ migrated' = TRUE /\ pc' = "ready"
  /\ UNCHANGED <<file, tree, stage, seen, refused, made, crashes>>

Close ==
  /\ pc = "ready" /\ pc' = "idle"
  /\ UNCHANGED <<durable, seen, doing, refused, history>>

Crash ==
  /\ pc # "idle" /\ crashes < MaxCrashes
  /\ crashes' = crashes + 1 /\ pc' = "idle" /\ seen' = None /\ doing' = "none"
  /\ refused' = "none"
  /\ UNCHANGED <<durable, made, accepted, migrated>>

\* A release that only knows the entry's marker builds the same entry; it stops
\* at a marker it cannot parse.
OldClient(d) ==
  /\ pc = "idle" /\ file["fence"].kind = "generation" /\ made < MaxBuilds
  /\ made' = made + 1 /\ tree' = d
  /\ file' = [file EXCEPT !["fence"] = Gen(made + 1, d)] /\ accepted' = file'["fence"]
  /\ UNCHANGED <<stage, journal, half, pc, seen, doing, refused, migrated, crashes>>

\* Another entry of the same directory starts: the audit must find no marker of
\* this entry, its own reading no receipt and no other owner.
\* Mutant of Unclaimed: only the two markers and the owner are looked at.
NoMarkers == ~\E s \in Step \ {"receipt"} : Present(s)

Unclaimed == ~\E s \in Step : Present(s)

OtherEntry ==
  /\ pc = "idle" /\ Unclaimed
  /\ file' = [file EXCEPT !["owner"] = Entry("B")]
  /\ UNCHANGED <<tree, stage, journal, half, pc, seen, doing, refused, history>>

-----------------------------------------------------------------------------
Recover(t) ==
  RecoverRefuses(t) \/ Persist(t) \/ RollBack(t) \/ Restore(t) \/ RecoverConflicts(t)

Publish(t) == Draft(t) \/ Update(t) \/ MoveOut(t) \/ MoveIn(t)

PublishStep(s) ==
  \/ RecoverEnds(s) \/ Done(s) \/ Contradicts(s) \/ Create(s) \/ Write(s) \/ StageDiffers(s)
  \/ Lock(s) \/ Begin(s) \/ Finish(s)

Session ==
  \/ Start \/ Read \/ ReadRefuses
  \/ \E t \in Transaction : Recover(t) \/ Publish(t)
  \/ \E s \in Step : PublishStep(s)
  \/ \E next \in {FirstChange, "claim"} : Decide(next)
  \/ DecideRefuses \/ Fenced \/ Claim \/ ClaimRefuses
  \/ RestoreTree \/ NothingPending \/ BuildRecovered
  \/ (\E d \in Digest : BeginBuild(d)) \/ PublishTree \/ CommitBuild

Next ==
  \/ Session
  \/ \E d \in Digest : OldClient(d)
  \/ LockBuild \/ Close \/ Crash \/ OtherEntry

Spec == Init /\ [][Next]_vars

\* The process keeps working, and the project is started again after it stopped.
FairSpec == Spec /\ WF_vars(Session)

-----------------------------------------------------------------------------
(* Properties.                                                             *)

\* Every file holds one of the records it may hold.
TypeOK ==
  /\ \A s \in Step : file[s].kind \in {"none", "generation", "receipt", "fence", "entry"}
  /\ tree \in Digest /\ half \subseteq Transaction
  /\ doing \in {"none", "stage", "publish", "recover"} /\ made \in 0..MaxBuilds /\ crashes \in 0..MaxCrashes
  /\ \A t \in Transaction : Pending(t) =>
       journal[t].phase \in {"prepared", "publishing", "published", "rolling-back"}

\* Wherever a process stops, a root marker that replaced an old one stands behind
\* the fence and the owner, so that no older release and no other entry builds
\* beside it.
FencedBeforeMarked ==
  Present("marker") /\ Present("receipt") => file["fence"] = Fence /\ file["owner"] = Entry("A")

\* Another entry never takes a directory in which this one has accepted a
\* generation, not even while one of its files is out of place.
OneEntryPerRoot == file["owner"] = Entry("B") => accepted = None

\* The generation that was accepted last is on record wherever a process stops:
\* in a marker, in the receipt, or in a journal that can bring the marker back.
AcceptedIsRecorded ==
  accepted # None =>
    \/ accepted \in {file["marker"], file["fence"]}
    \/ Present("receipt") /\ file["receipt"].of = accepted
    \/ \E s \in {"fence", "build"} : Pending(s) /\ journal[s].prior = accepted

\* A session that comes up resumes exactly the generation that was accepted last,
\* by a session, by an older release or by the recovery of a build.
ResumesAccepted == pc = "ready" => file["marker"] = accepted

\* Control files which a process left half written when it died.
LeftHalf(t) == t \in half /\ ~(pc \in {t, Place(t)} /\ doing \in {"publish", "recover"})

\* What startup refuses for good, on purpose or not.
Blocked ==
  \/ \E t \in Transaction : LeftHalf(t)
  \/ file["owner"] = Entry("B")
  \/ file["fence"].kind = "generation" /\
       (file["fence"].digest # tree \/ Present("marker") \/
        (Present("receipt") /\ file["fence"] # file["receipt"].of))
  \/ Present("receipt") /\ ~Present("marker") /\ tree # file["receipt"].of.digest
  \/ Pending("build") /\ file["marker"] \notin {None, Build.prior, Build.next}
  \/ \E s \in Step : stage[s] = Torn
  \/ \E s \in Step : stage[s] # None /\ stage[s] # Published(s)


(* What the documents of the repository say, and the code does not do.     *)

\* "The migration receipt records history.  Later root-scoped builds can publish
\* new generations without comparing the current generated manifest with the old
\* entry-scoped manifest in that receipt" (development-session/v1/README.md).
ReceiptIsHistory == migrated => refused # "changed"
==============================================================================
