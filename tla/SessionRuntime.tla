--------------------------- MODULE SessionRuntime ---------------------------
(***************************************************************************)
(* DevelopmentSessionRuntime of tooling/src/session/runtime.ts: one        *)
(* session from start to close.  It composes the dirty loop and the        *)
(* publication gate of this project with the input watch, the plan of the  *)
(* compiler invocation, the publication of the tree and the host, whose    *)
(* listeners may call the session back from inside its own steps.          *)
(*                                                                         *)
(* start() and the runs of the loop never overlap: one thread, `pc`.  An   *)
(* action is what happens from one await, or one emitted event, to the     *)
(* next.  Inputs are two versions: the plan (HXML, libraries, options) and *)
(* the sources.  What one comparison of the inputs finds is one revision.  *)
(***************************************************************************)
EXTENDS Integers, Sequences, FiniteSets, FiniteSetsExt

CONSTANTS
  Reader,       \* calls of acquirePublishedRead
  Attempts,     \* how often a plan is resolved before the session gives up (4)
  MaxEvents,    \* bound: edits of the inputs and awaited operations that fail
  MaxInvalid,   \* bound: the host invalidates after fewer revisions and events
  MaxRevision   \* bound: revisions

ASSUME BoundsAssumption ==
  /\ IsFiniteSet(Reader) /\ Reader \cap Nat = {} /\ Attempts \in Nat \ {0}
  /\ MaxEvents \in Nat /\ MaxInvalid \in Nat /\ MaxRevision \in Nat \ {0}

VARIABLES
  \* outside
  disk,         \* the inputs: [plan, source]
  tree,         \* the public tree: a generation or Mixed
  journal,      \* whether a publication is undecided on disk
  faults,
  \* the session
  lock,         \* #lock
  watch,        \* #watch: the inputs it last compared, or NoWatch
  effective,    \* the identity of #effectivePlan
  impacts,      \* what each revision invalidates; #newestRevision is its length
  accepted,     \* #accepted: a generation or NoGeneration
  built,        \* the inputs #accepted was built from
  kind,         \* #state.kind
  first,        \* firstAccepted: pending, resolved, rejected
  existing,     \* whether an existing generation is to be resumed
  ready,        \* #startupReady and #acceptWatchChanges
  startupInputChanged,
  closing,      \* how far close() is
  \* start() and #build
  pc, after,    \* the next step, and the caller of #replanGapSafe
  candidate,    \* the plan #replanGapSafe confirms
  tries, rounds,
  read,         \* the inputs the compiler has read
  held,         \* the generation each reader was given
  \* the loop
  loopState, pending, hasPending, quiet, timer, active, cause, clients, requested, begun,
  \* the gate
  readers, writer, gateClosed, readWaiters, writeWaiters, aborted, gateAt, gateTimer

loopVars == <<loopState, pending, hasPending, quiet, timer, active, cause, clients, requested,
              begun>>
gateVars == <<readers, writer, gateClosed, readWaiters, writeWaiters, aborted, gateAt, gateTimer>>
public   == <<tree, journal, accepted, built>>
startVars == <<existing, ready, startupInputChanged>>
planVars == <<effective, after, candidate, tries, rounds>>
vars == <<disk, public, faults, lock, watch, impacts, kind, first, startVars, closing, pc,
          planVars, read, held, loopVars, gateVars>>

Revision == 1..MaxRevision
Closer == "session"

Loop == INSTANCE SerializedDirtyLoop WITH
  Request <- Revision, Client <- {Closer}, Debounce <- 0,
  state <- loopState, at <- clients, accepted <- requested
Gate == INSTANCE PublicationGate WITH
  Writer <- Revision, serial <- TRUE,
  closed <- gateClosed, at <- gateAt, timer <- gateTimer

NoWatch == [plan |-> -1, source |-> -1]
NoGeneration == -1
Mixed == -2

Init ==
  /\ disk = [plan |-> 0, source |-> 0]
  /\ \/ tree = 0 /\ journal = FALSE
     \/ tree = Mixed /\ journal = TRUE      \* left by a session that died
  /\ faults = 0 /\ lock = FALSE /\ watch = NoWatch /\ effective = -1 /\ impacts = <<>>
  /\ accepted = NoGeneration /\ built = NoWatch /\ kind = "opening" /\ first = "pending"
  /\ existing \in BOOLEAN /\ ready = FALSE /\ startupInputChanged = FALSE
  /\ closing = "no" /\ pc = "new" /\ after = "startup" /\ candidate = -1
  /\ tries = 0 /\ rounds = 0 /\ read = NoWatch /\ held = [r \in Reader |-> NoGeneration]
  /\ Loop!Init /\ Gate!Init

\* Where an emitted event runs the listeners in the midst of a job: the host
\* may call the session, and nothing else runs.  (A close at another event is
\* noticed by the next step, like a close just before that step.)
Emitting == {"announce", "registering", "published"}
Open == closing = "no"
Goto(place) == pc' = place

\* Promise jobs that are left; a timer fires only when there are none.
Jobs ==
  \/ active = "queued" \/ \E c \in Gate!Caller : gateAt[c] = "resumed"
  \/ \E r \in Reader : gateAt[r] = "inside" /\ held[r] = NoGeneration

Events == disk.plan + disk.source + faults
Fault == Events < MaxEvents /\ faults' = faults + 1

\* The revision of the active cause, and whether a newer one wants a rebuild.
Revised == Max(cause)
NewestIsNewer == Revised < Len(impacts)   \* mutant: an informational one counts as well
Superseded == \E r \in Revised + 1 .. Len(impacts) : impacts[r] # "info"

\* #observe, while the session is open.
Observe(impact) ==
  /\ Len(impacts) < MaxRevision
  /\ impacts' = Append(impacts, impact)
  /\ Loop!Ask(Len(impacts) + 1)

\* What a comparison of the watch finds.
Impact == IF watch.plan # disk.plan THEN "plan" ELSE "source"

\* #fail, recoverable.
FailedKind == IF accepted = NoGeneration THEN "blocked" ELSE "degraded"

-----------------------------------------------------------------------------
(* start.                                                                  *)

Starting == {"resolve", "register", "registering", "confirm", "admit", "prepare", "begin",
             "existing", "announce"}

\* The catch of #start: fatal, and the lock is given back.
StartFails ==
  /\ Goto("stopped") /\ lock' = FALSE
  /\ kind' = IF Open THEN "blocked" ELSE kind
  /\ first' = IF Open /\ first = "pending" THEN "rejected" ELSE first
  /\ UNCHANGED <<tree, journal, accepted, built, startVars, planVars, watch>>

\* An awaited operation fails, or close has cancelled it.
Fails == IF Open THEN Fault ELSE UNCHANGED faults

Start ==
  /\ pc = "new" /\ Open
  /\ \/ lock' = TRUE /\ Goto("resolve")
        /\ UNCHANGED <<public, startVars, planVars, watch, kind, first, faults>>
     \/ Fault /\ StartFails
  /\ UNCHANGED <<disk, impacts, closing, read, held, loopVars, gateVars>>

\* #resolveEffectivePlan; #recover confirms it if there is something to recover.
StartResolves ==
  /\ pc = "resolve"
  /\ \/ /\ candidate' = disk.plan /\ tries' = 1 /\ after' = "recover"
        /\ Goto(IF journal THEN "register" ELSE "prepare")
        /\ UNCHANGED <<public, startVars, effective, rounds, lock, watch, kind, first, faults>>
     \/ Fails /\ StartFails
  /\ UNCHANGED <<disk, impacts, closing, read, held, loopVars, gateVars>>

\* The comparison before recovery changes a public file: one that finds a
\* difference starts over.
RecoveryAdmitted ==
  /\ pc = "admit"
  /\ \/ /\ watch # NoWatch /\ watch = disk
        /\ tree' = 0 /\ journal' = FALSE
        /\ Goto("prepare")
        /\ UNCHANGED <<accepted, built, startVars, planVars, lock, watch, kind, first, faults>>
     \/ /\ watch # NoWatch /\ watch # disk /\ rounds + 1 < Attempts
        /\ watch' = disk /\ startupInputChanged' = TRUE /\ rounds' = rounds + 1
        /\ Goto("resolve")
        /\ UNCHANGED <<public, existing, ready, effective, after, candidate, tries, lock, kind,
                       first, faults>>
     \/ /\ watch # NoWatch /\ watch # disk /\ rounds + 1 >= Attempts
        /\ StartFails /\ UNCHANGED faults
     \/ Fails /\ StartFails
  /\ UNCHANGED <<disk, impacts, closing, read, held, loopVars, gateVars>>

\* After recovery: an early return, or the plan is confirmed once more.
Prepare ==
  /\ pc = "prepare"
  /\ IF Open THEN Goto("register") ELSE Goto("stopped")
  /\ tries' = 1 /\ after' = "startup" /\ rounds' = 0
  /\ UNCHANGED <<disk, public, faults, lock, watch, impacts, kind, first, startVars, closing,
                 effective, candidate, read, held, loopVars, gateVars>>

\* #resumeExistingGeneration: the host has validated the live tree.
ExistingValidated ==
  /\ pc = "existing"
  /\ \/ /\ ~Open /\ Goto("stopped")
        /\ UNCHANGED <<public, startVars, planVars, lock, watch, impacts, kind, first, faults>>
     \/ /\ Open /\ watch = disk /\ ~startupInputChanged
        /\ accepted' = 0 /\ kind' = "ready" /\ ready' = TRUE /\ impacts' = <<"source">>
        /\ Goto("announce")
        /\ UNCHANGED <<tree, journal, built, existing, startupInputChanged, planVars, lock,
                       watch, first, faults>>
     \/ /\ Open /\ \/ (watch # disk \/ startupInputChanged) /\ UNCHANGED faults
                   \/ Fault
        /\ StartFails /\ UNCHANGED impacts
  /\ UNCHANGED <<disk, closing, read, held, loopVars, gateVars>>

\* Nobody reads these again.
LocalsGone == candidate' = -1 /\ tries' = 0 /\ rounds' = 0 /\ after' = "build"
StartupOver == existing' = FALSE /\ startupInputChanged' = FALSE /\ LocalsGone

\* #acceptExisting has emitted; the first build is requested in any case.
Announce ==
  /\ pc = "announce"
  /\ first' = IF Open /\ first = "pending" THEN "resolved" ELSE first
  /\ Loop!Ask(1) /\ Goto("idle") /\ StartupOver
  /\ UNCHANGED <<disk, public, faults, lock, watch, impacts, kind, ready, closing, effective,
                 read, held, gateVars>>

Begin ==
  /\ pc = "begin"
  /\ \/ /\ ~Open /\ Goto("stopped")
        /\ UNCHANGED <<ready, impacts, loopVars>>
     \/ /\ Open /\ Goto("idle")
        /\ ready' = TRUE /\ impacts' = <<"source">> /\ Loop!Ask(1)
  /\ StartupOver
  /\ UNCHANGED <<disk, public, faults, lock, watch, kind, first, closing, effective, read, held,
                 gateVars>>

-----------------------------------------------------------------------------
(* The end of a build.                                                     *)

\* The catch of #build.
BuildFails ==
  /\ Goto("finish")
  /\ kind' = IF Open /\ ~Superseded THEN FailedKind ELSE kind

\* The host's preparation or its validator says no: the failure is recorded
\* without a look at what is newer.
HostRejects ==
  /\ Goto("finish")
  /\ kind' = IF Open THEN FailedKind ELSE kind

\* The finally of #build, and the loop's job after it.  The cause is gone, and
\* none of its revisions goes to the gate again.
Finish ==
  /\ pc = "finish" /\ Loop!RunEnds /\ Goto("idle")
  /\ read' = NoWatch /\ LocalsGone
  /\ impacts' = [r \in 1..Len(impacts) |-> IF r \in cause THEN "info" ELSE impacts[r]]
  /\ gateAt' = [c \in Gate!Caller |-> IF c \in cause THEN "done" ELSE gateAt[c]]
  /\ UNCHANGED <<disk, public, faults, lock, watch, kind, first, startVars, closing, effective,
                 held, readers, writer, gateClosed, readWaiters, writeWaiters, aborted,
                 gateTimer>>

-----------------------------------------------------------------------------
(* #replanGapSafe, for start and for a build.                              *)

PlanFails ==
  IF after = "build"
  THEN BuildFails /\ UNCHANGED <<public, startVars, planVars, lock, watch, first>>
  ELSE StartFails

\* #replaceWatch: the new watch compares from now on.  It may report an error
\* before it is installed.
Register ==
  /\ pc = "register"
  /\ \/ /\ ~Open \/ tries > Attempts
        /\ PlanFails /\ UNCHANGED faults
     \/ /\ Open /\ tries <= Attempts
        /\ watch' = disk /\ Goto("confirm")
        /\ UNCHANGED <<public, startVars, planVars, lock, kind, first, faults>>
     \/ /\ Open /\ tries <= Attempts /\ Fault
        /\ Goto("registering") /\ kind' = FailedKind
        /\ UNCHANGED <<public, startVars, planVars, lock, watch, first>>
     \/ Open /\ Fault /\ PlanFails
  /\ UNCHANGED <<disk, impacts, closing, read, held, loopVars, gateVars>>

Registering ==
  /\ pc = "registering"
  /\ watch' = disk /\ Goto("confirm")
  /\ UNCHANGED <<disk, public, faults, lock, impacts, kind, first, startVars, closing, planVars,
                 read, held, loopVars, gateVars>>

Replanned ==
  CASE after = "recover" -> "admit"
    [] after = "startup" -> IF existing THEN "existing" ELSE "begin"
    [] after = "build" -> IF Open THEN "execution" ELSE "finish"

\* The plan is resolved again: it is the one the watch was registered around,
\* or the next candidate.  What follows its last read runs in a later job.
Changed == disk.plan # candidate

Confirm ==
  /\ pc = "confirm"
  /\ \/ /\ ~Changed
        /\ Goto(Replanned)
        /\ effective' = IF after = "recover" THEN effective ELSE candidate
        /\ UNCHANGED <<public, startVars, after, candidate, tries, rounds, lock, watch, kind,
                       first, faults>>
     \/ /\ Changed
        /\ candidate' = disk.plan /\ tries' = tries + 1 /\ Goto("register")
        /\ UNCHANGED <<public, startVars, effective, after, rounds, lock, watch, kind, first,
                       faults>>
     \/ Fails /\ PlanFails
  /\ UNCHANGED <<disk, impacts, closing, read, held, loopVars, gateVars>>

-----------------------------------------------------------------------------
(* #build: the steps before the gate.                                      *)

\* What no step of #build before the gate changes.
BuildKeeps == UNCHANGED <<disk, public, lock, first, startVars, closing, held>>

RunBegins ==
  /\ Loop!RunBegins
  /\ IF ~Open \/ \A r \in cause : impacts[r] = "info"
     THEN Goto("finish") /\ UNCHANGED kind
     ELSE /\ Goto(IF \E r \in cause : impacts[r] = "plan" THEN "replan" ELSE "execution")
          /\ kind' = "building"
  /\ BuildKeeps /\ UNCHANGED <<faults, watch, impacts, planVars, read, gateVars>>

Replan ==
  /\ pc = "replan"
  /\ \/ /\ candidate' = disk.plan /\ tries' = 1 /\ after' = "build"
        /\ Goto("register") /\ UNCHANGED <<kind, faults>>
     \/ Fails /\ BuildFails /\ UNCHANGED <<candidate, tries, after>>
  /\ BuildKeeps /\ UNCHANGED <<watch, impacts, effective, rounds, read, loopVars, gateVars>>

\* The plan just before execution, and once more before the compiler starts,
\* is the retained one; another one asks for a new inventory.
Verify(here, next) ==
  /\ pc = here
  /\ \/ /\ ~Open /\ Goto("finish")
        /\ UNCHANGED <<impacts, kind, faults, loopVars>>
     \/ /\ Open /\ disk.plan = effective /\ Goto(next)
        /\ UNCHANGED <<impacts, kind, faults, loopVars>>
     \/ /\ Open /\ disk.plan # effective
        /\ Observe("plan") /\ Goto("finish")
        /\ UNCHANGED <<kind, faults>>
     \/ Open /\ Fault /\ BuildFails /\ UNCHANGED <<impacts, loopVars>>
  /\ BuildKeeps /\ UNCHANGED <<watch, planVars, read, gateVars>>

VerifyPlan == Verify("execution", "assert")
AssertCurrent == Verify("assert", "compile")

Compile ==
  /\ pc = "compile"
  /\ \/ /\ Open /\ read' = [plan |-> effective, source |-> disk.source]
        /\ Goto("validate") /\ UNCHANGED <<kind, faults>>
     \/ Fails /\ BuildFails /\ UNCHANGED read
     \/ Open /\ Fault /\ HostRejects /\ UNCHANGED read     \* prepareRevision
  /\ BuildKeeps /\ UNCHANGED <<watch, impacts, planVars, loopVars, gateVars>>

\* #requireReconciliation: a difference becomes a revision that supersedes
\* this build.
AbortsOnly == watch' = disk /\ UNCHANGED <<impacts, loopVars>>   \* mutant
Reconcile ==
  /\ watch' = disk
  /\ IF watch # disk THEN Observe(Impact) ELSE UNCHANGED <<impacts, loopVars>>
ComparesOnly == watch = disk   \* mutant: what the watch reported is not asked for
NothingNewer == watch = disk /\ ~Superseded

EntersAtOnce == "write"   \* mutant: the gate is not awaited
GatePlace == CASE gateAt'[Revised] = "inside" -> "write"
               [] gateAt'[Revised] = "waiting" -> "waiting"
               [] gateAt'[Revised] = "rejected" -> "finish"

Validated ==
  /\ pc = "validate"
  /\ \/ /\ ~Open /\ Goto("finish")
        /\ UNCHANGED <<watch, impacts, kind, faults, loopVars, gateVars>>
     \/ /\ Open /\ NothingNewer
        /\ Gate!RunWrite(Revised) /\ Goto(GatePlace)
        /\ UNCHANGED <<watch, impacts, kind, faults, loopVars>>
     \/ /\ Open /\ ~NothingNewer /\ Reconcile
        /\ Goto("finish")
        /\ UNCHANGED <<kind, faults, gateVars>>
     \/ /\ Open /\ Fault /\ (BuildFails \/ HostRejects)
        /\ UNCHANGED <<watch, impacts, loopVars, gateVars>>
  /\ BuildKeeps /\ UNCHANGED <<planVars, read>>

-----------------------------------------------------------------------------
(* #build: inside the gate.                                                *)

\* The waiting writer is let in, or close has rejected it.
WriterAnswered ==
  /\ pc = "waiting"
  /\ Gate!ResumeWrite(Revised) \/ (gateAt[Revised] = "rejected" /\ UNCHANGED gateVars)
  /\ Goto(GatePlace)
  /\ BuildKeeps /\ UNCHANGED <<faults, watch, impacts, kind, planVars, read, loopVars>>

LeaveGate == Gate!EndWrite(Revised)

\* The comparison inside the gate, and the check that the public tree is the
\* accepted one and no publication is undecided.
Write ==
  /\ pc = "write"
  /\ \/ /\ ~Open /\ LeaveGate /\ Goto("finish")
        /\ UNCHANGED <<tree, journal, watch, impacts, kind, faults, loopVars>>
     \/ /\ Open /\ NothingNewer /\ ~journal
        /\ tree' = Mixed /\ journal' = TRUE /\ Goto("publishing")
        /\ UNCHANGED <<watch, impacts, kind, faults, loopVars, gateVars>>
     \/ /\ Open /\ ~NothingNewer /\ Reconcile /\ LeaveGate /\ Goto("finish")
        /\ UNCHANGED <<tree, journal, kind, faults>>
     \/ /\ Open /\ NothingNewer /\ (IF journal THEN UNCHANGED faults ELSE Fault)
        /\ LeaveGate /\ BuildFails
        /\ UNCHANGED <<tree, journal, watch, impacts, loopVars>>
  /\ UNCHANGED <<disk, accepted, built, lock, first, startVars, closing, planVars, read, held>>

\* publishArtifacts returns, throws with the prior tree restored, or throws
\* with its rollback refused (ArtifactTransaction, AnswerMatchesTree).
NextGeneration == IF accepted = NoGeneration THEN 1 ELSE accepted + 1

Committed ==
  /\ pc = "publishing"
  /\ tree' = NextGeneration /\ journal' = FALSE
  /\ accepted' = NextGeneration /\ built' = read /\ kind' = "ready"
  /\ Goto("published")
  /\ UNCHANGED <<disk, faults, lock, watch, impacts, first, startVars, closing, planVars, read,
                 held, loopVars, gateVars>>

RolledBack ==
  /\ pc = "publishing" /\ Fault
  /\ \/ tree' = (IF accepted = NoGeneration THEN 0 ELSE accepted) /\ journal' = FALSE
     \/ UNCHANGED <<tree, journal>>
  /\ LeaveGate /\ BuildFails
  /\ UNCHANGED <<disk, accepted, built, lock, watch, impacts, first, startVars, closing, planVars,
                 read, held, loopVars>>

\* The state and generation-accepted were emitted.
Published ==
  /\ pc = "published"
  /\ first' = IF Open /\ first = "pending" THEN "resolved" ELSE first
  /\ LeaveGate /\ Goto("finish")
  /\ UNCHANGED <<disk, public, faults, lock, watch, impacts, kind, startVars, closing, planVars,
                 read, held, loopVars>>

-----------------------------------------------------------------------------
(* Timers, other processes and the host.                                   *)

Unmoved == UNCHANGED <<public, lock, first, existing, ready, planVars, read, held>>

Fire ==
  /\ pc \notin Emitting /\ ~Jobs
  /\ Loop!Fire
  /\ Gate!TimerFires \/ (~gateTimer /\ UNCHANGED gateVars)
  /\ Unmoved
  /\ UNCHANGED <<disk, faults, watch, impacts, kind, startupInputChanged, closing, pc>>

Edit ==
  /\ Open /\ Events < MaxEvents
  /\ \E i \in {"plan", "source"} : disk' = [disk EXCEPT ![i] = @ + 1]
  /\ Unmoved
  /\ UNCHANGED <<faults, watch, impacts, kind, startupInputChanged, closing, pc, loopVars, gateVars>>

\* The watch compares: a change before the session is ready is only noted.
Poll ==
  /\ pc \notin Emitting /\ Open /\ watch # NoWatch /\ watch # disk
  /\ watch' = disk
  /\ IF ready
     THEN Observe(Impact) /\ UNCHANGED startupInputChanged
     ELSE startupInputChanged' = TRUE /\ UNCHANGED <<impacts, loopVars>>
  /\ Unmoved
  /\ UNCHANGED <<disk, faults, kind, closing, pc, gateVars>>

WatchError ==
  /\ pc \notin Emitting /\ Open /\ watch # NoWatch /\ Fault
  /\ kind' = FailedKind
  /\ Unmoved
  /\ UNCHANGED <<disk, watch, impacts, startupInputChanged, closing, pc, loopVars, gateVars>>

Invalidate ==
  /\ Open /\ ready /\ Len(impacts) + Events < MaxInvalid
  /\ \E impact \in {"plan", "source", "info"} : Observe(impact)
  /\ Unmoved
  /\ UNCHANGED <<disk, faults, watch, kind, startupInputChanged, closing, pc, gateVars>>

-----------------------------------------------------------------------------
(* acquirePublishedRead.                                                   *)

ReaderKeeps ==
  UNCHANGED <<disk, public, faults, lock, watch, impacts, kind, first, startVars, closing, pc,
              planVars, read, loopVars>>

AcquireRead(r) ==
  /\ accepted # NoGeneration /\ Open /\ Gate!AcquireRead(r)
  /\ UNCHANGED held /\ ReaderKeeps

ResumeRead(r) ==
  /\ pc \notin Emitting /\ Gate!ResumeRead(r)
  /\ UNCHANGED held /\ ReaderKeeps

\* The job after the gate let the reader in.
TakeLease(r) ==
  /\ pc \notin Emitting /\ gateAt[r] = "inside" /\ held[r] = NoGeneration
  /\ IF Open
     THEN held' = [held EXCEPT ![r] = accepted] /\ UNCHANGED gateVars
     ELSE Gate!ReleaseRead(r) /\ UNCHANGED held
  /\ ReaderKeeps

Release(r) ==
  /\ held[r] # NoGeneration /\ Gate!ReleaseRead(r)
  /\ held' = [held EXCEPT ![r] = NoGeneration]
  /\ ReaderKeeps

-----------------------------------------------------------------------------
(* close.                                                                  *)

CloseKeeps == UNCHANGED <<disk, public, faults, impacts, startVars, pc, planVars, read, held>>

\* The part of close() that runs in the caller's job.
Close ==
  /\ Open /\ closing' = "start"
  /\ kind' = "closing" /\ watch' = NoWatch
  /\ Gate!Close
  /\ CloseKeeps /\ UNCHANGED <<lock, first, loopVars>>

\* start() has returned: the watch it may have installed meanwhile goes too.
LeavesWatch == UNCHANGED watch   \* mutant
ClosesWatch == watch' = NoWatch

FirstAnswered == first # "pending"   \* mutant: close awaits the first generation
StartReturned == pc \notin Starting \/ ready

AfterLoop == IF clients'[Closer] = "closed" THEN "compiler" ELSE "loop"

CloseLoop ==
  /\ closing = "start" /\ pc \notin Emitting /\ StartReturned
  /\ ClosesWatch
  /\ Loop!Close(Closer)
  /\ closing' = AfterLoop
  /\ CloseKeeps /\ UNCHANGED <<lock, kind, first, gateVars>>

LoopClosed ==
  /\ closing = "loop" /\ Loop!CloseReturns(Closer) /\ closing' = "compiler"
  /\ CloseKeeps /\ UNCHANGED <<lock, watch, kind, first, gateVars>>

\* The compiler's server is stopped or the failure reported; the rest follows.
CloseEnds ==
  /\ closing = "compiler" /\ closing' = "closed"
  /\ lock' = FALSE /\ kind' = "closed"
  /\ first' = IF first = "pending" THEN "rejected" ELSE first
  /\ CloseKeeps /\ UNCHANGED <<watch, loopVars, gateVars>>

-----------------------------------------------------------------------------
Work ==
  \/ StartResolves \/ RecoveryAdmitted \/ Prepare \/ ExistingValidated \/ Announce \/ Begin
  \/ Register \/ Registering \/ Confirm \/ RunBegins \/ Replan \/ VerifyPlan \/ AssertCurrent
  \/ Compile \/ Validated \/ WriterAnswered \/ Write \/ Committed \/ RolledBack \/ Published \/ Finish
  \/ CloseLoop \/ LoopClosed \/ CloseEnds

Jobbed == Work \/ \E r \in Reader : ResumeRead(r) \/ TakeLease(r)

Next ==
  \/ Jobbed \/ Start \/ Fire \/ Edit \/ Poll \/ WatchError \/ Invalidate \/ Close
  \/ \E r \in Reader : AcquireRead(r) \/ Release(r)

Spec == Init /\ [][Next]_vars

\* Jobs run and awaited operations end, timers fire, the watch polls, readers
\* release.
FairSpec ==
  /\ Spec /\ WF_vars(Jobbed) /\ WF_vars(Fire) /\ WF_vars(Poll)
  /\ \A r \in Reader : WF_vars(Release(r))

-----------------------------------------------------------------------------
(* Properties.                                                             *)

Kinds == {"opening", "building", "blocked", "ready", "degraded", "closing", "closed"}

Inputs == [plan : -1..MaxEvents, source : -1..MaxEvents]

TypeOK ==
  /\ disk \in [plan : 0..MaxEvents, source : 0..MaxEvents] /\ Events <= MaxEvents
  /\ watch \in Inputs /\ built \in Inputs /\ read \in Inputs
  /\ tree \in Nat \cup {Mixed} /\ accepted \in Nat \cup {NoGeneration}
  /\ held \in [Reader -> Nat \cup {NoGeneration}]
  /\ impacts \in Seq({"plan", "source", "info"}) /\ Len(impacts) <= MaxRevision
  /\ kind \in Kinds /\ first \in {"pending", "resolved", "rejected"}
  /\ closing \in {"no", "start", "loop", "compiler", "closed"} /\ faults \in Nat
  /\ journal \in BOOLEAN /\ lock \in BOOLEAN /\ existing \in BOOLEAN /\ ready \in BOOLEAN
  /\ startupInputChanged \in BOOLEAN
  /\ effective \in -1..MaxEvents /\ candidate \in -1..MaxEvents
  /\ after \in {"recover", "startup", "build"}
  /\ tries \in 0..Attempts + 1 /\ rounds \in 0..Attempts

\* A reader that was given a generation reads exactly that tree for as long as
\* it holds its lease, whatever is built, published, superseded or closed
\* meanwhile; except after a rollback that was refused.
Refused == journal /\ pc # "publishing"
ReaderSeesItsGeneration ==
  \A r \in Reader : held[r] # NoGeneration => tree = held[r] \/ Refused

\* A publication starts to move files only for a candidate that was compiled
\* from the inputs as the comparison inside the gate finds them, whatever
\* changed, was reported and was requested while it was compiled, validated and
\* waited for the readers.
NothingStaleIsPublished ==
  [][ tree' # tree /\ tree' = Mixed => read = disk ]_vars

\* A session that has nothing left to do is not "building", and if it says
\* "ready" its tree was built from the inputs as last compared: no change was
\* forgotten on the way from the watch through the plan to the loop.
SettledIsCurrent ==
  ready /\ Open /\ pc = "idle" /\ loopState = "idle" =>
    /\ kind \in {"ready", "blocked", "degraded"}
    /\ kind = "ready" => built = watch

\* A closed session has no lock, no watch, no run and no publication, and
\* whoever waited for the first generation is answered.
ClosedHoldsNothing ==
  closing = "closed" => /\ ~lock /\ watch = NoWatch /\ active = "none" /\ ~writer
                        /\ first # "pending"

\* close() returns, wherever the session is.
CloseReturns == ~Open ~> closing = "closed"

\* Whatever changes, the tree becomes that of the current inputs, or the host
\* is told of a failure.
ChangesArePublished ==
  ready ~> built = disk \/ kind \in {"blocked", "degraded"} \/ ~Open

\* development-session/v1/README.md: "If a generated path became authored
\* source while the process was stopped--or while startup was checking it--
\* startup refuses before recovery restores, removes, or replaces that file":
\* recovery acts under the plan that belongs to the inputs it last compared.
RecoveryUsesCurrentPlan ==
  [][ pc = "admit" /\ tree' # tree => candidate = watch.plan ]_vars

\* development-session/v1/README.md: "degraded: a newer revision failed, but
\* the recorded accepted generation remains public and usable".
DegradedIsUsable == kind = "degraded" => tree = accepted \/ pc = "publishing"
=============================================================================
