------------------------ MODULE SessionRuntimeProofs ------------------------
(***************************************************************************)
(* The safety of a whole session, for any number of readers, edits,        *)
(* failures, revisions and attempts: readers keep their generation, what   *)
(* is published is current, a session at rest says the truth about its     *)
(* tree, and a closed one holds nothing.                                   *)
(*                                                                         *)
(* The gate's own invariants are those of PublicationGateProofs, whose     *)
(* lemmas apply because every step of the session but one is a step of the *)
(* gate or leaves it alone.                                                *)
(***************************************************************************)
EXTENDS SessionRuntime, TLAPS

GateProofs == INSTANCE PublicationGateProofs WITH
  Writer <- Revision, serial <- TRUE,
  closed <- gateClosed, at <- gateAt, timer <- gateTimer

-----------------------------------------------------------------------------
(* Where the session is.                                                   *)

Planning == {"register", "registering", "confirm"}
Preparing == {"resolve", "admit", "prepare", "begin", "existing"}
AtGate == {"waiting", "write", "publishing", "published"}
Building == AtGate \cup {"replan", "execution", "assert", "compile", "validate", "finish"}
Places == Planning \cup Preparing \cup Building \cup {"new", "stopped", "idle", "announce"}

\* A run of the loop executes.
Running == pc \in Building \/ (pc \in Planning /\ after = "build")

\* start has come to its end, or to the event that announces the old tree.
PhaseInv ==
  /\ pc \in Places
  /\ ready <=> pc \in {"announce", "idle"} \/ Running
  /\ ~ready => impacts = <<>> /\ accepted = NoGeneration /\ kind # "ready"
  /\ Open => kind \notin {"closing", "closed"}
  /\ gateClosed = ~Open
  /\ pc \in {"registering", "confirm"} => tries <= Attempts

\* The loop: its state, and which revisions wait for it.
StateShape ==
  /\ loopState \in {"idle", "debouncing", "running", "closed"}
  /\ timer \in {0, -1} /\ quiet = 0 /\ active \in {"none", "queued", "executing"} /\ hasPending \in BOOLEAN
  /\ loopState = "idle" => ~hasPending /\ timer = -1 /\ active = "none"
  /\ loopState = "debouncing" => hasPending /\ timer = 0 /\ active = "none"
  /\ loopState = "running" => timer = -1 /\ active # "none"
  /\ loopState = "closed" => ~hasPending /\ timer = -1
  /\ active = "executing" <=> Running
  /\ active = "queued" => pc = "idle"
  /\ ~ready => loopState \in {"idle", "closed"}
  /\ clients \in [{Closer} -> {"out", "waiting", "idle", "closing", "closed"}]

CauseShape ==
  /\ pending \subseteq Revision /\ cause \subseteq Revision
  /\ hasPending => /\ Len(impacts) \in pending
                   /\ \A r \in pending : r <= Len(impacts) /\ r \notin cause
  /\ active = "none" => cause = {}
  /\ active # "none" => Revised \in cause /\ \A r \in cause : r <= Revised /\ r <= Len(impacts)
  /\ active # "none" /\ loopState # "closed" =>
       \A r \in 1..Len(impacts) : r > Revised => hasPending /\ r \in pending
  /\ pc = "announce" =>
       /\ active = "none" /\ loopState # "closed" /\ Len(impacts) # 0
       /\ impacts[1] = "source"
       /\ hasPending \/ Len(impacts) = 1

LoopInv == StateShape /\ CauseShape

\* How far close is.
CloseInv ==
  /\ closing \in {"no", "start"} <=> loopState # "closed"
  /\ loopState = "closed" => watch = NoWatch /\ pc # "registering"
  /\ closing \in {"compiler", "closed"} => active = "none"
  /\ closing = "closed" => ~lock /\ first # "pending"

\* The gate: only the run that is at it is there.
GateInv ==
  /\ GateProofs!GateInv /\ GateProofs!SessionInv
  /\ \A w \in Revision : gateAt[w] \in {"waiting", "resumed", "inside"} =>
                           pc \in AtGate /\ w = Revised
  /\ pc \in {"write", "publishing", "published"} => gateAt[Revised] = "inside"
  /\ pc = "waiting" => \/ gateAt[Revised] \in {"waiting", "resumed"}
                       \/ gateAt[Revised] = "rejected" /\ ~Open
  /\ writer => \E w \in Revision : gateAt[w] \in {"inside", "resumed"}

\* The public tree and its readers.
TreeInv ==
  /\ ~journal => tree = IF accepted = NoGeneration THEN 0 ELSE accepted
  /\ pc \in {"prepare", "existing", "begin"} => ~journal
  /\ pc \in Planning /\ after = "startup" => ~journal
  /\ pc = "publishing" => journal
  /\ accepted = NoGeneration => \A r \in Reader : gateAt[r] = "out"
  /\ \A r \in Reader : held[r] # NoGeneration => gateAt[r] = "inside"
  /\ ReaderSeesItsGeneration

\* The inputs: the plan in use, the plan the watch compares and the disk.
VersionInv ==
  /\ candidate <= disk.plan
  /\ Open => /\ effective <= watch.plan /\ watch.plan <= disk.plan /\ watch.source <= disk.source
             /\ pc = "confirm" => candidate <= watch.plan

\* What is compiled is what the watch compares, or a newer revision waits.
PlanIsCurrent == Superseded \/ watch.plan = effective
SourceIsCurrent == Superseded \/ watch.source <= read.source

FreshInv ==
  /\ Open /\ pc \in {"assert", "compile", "validate", "waiting", "write"} => PlanIsCurrent
  /\ Open /\ pc \in {"validate", "waiting", "write"} =>
       read.plan = effective /\ read.source <= disk.source /\ SourceIsCurrent

\* A revision that wants a build has not begun to run.
Outstanding ==
  \/ hasPending /\ \E r \in pending : impacts[r] # "info"
  \/ active = "queued" /\ \E r \in cause : impacts[r] # "info"

RestInv ==
  /\ Open /\ pc = "publishing" => read = watch \/ Outstanding
  /\ Open /\ Running /\ pc \notin {"published", "finish"} => kind # "ready"
  /\ Open /\ kind = "ready" => built = watch \/ Outstanding \/ pc = "announce"
  /\ Open /\ pc = "published" => kind = "ready"
  /\ Open /\ pc \in {"idle", "finish"} => kind \in {"ready", "blocked", "degraded"} \/ Outstanding

SessionInv ==
  /\ TypeOK /\ PhaseInv /\ LoopInv /\ CloseInv /\ GateInv /\ TreeInv
  /\ VersionInv /\ FreshInv /\ RestInv

-----------------------------------------------------------------------------
(* Types.                                                                  *)

LEMMA TypeStarts == Init => TypeOK
<1> SUFFICES ASSUME Init PROVE TypeOK
  OBVIOUS
<1>1. -1 \in -1..MaxEvents /\ 0 \in 0..MaxEvents
  BY BoundsAssumption
<1>2. 0 \in 0..Attempts + 1 /\ 0 \in 0..Attempts /\ 0 <= MaxRevision
  BY BoundsAssumption
<1>3. <<>> \in Seq({"plan", "source", "info"}) /\ Len(<<>>) = 0
  OBVIOUS
<1>4. /\ disk \in [plan : 0..MaxEvents, source : 0..MaxEvents] /\ Events <= MaxEvents
      /\ watch \in Inputs /\ built \in Inputs /\ read \in Inputs
  BY <1>1, BoundsAssumption DEF Init, Inputs, NoWatch, Events
<1>5. /\ tree \in Nat \cup {Mixed} /\ accepted \in Nat \cup {NoGeneration}
      /\ held \in [Reader -> Nat \cup {NoGeneration}]
  BY DEF Init, NoGeneration, Mixed
<1>6. /\ impacts \in Seq({"plan", "source", "info"}) /\ Len(impacts) <= MaxRevision
      /\ journal \in BOOLEAN /\ existing \in BOOLEAN
  BY <1>2, <1>3 DEF Init
<1>7. tries \in 0..Attempts + 1 /\ rounds \in 0..Attempts /\ faults \in Nat
  BY <1>2 DEF Init
<1> QED BY <1>1, <1>4, <1>5, <1>6, <1>7 DEF Init, TypeOK, Kinds

\* The steps, by the part of the code they belong to.
StartSteps ==
  Start \/ StartResolves \/ RecoveryAdmitted \/ Prepare \/ ExistingValidated \/ Announce \/ Begin
PlanSteps == Register \/ Registering \/ Confirm
RunSteps ==
  RunBegins \/ Replan \/ VerifyPlan \/ AssertCurrent \/ Compile \/ Validated \/ WriterAnswered
GateSteps == Write \/ Committed \/ RolledBack \/ Published \/ Finish
HostSteps == Fire \/ Edit \/ Poll \/ WatchError \/ Invalidate \/ Close
ReadSteps == \E r \in Reader : AcquireRead(r) \/ ResumeRead(r) \/ TakeLease(r) \/ Release(r)
CloseSteps == CloseLoop \/ LoopClosed \/ CloseEnds

LEMMA AllSteps ==
  Next => StartSteps \/ PlanSteps \/ RunSteps \/ GateSteps \/ HostSteps \/ ReadSteps \/ CloseSteps
BY DEF Next, Jobbed, Work, StartSteps, PlanSteps, RunSteps, GateSteps, HostSteps, ReadSteps,
   CloseSteps

InputTypes ==
  /\ disk \in [plan : 0..MaxEvents, source : 0..MaxEvents] /\ Events <= MaxEvents
  /\ watch \in Inputs /\ built \in Inputs /\ read \in Inputs /\ faults \in Nat
PublicTypes ==
  /\ tree \in Nat \cup {Mixed} /\ accepted \in Nat \cup {NoGeneration}
  /\ held \in [Reader -> Nat \cup {NoGeneration}]
StateTypes ==
  /\ impacts \in Seq({"plan", "source", "info"}) /\ Len(impacts) <= MaxRevision
  /\ kind \in Kinds /\ first \in {"pending", "resolved", "rejected"}
  /\ closing \in {"no", "start", "loop", "compiler", "closed"}
FlagTypes ==
  /\ journal \in BOOLEAN /\ lock \in BOOLEAN /\ existing \in BOOLEAN /\ ready \in BOOLEAN
  /\ startupInputChanged \in BOOLEAN
PlanTypes ==
  /\ effective \in -1..MaxEvents /\ candidate \in -1..MaxEvents
  /\ after \in {"recover", "startup", "build"}
  /\ tries \in 0..Attempts + 1 /\ rounds \in 0..Attempts

LEMMA TypeParts ==
  TypeOK <=> InputTypes /\ PublicTypes /\ StateTypes /\ FlagTypes /\ PlanTypes
BY DEF TypeOK, InputTypes, PublicTypes, StateTypes, FlagTypes, PlanTypes

LEMMA InputTypeStep == TypeOK /\ Next => InputTypes'
<1> SUFFICES ASSUME TypeOK, Next PROVE InputTypes'
  OBVIOUS
<1>0. InputTypes /\ NoWatch \in Inputs
  BY BoundsAssumption, TypeParts DEF Inputs, NoWatch
\* A step that edits no input.
<1>a. ASSUME UNCHANGED disk, watch' \in {watch, disk, NoWatch}, built' \in Inputs, read' \in Inputs,
             UNCHANGED faults \/ Fault
      PROVE  InputTypes'
  <2>1. disk' \in [plan : 0..MaxEvents, source : 0..MaxEvents] /\ watch' \in Inputs
    BY <1>0, <1>a, BoundsAssumption DEF InputTypes, Inputs
  <2>2. disk.plan \in Nat /\ disk.source \in Nat /\ faults \in Nat /\ Events <= MaxEvents
    BY <1>0, BoundsAssumption DEF InputTypes
  <2>3. disk'.plan = disk.plan /\ disk'.source = disk.source
    BY <1>a
  <2>4. faults' \in Nat /\ Events' <= MaxEvents
    BY <1>a, <2>2, <2>3, BoundsAssumption DEF Events, Fault
  <2> QED BY <1>a, <2>1, <2>4 DEF InputTypes
<1> USE BoundsAssumption, TypeParts DEF InputTypes, Inputs, NoGeneration, Mixed, Kinds, Events,
       NoWatch, public, startVars, planVars, Open
<1>1. CASE StartSteps
  BY <1>1 DEF StartSteps, Start, StartResolves, RecoveryAdmitted, Prepare, ExistingValidated,
     Announce, Begin, Fails, Fault, StartFails, StartupOver, LocalsGone
<1>2. CASE PlanSteps
  BY <1>2 DEF PlanSteps, Register, Registering, Confirm, Fails, Fault, StartFails, PlanFails,
     BuildFails, HostRejects, FailedKind
<1>3. CASE RunSteps
  <2>1. UNCHANGED disk /\ watch' \in {watch, disk}
    BY <1>3 DEF RunSteps, RunBegins, Replan, VerifyPlan, AssertCurrent, Compile, Validated,
       WriterAnswered, Verify, BuildKeeps, Reconcile
  <2>2. UNCHANGED built /\ (UNCHANGED faults \/ Fault)
    BY <1>3 DEF RunSteps, RunBegins, Replan, VerifyPlan, AssertCurrent, Compile, Validated,
       WriterAnswered, Verify, BuildKeeps, Fails
  <2>3. read' \in {read, [plan |-> effective, source |-> disk.source]}
    BY <1>3 DEF RunSteps, RunBegins, Replan, VerifyPlan, AssertCurrent, Compile, Validated,
       WriterAnswered, Verify, BuildKeeps
  <2>4. built \in Inputs /\ read \in Inputs /\ [plan |-> effective, source |-> disk.source] \in Inputs
    BY <1>0 DEF PlanTypes
  <2> HIDE BoundsAssumption, TypeParts DEF Inputs
  <2> QED BY <2>1, <2>2, <2>3, <2>4, <1>a
<1>4. CASE GateSteps
  <2>1. CASE Write
    BY <2>1 DEF Write, Fault, BuildFails, HostRejects, Reconcile
  <2>2. CASE Finish
    BY <2>2 DEF Finish
  <2>3. CASE Committed \/ RolledBack \/ Published
    BY <2>3 DEF Committed, RolledBack, Published, Fault, BuildFails, HostRejects
  <2> QED BY <1>4, <2>1, <2>2, <2>3 DEF GateSteps
<1>5. CASE HostSteps
  <2>1. CASE Edit
    <3>1. PICK i \in {"plan", "source"} : disk' = [disk EXCEPT ![i] = @ + 1]
      BY <2>1 DEF Edit
    <3>2. Events < MaxEvents /\ UNCHANGED <<watch, built, read, faults>>
      BY <2>1 DEF Edit, Unmoved
    <3>3. disk' = [disk EXCEPT !.plan = @ + 1] \/ disk' = [disk EXCEPT !.source = @ + 1]
      BY <3>1
    <3>4. disk.plan + 1 <= MaxEvents /\ disk.source + 1 <= MaxEvents
      BY <3>2
    <3>5. disk' \in [plan : 0..MaxEvents, source : 0..MaxEvents]
      BY <3>3, <3>4
    <3>6. disk'.plan + disk'.source = disk.plan + disk.source + 1
      BY <3>3
    <3> QED BY <3>2, <3>5, <3>6
  <2>2. CASE Fire
    BY <2>2 DEF Fire, Unmoved
  <2>3. CASE Poll
    <3>1. watch' = disk /\ UNCHANGED <<disk, built, read, faults>>
      BY <2>3 DEF Poll, Unmoved
    <3> QED BY <3>1
  <2>4. CASE WatchError
    BY <2>4 DEF WatchError, Fault, Unmoved
  <2>5. CASE Invalidate
    BY <2>5 DEF Invalidate, Unmoved
  <2>6. CASE Close
    <3>1. watch' = NoWatch /\ UNCHANGED <<disk, built, read, faults>>
      BY <2>6 DEF Close, CloseKeeps
    <3> QED BY <3>1
  <2> QED BY <1>5, <2>1, <2>2, <2>3, <2>4, <2>5, <2>6 DEF HostSteps
<1>6. CASE ReadSteps
  BY <1>6 DEF ReadSteps, AcquireRead, ResumeRead, TakeLease, Release, ReaderKeeps
<1>7. CASE CloseSteps
  BY <1>7 DEF CloseSteps, CloseLoop, LoopClosed, CloseEnds, ClosesWatch, AfterLoop, CloseKeeps
<1> QED BY <1>1, <1>2, <1>3, <1>4, <1>5, <1>6, <1>7, AllSteps

LEMMA PublicTypeStep == TypeOK /\ Next => PublicTypes'
<1> SUFFICES ASSUME TypeOK, Next PROVE PublicTypes'
  OBVIOUS
<1> USE BoundsAssumption, TypeParts DEF PublicTypes, Inputs, NoGeneration, Mixed, Kinds, Events,
       NoWatch, public, startVars, planVars, Open
<1>1. CASE StartSteps
  BY <1>1 DEF StartSteps, Start, StartResolves, RecoveryAdmitted, Prepare, ExistingValidated,
     Announce, Begin, Fails, Fault, StartFails, StartupOver, LocalsGone
<1>2. CASE PlanSteps
  BY <1>2 DEF PlanSteps, Register, Registering, Confirm, Fails, Fault, StartFails, PlanFails,
     BuildFails, HostRejects, FailedKind
<1>3. CASE RunSteps
  BY <1>3 DEF RunSteps, RunBegins, Replan, VerifyPlan, AssertCurrent, Compile, Validated,
     WriterAnswered, Verify, Fails, Fault,
     BuildFails, HostRejects, FailedKind, BuildKeeps, Observe, Reconcile,
     Impact
<1>4. CASE GateSteps
  BY <1>4 DEF GateSteps, Write, Committed, RolledBack, Published, Finish, NextGeneration, Fault,
     BuildFails, HostRejects, FailedKind, LocalsGone, Observe, Reconcile, Impact
<1>5. CASE HostSteps
  BY <1>5 DEF HostSteps, Fire, Edit, Poll, WatchError, Invalidate, Close, Fault, FailedKind,
     Unmoved, CloseKeeps, Observe, Impact
<1>6. CASE ReadSteps
  BY <1>6 DEF ReadSteps, AcquireRead, ResumeRead, TakeLease, Release, ReaderKeeps
<1>7. CASE CloseSteps
  BY <1>7 DEF CloseSteps, CloseLoop, LoopClosed, CloseEnds, ClosesWatch, AfterLoop, CloseKeeps
<1> QED BY <1>1, <1>2, <1>3, <1>4, <1>5, <1>6, <1>7, AllSteps

LEMMA StateTypeStep == TypeOK /\ Next => StateTypes'
<1> SUFFICES ASSUME TypeOK, Next PROVE StateTypes'
  OBVIOUS
<1>0. <<"source">> \in Seq({"plan", "source", "info"}) /\ Len(<<"source">>) = 1
  OBVIOUS
<1> USE BoundsAssumption, TypeParts DEF StateTypes, Inputs, NoGeneration, Mixed, Kinds, Events,
       NoWatch, public, startVars, planVars, Open
<1>1. CASE StartSteps
  <2>1. impacts' \in {impacts, <<"source">>}
    BY <1>1 DEF StartSteps, Start, StartResolves, RecoveryAdmitted, Prepare, ExistingValidated,
       Announce, Begin, StartFails
  <2>2. (kind \in Kinds /\ first \in {"pending", "resolved", "rejected"})'
    BY <1>1 DEF StartSteps, Start, StartResolves, RecoveryAdmitted, Prepare, ExistingValidated,
       Announce, Begin, StartFails
  <2>3. (closing \in {"no", "start", "loop", "compiler", "closed"})'
    BY <1>1 DEF StartSteps, Start, StartResolves, RecoveryAdmitted, Prepare, ExistingValidated,
       Announce, Begin
  <2> QED BY <1>0, <2>1, <2>2, <2>3
<1>2. CASE PlanSteps
  BY <1>2 DEF PlanSteps, Register, Registering, Confirm, Fails, Fault, StartFails, PlanFails,
     BuildFails, HostRejects, FailedKind
<1>3. CASE RunSteps
  BY <1>3 DEF RunSteps, RunBegins, Replan, VerifyPlan, AssertCurrent, Compile, Validated,
     WriterAnswered, Verify, Fails, Fault,
     BuildFails, HostRejects, FailedKind, BuildKeeps, Observe, Reconcile,
     Impact
<1>4. CASE GateSteps
  BY <1>4 DEF GateSteps, Write, Committed, RolledBack, Published, Finish, NextGeneration, Fault,
     BuildFails, HostRejects, FailedKind, LocalsGone, Observe, Reconcile, Impact
<1>5. CASE HostSteps
  BY <1>5 DEF HostSteps, Fire, Edit, Poll, WatchError, Invalidate, Close, Fault, FailedKind,
     Unmoved, CloseKeeps, Observe, Impact
<1>6. CASE ReadSteps
  BY <1>6 DEF ReadSteps, AcquireRead, ResumeRead, TakeLease, Release, ReaderKeeps
<1>7. CASE CloseSteps
  BY <1>7 DEF CloseSteps, CloseLoop, LoopClosed, CloseEnds, ClosesWatch, AfterLoop, CloseKeeps
<1> QED BY <1>1, <1>2, <1>3, <1>4, <1>5, <1>6, <1>7, AllSteps

LEMMA FlagTypeStep == TypeOK /\ Next => FlagTypes'
<1> SUFFICES ASSUME TypeOK, Next PROVE FlagTypes'
  OBVIOUS
<1> USE BoundsAssumption, TypeParts DEF FlagTypes, Inputs, NoGeneration, Mixed, Kinds, Events,
       NoWatch, public, startVars, planVars, Open
<1>1. CASE StartSteps
  BY <1>1 DEF StartSteps, Start, StartResolves, RecoveryAdmitted, Prepare, ExistingValidated,
     Announce, Begin, Fails, Fault, StartFails, StartupOver, LocalsGone
<1>2. CASE PlanSteps
  BY <1>2 DEF PlanSteps, Register, Registering, Confirm, Fails, Fault, StartFails, PlanFails,
     BuildFails, HostRejects, FailedKind
<1>3. CASE RunSteps
  BY <1>3 DEF RunSteps, RunBegins, Replan, VerifyPlan, AssertCurrent, Compile, Validated,
     WriterAnswered, Verify, Fails, Fault,
     BuildFails, HostRejects, FailedKind, BuildKeeps, Observe, Reconcile,
     Impact
<1>4. CASE GateSteps
  BY <1>4 DEF GateSteps, Write, Committed, RolledBack, Published, Finish, NextGeneration, Fault,
     BuildFails, HostRejects, FailedKind, LocalsGone, Observe, Reconcile, Impact
<1>5. CASE HostSteps
  BY <1>5 DEF HostSteps, Fire, Edit, Poll, WatchError, Invalidate, Close, Fault, FailedKind,
     Unmoved, CloseKeeps, Observe, Impact
<1>6. CASE ReadSteps
  BY <1>6 DEF ReadSteps, AcquireRead, ResumeRead, TakeLease, Release, ReaderKeeps
<1>7. CASE CloseSteps
  BY <1>7 DEF CloseSteps, CloseLoop, LoopClosed, CloseEnds, ClosesWatch, AfterLoop, CloseKeeps
<1> QED BY <1>1, <1>2, <1>3, <1>4, <1>5, <1>6, <1>7, AllSteps

LEMMA PlanTypeStep == TypeOK /\ PhaseInv /\ Next => PlanTypes'
<1> SUFFICES ASSUME TypeOK, PhaseInv, Next PROVE PlanTypes'
  OBVIOUS
<1>a. /\ disk.plan \in -1..MaxEvents /\ PlanTypes /\ (pc \in {"registering", "confirm"} => tries <= Attempts)
      /\ -1 \in -1..MaxEvents /\ 0 \in 0..Attempts + 1 /\ 1 \in 0..Attempts + 1 /\ 0 \in 0..Attempts
      /\ Attempts \in Nat
  BY BoundsAssumption, TypeParts DEF PhaseInv, InputTypes
<1>b. CASE UNCHANGED planVars
  BY <1>a, <1>b DEF planVars, PlanTypes
<1>c. CASE LocalsGone /\ UNCHANGED effective
  BY <1>a, <1>c DEF LocalsGone, PlanTypes
<1> USE DEF planVars
<1>1. CASE StartSteps
  <2>1. CASE StartResolves
    BY <1>a, <1>b, <2>1 DEF StartResolves, StartFails, PlanTypes
  <2>2. CASE RecoveryAdmitted
    BY <1>a, <1>b, <2>2 DEF RecoveryAdmitted, StartFails, PlanTypes
  <2>3. CASE Prepare
    BY <1>a, <2>3 DEF Prepare, PlanTypes
  <2>4. CASE ~(StartResolves \/ RecoveryAdmitted \/ Prepare)
    BY <1>b, <1>c, <1>1, <2>4 DEF StartSteps, Start, StartFails, ExistingValidated, Announce,
       Begin, StartupOver
  <2> QED BY <2>1, <2>2, <2>3, <2>4
<1>2. CASE PlanSteps
  <2>1. CASE Confirm
    BY <1>a, <1>b, <2>1 DEF Confirm, PlanFails, StartFails, PlanTypes
  <2>2. CASE ~Confirm
    BY <1>b, <1>2, <2>2 DEF PlanSteps, Register, Registering, PlanFails, StartFails
  <2> QED BY <2>1, <2>2
<1>3. CASE RunSteps
  <2>1. CASE Replan
    BY <1>a, <1>b, <2>1 DEF Replan, PlanTypes
  <2>2. CASE ~Replan
    BY <1>b, <1>3, <2>2 DEF RunSteps, RunBegins, VerifyPlan, AssertCurrent, Compile, Validated,
       WriterAnswered, Verify
  <2> QED BY <2>1, <2>2
<1>4. CASE GateSteps
  BY <1>b, <1>c, <1>4 DEF GateSteps, Write, Committed, RolledBack, Published, Finish
<1>5. CASE HostSteps
  BY <1>b, <1>5 DEF HostSteps, Fire, Edit, Poll, WatchError, Invalidate, Close, Unmoved,
     CloseKeeps
<1>6. CASE ReadSteps
  BY <1>b, <1>6 DEF ReadSteps, AcquireRead, ResumeRead, TakeLease, Release, ReaderKeeps
<1>7. CASE CloseSteps
  BY <1>b, <1>7 DEF CloseSteps, CloseLoop, LoopClosed, CloseEnds, CloseKeeps
<1> QED BY <1>1, <1>2, <1>3, <1>4, <1>5, <1>6, <1>7, AllSteps

LEMMA TypeStep == TypeOK /\ PhaseInv /\ Next => TypeOK'
<1>1. (TypeOK <=> InputTypes /\ PublicTypes /\ StateTypes /\ FlagTypes /\ PlanTypes)'
  BY DEF TypeOK, InputTypes, PublicTypes, StateTypes, FlagTypes, PlanTypes
<1> QED
  BY <1>1, InputTypeStep, PublicTypeStep, StateTypeStep, FlagTypeStep, PlanTypeStep

-----------------------------------------------------------------------------
(* The gate of the session is the gate of PublicationGateProofs.           *)

LEMMA GateCallers == GateProofs!CallersAssumption
BY BoundsAssumption DEF GateProofs!CallersAssumption, Revision, GateProofs!IsFiniteSet,
   IsFiniteSet

LEMMA GateActions ==
  /\ Gate!Caller = GateProofs!Caller
  /\ Gate!Init => GateProofs!Init
  /\ Gate!Close => GateProofs!Close
  /\ Gate!TimerFires => GateProofs!TimerFires
  /\ \A r \in Reader : /\ Gate!AcquireRead(r) => GateProofs!AcquireRead(r)
                       /\ Gate!ResumeRead(r) => GateProofs!ResumeRead(r)
                       /\ Gate!ReleaseRead(r) => GateProofs!ReleaseRead(r)
  /\ \A w \in Revision : /\ Gate!RunWrite(w) => GateProofs!RunWrite(w)
                         /\ Gate!ResumeWrite(w) => GateProofs!ResumeWrite(w)
                         /\ Gate!EndWrite(w) => GateProofs!EndWrite(w)
<1>1. Gate!Caller = GateProofs!Caller
  BY DEF Gate!Caller, GateProofs!Caller
<1>2. Gate!Init => GateProofs!Init
  BY DEF Gate!Init, GateProofs!Init, Gate!Caller, GateProofs!Caller
<1>3. Gate!Close => GateProofs!Close
  BY DEF Gate!Close, GateProofs!Close, Gate!Waiting, GateProofs!Waiting, Gate!Caller,
     GateProofs!Caller, Gate!ToSet, GateProofs!ToSet
<1>4. Gate!TimerFires => GateProofs!TimerFires
  BY DEF Gate!TimerFires, GateProofs!TimerFires, Gate!Caller, GateProofs!Caller
<1>5. \A n, w, waiting, places : Gate!Drain(n, w, waiting, places) => GateProofs!Drain(n, w, waiting, places)
  BY DEF Gate!Drain, GateProofs!Drain, Gate!Caller, GateProofs!Caller, Gate!ToSet,
     GateProofs!ToSet
<1>6. \A c, place : Gate!Move(c, place) = GateProofs!Move(c, place)
  BY DEF Gate!Move, GateProofs!Move
<1>7. ASSUME NEW r \in Reader
      PROVE  /\ Gate!AcquireRead(r) => GateProofs!AcquireRead(r)
             /\ Gate!ResumeRead(r) => GateProofs!ResumeRead(r)
             /\ Gate!ReleaseRead(r) => GateProofs!ReleaseRead(r)
  <2>1. Gate!AcquireRead(r) => GateProofs!AcquireRead(r)
    BY DEF Gate!AcquireRead, GateProofs!AcquireRead, Gate!Move, GateProofs!Move, Gate!MustQueue,
       GateProofs!MustQueue
  <2>2. Gate!ResumeRead(r) => GateProofs!ResumeRead(r)
    BY DEF Gate!ResumeRead, GateProofs!ResumeRead, Gate!Move, GateProofs!Move, Gate!CountedAgain,
       GateProofs!CountedAgain
  <2>3. Gate!ReleaseRead(r) => GateProofs!ReleaseRead(r)
    BY <1>5, <1>6 DEF Gate!ReleaseRead, GateProofs!ReleaseRead
  <2> QED BY <2>1, <2>2, <2>3
<1>8. ASSUME NEW w \in Revision
      PROVE  /\ Gate!RunWrite(w) => GateProofs!RunWrite(w)
             /\ Gate!ResumeWrite(w) => GateProofs!ResumeWrite(w)
             /\ Gate!EndWrite(w) => GateProofs!EndWrite(w)
  <2>1. Gate!RunWrite(w) => GateProofs!RunWrite(w)
    BY DEF Gate!RunWrite, GateProofs!RunWrite, Gate!Move, GateProofs!Move, Gate!LoopWaits,
       GateProofs!LoopWaits, Gate!Occupied, GateProofs!Occupied
  <2>2. Gate!ResumeWrite(w) => GateProofs!ResumeWrite(w)
    <3>1. CASE gateClosed \/ w \in aborted
      BY <1>5, <1>6, <3>1 DEF Gate!ResumeWrite, GateProofs!ResumeWrite, Gate!LoopWaits,
         GateProofs!LoopWaits
    <3>2. CASE ~(gateClosed \/ w \in aborted)
      BY <1>6, <3>2 DEF Gate!ResumeWrite, GateProofs!ResumeWrite
    <3> QED BY <3>1, <3>2
  <2>3. Gate!EndWrite(w) => GateProofs!EndWrite(w)
    BY <1>5, <1>6 DEF Gate!EndWrite, GateProofs!EndWrite, Gate!LoopWaits, GateProofs!LoopWaits
  <2> QED BY <2>1, <2>2, <2>3
<1> QED BY <1>1, <1>2, <1>3, <1>4, <1>7, <1>8

\* What the gate's own invariants need of a step of the session.
GateMoves ==
  \/ Gate!Close \/ Gate!TimerFires \/ UNCHANGED gateVars
  \/ \E r \in Reader : Gate!AcquireRead(r) \/ Gate!ResumeRead(r) \/ Gate!ReleaseRead(r)
  \/ \E w \in Revision : Gate!RunWrite(w) \/ Gate!ResumeWrite(w) \/ Gate!EndWrite(w)

LEMMA GateKept ==
  ASSUME GateProofs!GateInv, GateProofs!SessionInv, GateMoves
  PROVE  GateProofs!GateInv' /\ GateProofs!SessionInv'
<1>1. [GateProofs!Next]_(GateProofs!vars)
  <2>1. CASE UNCHANGED gateVars
    BY <2>1 DEF gateVars, GateProofs!vars, GateProofs!gate
  <2>2. CASE ~UNCHANGED gateVars
    BY <2>2, GateActions DEF GateMoves, GateProofs!Next, GateProofs!Resume, GateProofs!Leave
  <2> QED BY <2>1, <2>2
<1> QED BY <1>1, GateCallers, GateProofs!GateStep, GateProofs!SessionStep

LEMMA GateStarts == Init => GateProofs!GateInv /\ GateProofs!SessionInv
BY GateActions, GateCallers, GateProofs!GateInit, GateProofs!SessionInit DEF Init

\* Where the gate leaves the run that asked, or was answered.
LEMMA GateAnswers ==
  ASSUME GateInv, NEW w \in Revision, w = Revised,
         \/ Gate!RunWrite(w) \/ Gate!ResumeWrite(w)
         \/ gateAt[w] = "rejected" /\ UNCHANGED gateVars
  PROVE  /\ gateClosed' = gateClosed
         /\ \/ GatePlace = "write" /\ gateAt'[w] = "inside"
            \/ GatePlace = "waiting" /\ gateAt'[w] = "waiting"
            \/ GatePlace = "finish" /\ gateAt'[w] = "rejected"
<1>1. GateProofs!GateInv /\ GateProofs!SessionInv
  BY DEF GateInv
<1>2. CASE gateAt[w] = "rejected" /\ UNCHANGED gateVars
  BY <1>2 DEF GatePlace, gateVars
<1>3. CASE Gate!RunWrite(w) \/ Gate!ResumeWrite(w)
  <2>1. GateProofs!RunWrite(w) \/ GateProofs!ResumeWrite(w)
    BY <1>3, GateActions
  <2>2. gateClosed' = gateClosed /\ gateAt'[w] \in {"inside", "waiting", "rejected"}
    BY <1>1, <2>1, GateCallers, GateProofs!WriterEffect
  <2> QED BY <2>2 DEF GatePlace
<1> QED BY <1>2, <1>3

\* The gate is closed by close() alone.
LEMMA GateCloses ==
  ASSUME GateInv
  PROVE  /\ \A r \in Reader : Gate!AcquireRead(r) \/ Gate!ResumeRead(r) \/ Gate!ReleaseRead(r) =>
              gateClosed' = gateClosed
         /\ \A w \in Revision : Gate!RunWrite(w) \/ Gate!ResumeWrite(w) \/ Gate!EndWrite(w) =>
              gateClosed' = gateClosed
         /\ Gate!TimerFires \/ UNCHANGED gateVars => gateClosed' = gateClosed
         /\ Gate!Close => gateClosed' = TRUE
BY DEF Gate!AcquireRead, Gate!ResumeRead, Gate!ReleaseRead, Gate!RunWrite, Gate!ResumeWrite,
   Gate!EndWrite, Gate!TimerFires, gateVars, Gate!Close

\* A run executes only with a cause.
LEMMA RevisedExecutes == TypeOK /\ LoopInv /\ Running => Revised \in Revision /\ Revised \in cause
BY DEF LoopInv, StateShape, CauseShape

\* Where a step of #replanGapSafe and one before the gate lead.
LEMMA PlanPlaces ==
  TypeOK => Replanned \in {"admit", "existing", "begin", "execution", "finish"}
BY DEF TypeOK, Replanned

LEMMA RunPlaces ==
  ASSUME TypeOK, LoopInv, GateInv, RunSteps
  PROVE  /\ pc' \in {"finish", "replan", "execution", "register", "assert", "compile", "validate",
                     "waiting", "write"}
         /\ pc' = "register" => after' = "build"
<1>1. CASE Validated \/ WriterAnswered
  <2>1. Revised \in Revision
    BY <1>1, RevisedExecutes DEF Validated, WriterAnswered, Running, Building, AtGate
  <2> QED BY <1>1, <2>1, GateAnswers DEF Validated, WriterAnswered, Goto, gateVars,
  BuildFails, HostRejects
<1>2. CASE ~(Validated \/ WriterAnswered)
  BY <1>2 DEF RunSteps, RunBegins, Replan, VerifyPlan, AssertCurrent, Verify, Compile,
     BuildFails, HostRejects,
     Goto
<1> QED BY <1>1, <1>2

-----------------------------------------------------------------------------
(* The phases of a session.                                                *)

LEMMA PhaseStarts == Init => PhaseInv
BY DEF Init, PhaseInv, Places, Planning, Preparing, Building, AtGate, Running, Open, Gate!Init

LEMMA PhaseStep ==
  ASSUME TypeOK, PhaseInv, LoopInv, GateInv, Next
  PROVE  PhaseInv'
<1>1. CASE StartSteps
  BY <1>1 DEF StartSteps, Start, StartResolves, RecoveryAdmitted, Prepare, ExistingValidated,
     Announce, Begin, Fails, Fault, StartFails, StartupOver, LocalsGone, Goto, PhaseInv, Places,
     Planning, Preparing, Building, AtGate, Running, Open, gateVars, public, startVars, planVars
<1>a. after \in {"recover", "startup", "build"}
  BY DEF TypeOK
<1>2. CASE PlanSteps
  <2>1. CASE Register
    BY <2>1 DEF Register, Fault, StartFails, PlanFails, BuildFails, HostRejects, FailedKind,
       PhaseInv, Places, Planning, Preparing, Building, AtGate, Running, Open, Goto, gateVars,
       public, startVars, planVars
  <2>2. CASE Registering
    BY <2>2 DEF Registering, PhaseInv, Places, Planning, Preparing, Building, AtGate, Running,
       Open, Goto, gateVars, public, startVars, planVars
  <2>3. CASE Confirm
    BY <1>a, <2>3 DEF Confirm, Fails, Fault, StartFails, PlanFails,
       BuildFails, HostRejects, FailedKind,
       Replanned, PhaseInv, Places, Planning, Preparing, Building, AtGate, Running, Open, Goto,
       gateVars, public, startVars, planVars
  <2> QED BY <1>2, <2>1, <2>2, <2>3 DEF PlanSteps
<1>3. CASE RunSteps
  <2>1. CASE Validated \/ WriterAnswered
    <3>1. Revised \in Revision
      BY <2>1, RevisedExecutes DEF Validated, WriterAnswered, Running, Building, AtGate
    <3>2. gateClosed' = gateClosed /\ (pc' \in {"write", "waiting", "finish"})
      BY <2>1, <3>1, GateAnswers DEF Validated, WriterAnswered, Goto, gateVars,
         BuildFails, HostRejects
    <3> QED BY <2>1, <3>2 DEF Validated, WriterAnswered, Fault, BuildFails, HostRejects, FailedKind,
               BuildKeeps, Observe, Reconcile, PhaseInv, Places, Planning, Preparing, Building,
               AtGate, Running, Open, Goto, gateVars, public, startVars, planVars
  <2>2. CASE RunBegins
    BY <2>2 DEF RunBegins, BuildKeeps, Loop!RunBegins, LoopInv, StateShape,
       PhaseInv, Places, Planning, Preparing, Building, AtGate, Running, Open, Goto, gateVars,
       public, startVars, planVars
  <2>3. CASE Replan \/ Compile
    BY <2>3 DEF Replan, Compile, Fails, Fault, BuildFails, HostRejects, FailedKind, BuildKeeps,
       PhaseInv, Places, Planning, Preparing, Building, AtGate, Running, Open, Goto, gateVars,
       public, startVars, planVars
  <2>4. CASE VerifyPlan \/ AssertCurrent
    BY <2>4 DEF VerifyPlan, AssertCurrent, Verify, Fault,
       BuildFails, HostRejects, FailedKind, BuildKeeps,
       Observe, PhaseInv, Places, Planning, Preparing, Building, AtGate, Running, Open, Goto,
       gateVars, public, startVars, planVars
  <2> QED BY <1>3, <2>1, <2>2, <2>3, <2>4 DEF RunSteps
<1>4. CASE GateSteps
  <2>1. gateClosed' = gateClosed
    <3>1. pc \in AtGate => Revised \in Revision
      BY RevisedExecutes DEF Running, Building
    <3> QED BY <1>4, <3>1, GateCloses DEF GateSteps, Write, Committed, RolledBack, Published,
               Finish, LeaveGate, AtGate, gateVars
  <2>2. CASE Write
    BY <2>1, <2>2 DEF Write, Fault, BuildFails, HostRejects, FailedKind, Observe, Reconcile,
       PhaseInv, Places, Planning, Preparing, Building, AtGate, Running, Open, Goto, gateVars,
       public, startVars, planVars
  <2>3. CASE Committed \/ Published
    BY <2>1, <2>3 DEF Committed, Published, PhaseInv, Places, Planning, Preparing, Building,
       AtGate, Running, Open, Goto, gateVars, public, startVars, planVars
  <2>4. CASE RolledBack
    BY <2>1, <2>4 DEF RolledBack, Fault,
       BuildFails, HostRejects, FailedKind, PhaseInv, Places, Planning,
       Preparing, Building, AtGate, Running, Open, Goto, gateVars, public, startVars, planVars
  <2>5. CASE Finish
    <3>1. pc = "finish" /\ pc' = "idle" /\ UNCHANGED <<ready, kind, closing>>
      BY <2>5 DEF Finish, Goto, startVars
    <3> QED BY <2>1, <3>1 DEF PhaseInv, Places, Running, Building, Open
  <2> QED BY <1>4, <2>2, <2>3, <2>4, <2>5 DEF GateSteps
<1>5. CASE HostSteps
  <2>1. CASE Close
    <3>1. gateClosed' = TRUE
      BY <2>1, GateCloses DEF Close
    <3> QED BY <2>1, <3>1 DEF Close, CloseKeeps, PhaseInv, Places, Planning, Preparing,
               Building, AtGate, Running, Open, Goto, gateVars, public, startVars, planVars
  <2>2. CASE Edit \/ Poll \/ WatchError \/ Invalidate
    BY <2>2 DEF Edit, Poll, WatchError, Invalidate, Fault, FailedKind, Unmoved, Observe,
       PhaseInv, Places, Planning, Preparing, Building, AtGate, Running, Open, Goto, gateVars,
       public, startVars, planVars
  <2>3. CASE Fire
    <3>1. gateClosed' = gateClosed
      BY <2>3, GateCloses DEF Fire
    <3> QED BY <2>3, <3>1 DEF Fire, Unmoved, PhaseInv, Places, Planning, Preparing, Building,
               AtGate, Running, Open, Goto, gateVars, public, startVars, planVars
  <2> QED BY <1>5, <2>1, <2>2, <2>3 DEF HostSteps
<1>6. CASE ReadSteps
  <2>1. gateClosed' = gateClosed
    BY <1>6, GateCloses DEF ReadSteps, AcquireRead, ResumeRead, TakeLease, Release
  <2> QED BY <1>6, <2>1 DEF ReadSteps, AcquireRead, ResumeRead, TakeLease, Release, ReaderKeeps,
       PhaseInv, Places, Planning, Preparing, Building, AtGate, Running, Open, Goto, gateVars,
       public, startVars, planVars
<1>7. CASE CloseSteps
  BY <1>7 DEF CloseSteps, CloseLoop, LoopClosed, CloseEnds, ClosesWatch, AfterLoop, CloseKeeps,
       PhaseInv, Places, Planning, Preparing, Building, AtGate, Running, Open, Goto, gateVars,
       public, startVars, planVars
<1> QED BY <1>1, <1>2, <1>3, <1>4, <1>5, <1>6, <1>7, AllSteps

-----------------------------------------------------------------------------
(* The loop: whatever is newer than the run waits, and a run executes       *)
(* exactly while the session is in it.                                      *)

\* The newest of a set of revisions.
LEMMA MaxIs ==
  ASSUME NEW S \in SUBSET Revision, NEW m \in S, \A s \in S : s <= m
  PROVE  Max(S) = m
<1>1. S \subseteq Nat
  BY DEF Revision
<1>2. \A x \in S : (\A y \in S : x >= y) => x = m
  BY <1>1
<1>3. \A y \in S : m >= y
  BY <1>1
<1> QED BY <1>2, <1>3 DEF Max

LEMMA LoopStarts == Init => LoopInv
<1> SUFFICES ASSUME Init PROVE LoopInv
  OBVIOUS
<1>1. StateShape
  BY DEF Init, Loop!Init, StateShape, Running, Planning, Building, AtGate, Loop!NoTimer
<1>2. CauseShape
  BY DEF Init, Loop!Init, CauseShape
<1> QED BY <1>1, <1>2 DEF LoopInv

\* A step that leaves the loop alone stays in the run, or outside of it.
LEMMA LoopStays ==
  ASSUME LoopInv, UNCHANGED loopVars, Len(impacts') = Len(impacts),
         Running' <=> Running, pc = "idle" => pc' = "idle", ready => ready',
         pc' = "announce" => pc = "announce" /\ impacts' = impacts
  PROVE  LoopInv'
<1>1. StateShape'
  BY DEF LoopInv, StateShape, loopVars
<1>2. Revised' = Revised
  BY DEF Revised, loopVars
<1>3. CauseShape'
  BY <1>2 DEF LoopInv, CauseShape, loopVars
<1> QED BY <1>1, <1>3 DEF LoopInv

\* What #observe asks for is newer than all there is.
LEMMA LoopObserves ==
  ASSUME TypeOK, LoopInv, NEW i \in {"plan", "source", "info"}, Observe(i),
         Running' <=> Running, pc = "idle" => pc' = "idle", ready', pc' = "announce" => pc = "announce"
  PROVE  LoopInv'
<1>1. /\ loopState # "closed"
      /\ pending' = (IF hasPending THEN pending \cup {Len(impacts) + 1} ELSE {Len(impacts) + 1})
      /\ hasPending' = TRUE /\ quiet' = 0 /\ timer' = (IF loopState = "running" THEN timer ELSE 0)
      /\ loopState' = (IF loopState = "running" THEN loopState ELSE "debouncing")
      /\ UNCHANGED <<active, cause, clients>>
  BY DEF Observe, Loop!Ask, Loop!Merged, Loop!NextTimer
<1>2. /\ impacts' = Append(impacts, i) /\ Len(impacts) \in Nat /\ Len(impacts') = Len(impacts) + 1
      /\ Len(impacts') \in Revision /\ Len(impacts) < MaxRevision
      /\ \A r \in 1..Len(impacts) : impacts'[r] = impacts[r]
  BY BoundsAssumption DEF TypeOK, Observe, Revision
<1>3. StateShape'
  BY <1>1 DEF LoopInv, StateShape
<1>4. Revised' = Revised
  BY <1>1 DEF Revised
<1>5. CauseShape'
  <2>0. CauseShape /\ Len(impacts) + 1 \in Revision
    BY <1>2 DEF LoopInv
  <2>1. (pending \subseteq Revision /\ cause \subseteq Revision)'
    BY <1>1, <2>0 DEF CauseShape
  <2>2. cause = {} \/ active # "none"
    BY <2>0 DEF CauseShape
  <2>3. \A r \in cause : r <= Len(impacts)
    BY <2>0 DEF CauseShape
  <2>4. \A r \in pending : hasPending => r <= Len(impacts) /\ r \notin cause
    BY <2>0 DEF CauseShape
  <2>5. \A r \in Revision : r \in Nat
    BY DEF Revision
  <2>6. (hasPending => /\ Len(impacts) \in pending
                       /\ \A r \in pending : r <= Len(impacts) /\ r \notin cause)'
    BY <1>1, <1>2, <2>0, <2>3, <2>4, <2>5 DEF CauseShape
  <2>7. (active # "none" => Revised \in cause /\ \A r \in cause : r <= Revised /\ r <= Len(impacts))'
    BY <1>1, <1>2, <1>4, <2>0, <2>5 DEF CauseShape
  <2>8. (active # "none" /\ loopState # "closed" =>
           \A r \in 1..Len(impacts) : r > Revised => hasPending /\ r \in pending)'
    BY <1>1, <1>2, <1>4, <2>0 DEF CauseShape
  <2>9. (pc = "announce" =>
         /\ active = "none" /\ loopState # "closed" /\ Len(impacts) # 0
         /\ impacts[1] = "source" /\ (hasPending \/ Len(impacts) = 1))'
    BY <1>1, <1>2, <2>0 DEF CauseShape
  <2> QED BY <1>1, <2>0, <2>1, <2>6, <2>7, <2>8, <2>9 DEF CauseShape
<1> QED BY <1>3, <1>5 DEF LoopInv

\* The first request of the session.
LEMMA LoopAsksFirst ==
  ASSUME TypeOK, LoopInv, Loop!Ask(1), active = "none", pc' = "idle", ready',
         Len(impacts') \in Nat \ {0},
         IF hasPending THEN Len(impacts') = Len(impacts) ELSE Len(impacts') = 1
  PROVE  LoopInv'
<1>1. /\ loopState # "closed" /\ pending' = (IF hasPending THEN pending \cup {1} ELSE {1})
      /\ hasPending' = TRUE /\ timer' = (IF loopState = "running" THEN timer ELSE 0) /\ quiet' = 0
      /\ loopState' = (IF loopState = "running" THEN loopState ELSE "debouncing")
      /\ UNCHANGED <<active, cause, clients>>
  BY DEF Loop!Ask, Loop!Merged, Loop!NextTimer
<1>2. 1 \in Revision /\ \A r \in Revision : r \in Nat
  BY BoundsAssumption DEF Revision
<1>3. StateShape'
  BY <1>1 DEF LoopInv, StateShape, Running, Planning, Building, AtGate
<1>4. CauseShape'
  BY <1>1, <1>2 DEF LoopInv, CauseShape
<1> QED BY <1>3, <1>4 DEF LoopInv

\* The timer fires between the runs; what waited is the cause of the next one.
LEMMA LoopFires ==
  ASSUME TypeOK, PhaseInv, LoopInv, Fire
  PROVE  LoopInv' /\ pc = "idle" /\ active' = "queued" /\ cause' = pending /\ hasPending
         /\ hasPending' = FALSE /\ loopState # "closed"
<1>1. timer = 0 /\ loopState = "debouncing" /\ hasPending /\ active = "none" /\ quiet = 0
  BY DEF Fire, Loop!Fire, LoopInv, StateShape
<1>2. pc = "idle" /\ ~Running /\ ready
  BY <1>1 DEF Fire, Emitting, PhaseInv, LoopInv, StateShape
<1>3. /\ timer' = -1 /\ cause' = pending /\ hasPending' = FALSE /\ loopState' = "running"
      /\ active' = "queued" /\ UNCHANGED <<clients, pending, quiet>>
  BY <1>1 DEF Fire, Loop!Fire, Loop!NoTimer
<1>4. UNCHANGED <<pc, ready, impacts, after>>
  BY DEF Fire, Unmoved, planVars
<1>5. StateShape'
  BY <1>1, <1>2, <1>3, <1>4 DEF LoopInv, StateShape, Running
<1>6. Revised' = Len(impacts)
  BY <1>1, <1>3, MaxIs DEF Revised, LoopInv, CauseShape
<1>7. CauseShape'
  BY <1>1, <1>2, <1>3, <1>4, <1>6 DEF LoopInv, CauseShape
<1> QED BY <1>1, <1>2, <1>3, <1>5, <1>7 DEF LoopInv

LEMMA LoopStep ==
  ASSUME TypeOK, PhaseInv, LoopInv, CloseInv, GateInv, Next
  PROVE  LoopInv'
<1> USE DEF Planning, Preparing, Building, AtGate, Running, Goto
<1>a. /\ active = "executing" <=> Running
      /\ active = "queued" => pc = "idle"
  BY DEF LoopInv, StateShape
<1>b. Impact \in {"plan", "source", "info"}
  BY DEF Impact
<1>1. CASE StartSteps
  <2>1. CASE Start \/ StartResolves \/ RecoveryAdmitted \/ Prepare \/ (Begin /\ ~Open)
    BY <2>1, LoopStays DEF Start, StartResolves, RecoveryAdmitted, Prepare, Begin, StartFails,
       StartupOver, LocalsGone, startVars, planVars, PhaseInv, public
  <2>2. CASE ExistingValidated
    <3>1. pc = "existing" /\ UNCHANGED <<loopVars, after>> /\ ~ready
      BY <2>2 DEF ExistingValidated, PhaseInv, StartFails, planVars
    <3>2. CASE UNCHANGED impacts
      BY <2>2, <3>1, <3>2, LoopStays DEF ExistingValidated, StartFails, PhaseInv
    <3>3. CASE ~UNCHANGED impacts
      <4>1. Open /\ ready' /\ impacts' = <<"source">> /\ pc' = "announce"
        BY <2>2, <3>3 DEF ExistingValidated
      <4>2. loopState = "idle" /\ ~hasPending /\ active = "none"
        BY <3>1, <4>1 DEF CloseInv, Open, LoopInv, StateShape
      <4>3. StateShape'
        BY <3>1, <4>1, <4>2 DEF LoopInv, StateShape, loopVars
      <4>4. Len(impacts') = 1 /\ impacts'[1] = "source"
        BY <4>1
      <4>5. CauseShape'
        BY <3>1, <4>1, <4>2, <4>4 DEF LoopInv, CauseShape, loopVars
      <4> QED BY <4>3, <4>5 DEF LoopInv
    <3> QED BY <3>2, <3>3
  <2>3. CASE Announce
    <3>1. Loop!Ask(1) /\ active = "none" /\ pc' = "idle" /\ ready' /\ impacts' = impacts
      BY <2>3 DEF Announce, LoopInv, CauseShape, PhaseInv
    <3>2. Len(impacts) \in Nat \ {0} /\ (hasPending \/ Len(impacts) = 1)
      BY <2>3 DEF Announce, LoopInv, CauseShape, TypeOK
    <3> QED BY <3>1, <3>2, LoopAsksFirst
  <2>4. CASE Begin /\ Open
    <3>1. Loop!Ask(1) /\ pc = "begin" /\ pc' = "idle" /\ ready' /\ impacts' = <<"source">>
      BY <2>4 DEF Begin
    <3>2. loopState = "idle" /\ ~hasPending /\ active = "none"
      BY <2>4, <3>1 DEF PhaseInv, CloseInv, Open, LoopInv, StateShape
    <3>3. Len(impacts') = 1
      BY <3>1
    <3> QED BY <3>1, <3>2, <3>3, LoopAsksFirst
  <2> QED BY <1>1, <2>1, <2>2, <2>3, <2>4 DEF StartSteps
<1>2. CASE PlanSteps
  <2>1. /\ UNCHANGED <<loopVars, impacts, ready>> /\ pc \in Planning /\ (Running' <=> Running)
        /\ pc' # "announce"
    BY <1>2 DEF PlanSteps, Register, Registering, Confirm, StartFails, PlanFails,
       BuildFails, HostRejects,
       Replanned, TypeOK, startVars, planVars
  <2> QED BY <2>1, LoopStays
<1>3. CASE RunSteps
  <2>1. CASE RunBegins
    <3>1. /\ active = "queued" /\ active' = "executing" /\ pc = "idle" /\ pc' \in Building
          /\ UNCHANGED <<impacts, ready, loopState, pending, hasPending, quiet, timer, cause, clients>>
      BY <1>a, <2>1 DEF RunBegins, Loop!RunBegins, BuildKeeps, startVars
    <3>2. Revised' = Revised
      BY <3>1 DEF Revised
    <3>3. StateShape'
      BY <3>1 DEF LoopInv, StateShape
    <3>4. CauseShape'
      BY <3>1, <3>2 DEF LoopInv, CauseShape
    <3> QED BY <3>3, <3>4 DEF LoopInv
  <2>2. ASSUME ~RunBegins PROVE Running /\ Running' /\ pc' # "announce" /\ ready /\ ready'
    <3>1. CASE Validated \/ WriterAnswered
      <4>1. pc \in {"validate", "waiting"}
        BY <3>1 DEF Validated, WriterAnswered
      <4>2. Revised \in Revision
        BY <4>1, RevisedExecutes
      <4>3. pc' \in Building
        BY <3>1, <4>2, GateAnswers DEF Validated, WriterAnswered, gateVars, BuildFails, HostRejects
      <4>4. ready' = ready
        BY <3>1 DEF Validated, WriterAnswered, BuildKeeps, startVars
      <4> QED BY <4>1, <4>3, <4>4 DEF PhaseInv
    <3>2. CASE ~(Validated \/ WriterAnswered)
      BY <1>3, <2>2, <3>2 DEF RunSteps, Replan, VerifyPlan, AssertCurrent, Verify, Compile,
         BuildFails, HostRejects, BuildKeeps, startVars, PhaseInv
    <3> QED BY <3>1, <3>2
  <2>3. ASSUME ~RunBegins PROVE UNCHANGED <<impacts, loopVars>>
                                \/ \E i \in {"plan", "source", "info"} : Observe(i)
    BY <1>3, <1>b, <2>3 DEF RunSteps, Replan, VerifyPlan, AssertCurrent, Verify, Compile,
       Validated, WriterAnswered, BuildKeeps, Reconcile
  <2> QED BY <2>1, <2>2, <2>3, LoopStays, LoopObserves
<1>4. CASE GateSteps
  <2>1. CASE Finish
    <3>1. /\ active = "executing" /\ active' = "none" /\ cause' = {}
          /\ UNCHANGED <<pending, hasPending, quiet, ready>> /\ pc' = "idle" /\ ready
          /\ \/ loopState = "closed" /\ UNCHANGED <<loopState, timer>>
             \/ loopState # "closed" /\ ~hasPending /\ loopState' = "idle" /\ UNCHANGED timer
             \/ loopState # "closed" /\ hasPending /\ loopState' = "debouncing" /\ timer' = 0 - quiet
      BY <2>1 DEF Finish, Loop!RunEnds, Loop!NothingToDo, Loop!Remaining, startVars, PhaseInv
    <3>2. clients' = Loop!ResolveIdle(clients) \/ clients' = clients
      BY <2>1 DEF Finish, Loop!RunEnds
    <3>3. clients' \in [{Closer} -> {"out", "waiting", "idle", "closing", "closed"}]
      BY <3>2 DEF Loop!ResolveIdle, LoopInv, StateShape
    <3>4. StateShape'
      BY <3>1, <3>3 DEF LoopInv, StateShape
    <3>5. Len(impacts') = Len(impacts)
      BY <2>1 DEF Finish, TypeOK
    <3>6. CauseShape'
      BY <3>1, <3>5 DEF LoopInv, CauseShape
    <3> QED BY <3>4, <3>6 DEF LoopInv
  <2>2. ASSUME ~Finish PROVE Running /\ Running' /\ pc' # "announce" /\ ready /\ ready'
    BY <1>4, <2>2 DEF GateSteps, Write, Committed, RolledBack, Published,
       BuildFails, HostRejects, startVars,
       PhaseInv
  <2>3. ASSUME ~Finish PROVE UNCHANGED <<impacts, loopVars>>
                             \/ \E i \in {"plan", "source", "info"} : Observe(i)
    BY <1>4, <1>b, <2>3 DEF GateSteps, Write, Committed, RolledBack, Published, Reconcile
  <2> QED BY <2>1, <2>2, <2>3, LoopStays, LoopObserves
<1>5. CASE HostSteps
  <2>1. CASE Fire
    BY <2>1, LoopFires
  <2>2. ASSUME ~Fire PROVE UNCHANGED <<pc, ready, after>>
    BY <1>5, <2>2 DEF HostSteps, Edit, Poll, WatchError, Invalidate, Close, Unmoved, CloseKeeps,
       startVars, planVars
  <2>3. ASSUME ~Fire PROVE UNCHANGED <<impacts, loopVars>>
                           \/ (ready /\ \E i \in {"plan", "source", "info"} : Observe(i))
    BY <1>5, <1>b, <2>3 DEF HostSteps, Edit, Poll, WatchError, Invalidate, Close, CloseKeeps
  <2> QED BY <2>1, <2>2, <2>3, LoopStays, LoopObserves
<1>6. CASE ReadSteps
  BY <1>6, LoopStays DEF ReadSteps, AcquireRead, ResumeRead, TakeLease, Release, ReaderKeeps,
     startVars, planVars
<1>7. CASE CloseSteps
  <2>0. UNCHANGED <<pc, ready, after, impacts>>
    BY <1>7 DEF CloseSteps, CloseLoop, LoopClosed, CloseEnds, CloseKeeps, startVars, planVars
  <2>1. CASE CloseLoop
    <3>1. /\ loopState' = "closed" /\ hasPending' = FALSE /\ timer' = -1 /\ pc # "announce"
          /\ UNCHANGED <<pending, quiet, active, cause>>
      BY <2>1 DEF CloseLoop, Loop!Close, Loop!NoTimer, Emitting
    <3>2. clients' \in [{Closer} -> {"out", "waiting", "idle", "closing", "closed"}]
      BY <2>1 DEF CloseLoop, Loop!Close, Loop!ResolveIdle, LoopInv, StateShape
    <3>3. StateShape'
      BY <2>0, <3>1, <3>2 DEF LoopInv, StateShape
    <3>4. Revised' = Revised
      BY <3>1 DEF Revised
    <3>5. CauseShape'
      BY <2>0, <3>1, <3>4 DEF LoopInv, CauseShape
    <3> QED BY <3>3, <3>5 DEF LoopInv
  <2>2. CASE LoopClosed
    <3>1. UNCHANGED <<loopState, pending, hasPending, quiet, timer, active, cause>>
      BY <2>2 DEF LoopClosed, Loop!CloseReturns
    <3>2. clients' \in [{Closer} -> {"out", "waiting", "idle", "closing", "closed"}]
      BY <2>2 DEF LoopClosed, Loop!CloseReturns, Loop!ResolveIdle, LoopInv, StateShape
    <3>3. StateShape'
      BY <2>0, <3>1, <3>2 DEF LoopInv, StateShape
    <3>4. Revised' = Revised
      BY <3>1 DEF Revised
    <3>5. CauseShape'
      BY <2>0, <3>1, <3>4 DEF LoopInv, CauseShape
    <3> QED BY <3>3, <3>5 DEF LoopInv
  <2>3. CASE CloseEnds
    BY <2>0, <2>3, LoopStays DEF CloseEnds
  <2> QED BY <1>7, <2>1, <2>2, <2>3 DEF CloseSteps
<1> QED BY <1>1, <1>2, <1>3, <1>4, <1>5, <1>6, <1>7, AllSteps

-----------------------------------------------------------------------------
(* How far close is.                                                       *)

LEMMA CloseStarts == Init => CloseInv
BY DEF Init, CloseInv, Loop!Init

\* What a step does to the loop, seen from close.
LEMMA LoopMeanwhile ==
  ASSUME TypeOK, PhaseInv, LoopInv, Next
  PROVE  /\ CloseLoop \/ (loopState' = "closed" <=> loopState = "closed")
         /\ active' = "none" \/ active # "none" \/ (Fire /\ loopState # "closed")
<1>1. CASE Loop!Ask(1) \/ UNCHANGED loopVars \/ \E i \in {"plan", "source", "info"} : Observe(i)
  BY <1>1 DEF Observe, Loop!Ask, loopVars
<1>2. CASE Fire
  BY <1>2, LoopFires DEF Fire, Loop!Fire
<1>3. CASE RunBegins \/ Finish
  BY <1>3 DEF RunBegins, Finish, Loop!RunBegins, Loop!RunEnds
<1>4. CASE CloseLoop \/ LoopClosed
  BY <1>4 DEF CloseLoop, LoopClosed, Loop!Close, Loop!CloseReturns
<1>5. ASSUME ~(Fire \/ RunBegins \/ Finish \/ CloseLoop \/ LoopClosed)
      PROVE  Loop!Ask(1) \/ UNCHANGED loopVars \/ \E i \in {"plan", "source", "info"} : Observe(i)
  <2>0. Impact \in {"plan", "source", "info"}
    BY DEF Impact
  <2>1. CASE StartSteps
    BY <2>1 DEF StartSteps, Start, StartResolves, RecoveryAdmitted, Prepare, ExistingValidated,
       Announce, Begin
  <2>2. CASE PlanSteps
    BY <2>2 DEF PlanSteps, Register, Registering, Confirm
  <2>3. CASE RunSteps
    BY <1>5, <2>0, <2>3 DEF RunSteps, Replan, VerifyPlan, AssertCurrent, Verify, Compile,
       Validated, WriterAnswered, BuildKeeps, Reconcile
  <2>4. CASE GateSteps
    BY <1>5, <2>0, <2>4 DEF GateSteps, Write, Committed, RolledBack, Published, Reconcile
  <2>5. CASE HostSteps
    BY <1>5, <2>0, <2>5 DEF HostSteps, Edit, Poll, WatchError, Invalidate, Close
  <2>6. CASE ReadSteps
    BY <2>6 DEF ReadSteps, AcquireRead, ResumeRead, TakeLease, Release, ReaderKeeps
  <2>7. CASE CloseSteps
    BY <1>5, <2>7 DEF CloseSteps, CloseEnds
  <2> QED BY <2>1, <2>2, <2>3, <2>4, <2>5, <2>6, <2>7, AllSteps
<1> QED BY <1>1, <1>2, <1>3, <1>4, <1>5

LEMMA CloseStep ==
  ASSUME TypeOK, PhaseInv, LoopInv, CloseInv, GateInv, Next
  PROVE  CloseInv'
<1>a. /\ CloseLoop \/ (loopState' = "closed" <=> loopState = "closed")
      /\ active' = "none" \/ active # "none" \/ (Fire /\ loopState # "closed")
  BY LoopMeanwhile
<1>b. closing \in {"no", "start", "loop", "compiler", "closed"} /\ first \in {"pending", "resolved", "rejected"}
  BY DEF TypeOK
<1> USE DEF Open, Goto, public, startVars, planVars
<1>1. CASE CloseLoop
  <2>1. /\ closing = "start" /\ closing' = AfterLoop /\ pc' = pc /\ pc # "registering" /\ watch' = NoWatch
        /\ loopState' = "closed" /\ active' = active
        /\ clients[Closer] = "out" /\ clients' = IF active # "none"
                         THEN [clients EXCEPT ![Closer] = "closing"]
                         ELSE [Loop!ResolveIdle(clients) EXCEPT ![Closer] = "closed"]
    BY <1>1 DEF CloseLoop, CloseKeeps, Emitting, ClosesWatch, Loop!Close, Loop!MustAwait
  <2>2. active # "none" => clients'[Closer] # "closed"
    BY <2>1 DEF LoopInv, StateShape
  <2> QED BY <2>1, <2>2 DEF CloseInv, AfterLoop
<1>2. CASE LoopClosed \/ CloseEnds
  <2>1. loopState' = loopState /\ active' = active /\ watch' = watch /\ pc' = pc
        /\ closing \in {"loop", "compiler"} /\ closing' \in {"compiler", "closed"} /\ active = "none"
        /\ (closing' = "closed" => ~lock' /\ first' # "pending")
    BY <1>2, <1>b DEF LoopClosed, CloseEnds, CloseKeeps, Loop!CloseReturns, CloseInv, loopVars
  <2> QED BY <2>1 DEF CloseInv
<1>3. ASSUME ~(CloseLoop \/ LoopClosed \/ CloseEnds)
      PROVE  CloseInv'
  <2>0. loopState' = "closed" <=> loopState = "closed"
    BY <1>a, <1>3
  <2>1. closing' = closing \/ (closing = "no" /\ closing' = "start")
    <3>1. CASE StartSteps
      BY <1>3, <3>1 DEF StartSteps, Start, StartResolves, RecoveryAdmitted, Prepare,
         ExistingValidated, Announce, Begin, StartFails, StartupOver
    <3>2. CASE PlanSteps
      BY <1>3, <3>2 DEF PlanSteps, Register, Registering, Confirm, StartFails, PlanFails,
         BuildFails, HostRejects, Replanned
    <3>3. CASE RunSteps
      BY <1>3, <3>3 DEF RunSteps, RunBegins, Replan, VerifyPlan, AssertCurrent, Compile,
         Validated, WriterAnswered, Verify, BuildFails, HostRejects, BuildKeeps, Reconcile
    <3>4. CASE GateSteps
      BY <1>3, <3>4 DEF GateSteps, Write, Committed, RolledBack, Published, Finish,
         BuildFails, HostRejects,
         Reconcile
    <3>5. CASE HostSteps
      BY <1>3, <3>5 DEF HostSteps, Fire, Edit, Poll, WatchError, Invalidate, Close, Unmoved,
         CloseKeeps
    <3>6. CASE ReadSteps
      BY <1>3, <3>6 DEF ReadSteps, AcquireRead, ResumeRead, TakeLease, Release, ReaderKeeps
    <3>7. CASE CloseSteps
      BY <1>3, <3>7 DEF CloseSteps
    <3> QED BY <3>1, <3>2, <3>3, <3>4, <3>5, <3>6, <3>7, AllSteps
  <2>2. closing = "closed" => ~lock' /\ first' # "pending"
    <3>1. CASE StartSteps
      BY <1>3, <3>1 DEF StartSteps, Start, StartResolves, RecoveryAdmitted, Prepare,
         ExistingValidated, Announce, Begin, StartFails, StartupOver, CloseInv
    <3>2. CASE PlanSteps
      BY <1>3, <3>2 DEF PlanSteps, Register, Registering, Confirm, StartFails, PlanFails,
         BuildFails, HostRejects, CloseInv
    <3>3. CASE RunSteps
      BY <1>3, <3>3 DEF RunSteps, RunBegins, Replan, VerifyPlan, AssertCurrent, Compile,
         Validated, WriterAnswered, Verify, BuildFails, HostRejects, BuildKeeps, Reconcile, CloseInv
    <3>4. CASE GateSteps
      BY <1>3, <3>4 DEF GateSteps, Write, Committed, RolledBack, Published, Finish,
         BuildFails, HostRejects,
         Reconcile, CloseInv
    <3>5. CASE HostSteps
      BY <1>3, <3>5 DEF HostSteps, Fire, Edit, Poll, WatchError, Invalidate, Close, Unmoved,
         CloseKeeps, CloseInv
    <3>6. CASE ReadSteps
      BY <1>3, <3>6 DEF ReadSteps, AcquireRead, ResumeRead, TakeLease, Release, ReaderKeeps,
         CloseInv
    <3>7. CASE CloseSteps
      BY <1>3, <3>7 DEF CloseSteps, CloseInv
    <3> QED BY <3>1, <3>2, <3>3, <3>4, <3>5, <3>6, <3>7, AllSteps
  <2>3. loopState = "closed" => watch' = NoWatch /\ pc' # "registering"
    <3>1. CASE StartSteps
      BY <1>3, <1>b, <3>1 DEF StartSteps, Start, StartResolves, RecoveryAdmitted, Prepare,
         ExistingValidated, Announce, Begin, StartFails, StartupOver, CloseInv
    <3>2. CASE PlanSteps
      BY <1>3, <1>b, <3>2, PlanPlaces DEF PlanSteps, Register, Registering, Confirm, StartFails,
         PlanFails, BuildFails, HostRejects, CloseInv
    <3>3. CASE RunSteps
      BY <1>3, <1>b, <3>3, RunPlaces DEF RunSteps, RunBegins, Replan, VerifyPlan, AssertCurrent,
         Compile, Validated, WriterAnswered, Verify,
         BuildFails, HostRejects, BuildKeeps, Reconcile, CloseInv
    <3>4. CASE GateSteps
      BY <1>3, <1>b, <3>4 DEF GateSteps, Write, Committed, RolledBack, Published, Finish,
         BuildFails, HostRejects, Reconcile, CloseInv
    <3>5. CASE HostSteps
      BY <1>3, <1>b, <3>5 DEF HostSteps, Fire, Edit, Poll, WatchError, Invalidate, Close, Unmoved,
         CloseKeeps, CloseInv
    <3>6. CASE ReadSteps
      BY <1>3, <1>b, <3>6 DEF ReadSteps, AcquireRead, ResumeRead, TakeLease, Release, ReaderKeeps,
         CloseInv
    <3>7. CASE CloseSteps
      BY <1>3, <1>b, <3>7 DEF CloseSteps, CloseInv
    <3> QED BY <3>1, <3>2, <3>3, <3>4, <3>5, <3>6, <3>7, AllSteps
  <2>4. loopState = "closed" => closing # "no"
    BY DEF CloseInv
  <2> QED BY <1>a, <1>b, <2>0, <2>1, <2>2, <2>3 DEF CloseInv
<1> QED BY <1>1, <1>2, <1>3

-----------------------------------------------------------------------------
(* The run at the gate.                                                    *)

LEMMA GateInvStarts == Init => GateInv
BY GateStarts DEF Init, GateInv, Gate!Init, Gate!Caller

LEMMA AwayFromGate ==
  ASSUME GateInv, UNCHANGED gateVars \/ Gate!TimerFires, pc \notin AtGate, pc' \notin AtGate
  PROVE  GateInv'
<1>1. GateProofs!GateInv' /\ GateProofs!SessionInv'
  BY GateKept DEF GateMoves, GateInv
<1>2. UNCHANGED <<gateAt, writer>>
  BY DEF gateVars, Gate!TimerFires
<1> QED BY <1>1, <1>2 DEF GateInv, AtGate

LEMMA StaysAtGate ==
  ASSUME GateInv, UNCHANGED <<gateVars, cause>>, ~Open => ~Open',
         pc' = pc \/ {pc, pc'} \subseteq {"write", "publishing", "published"}
  PROVE  GateInv'
<1>1. GateProofs!GateInv' /\ GateProofs!SessionInv'
  BY GateKept DEF GateMoves, GateInv
<1>2. UNCHANGED <<gateAt, writer>> /\ Revised' = Revised
  BY DEF gateVars, Revised
<1>3. pc \in AtGate => pc' \in AtGate
  BY DEF AtGate
<1>4. (\A w \in Revision : gateAt[w] \in {"waiting", "resumed", "inside"} => pc \in AtGate /\ w = Revised)'
  BY <1>2, <1>3 DEF GateInv
<1>5. (pc \in {"write", "publishing", "published"} => gateAt[Revised] = "inside")'
  BY <1>2 DEF GateInv
<1>6. (pc = "waiting" => \/ gateAt[Revised] \in {"waiting", "resumed"}
                         \/ gateAt[Revised] = "rejected" /\ ~Open)'
  BY <1>2 DEF GateInv
<1>7. (writer => \E w \in Revision : gateAt[w] \in {"inside", "resumed"})'
  BY <1>2 DEF GateInv
<1> QED BY <1>1, <1>4, <1>5, <1>6, <1>7 DEF GateInv

\* The readers and close only let the run in, or turn it away.
LEMMA OthersAtGate ==
  ASSUME GateInv, UNCHANGED <<pc, cause>>, ~Open => ~Open',
         pc \in AtGate => Revised \in Revision,
         \/ \E r \in Reader : Gate!AcquireRead(r) \/ Gate!ResumeRead(r) \/ Gate!ReleaseRead(r)
         \/ Gate!Close /\ ~Open'
  PROVE  GateInv'
<1>0. GateProofs!GateInv /\ GateProofs!SessionInv
  BY DEF GateInv
<1>1. GateProofs!GateInv' /\ GateProofs!SessionInv'
  BY <1>0, GateKept DEF GateMoves
<1>2. Revised' = Revised
  BY DEF Revised
<1>3. \A w \in Revision : w \in GateProofs!Caller /\ w \notin Reader
  BY BoundsAssumption DEF GateProofs!Caller, Revision
<1>4. /\ \A w \in Revision : \/ gateAt'[w] = gateAt[w]
                             \/ gateAt[w] = "waiting" /\ gateAt'[w] = "resumed"
                             \/ gateAt[w] = "waiting" /\ gateAt'[w] = "rejected" /\ ~Open'
      /\ writer' => writer \/ \E w \in Revision : gateAt'[w] = "resumed"
  <2>1. ASSUME NEW r \in Reader, Gate!AcquireRead(r) \/ Gate!ResumeRead(r) \/ Gate!ReleaseRead(r)
        PROVE  /\ \A w \in Revision : \/ gateAt'[w] = gateAt[w]
                                      \/ gateAt[w] = "waiting" /\ gateAt'[w] = "resumed"
               /\ writer' => writer \/ \E w \in Revision : gateAt'[w] = "resumed"
    <3>1. GateProofs!AcquireRead(r) \/ GateProofs!ResumeRead(r) \/ GateProofs!ReleaseRead(r)
      BY <2>1, GateActions
    <3>2. /\ \A c \in GateProofs!Caller : c # r => GateProofs!Undisturbed(c)
          /\ writer' => writer \/ \E w \in Revision : gateAt'[w] = "resumed"
      BY <1>0, <3>1, GateCallers, GateProofs!ReaderEffect
    <3> QED BY <1>3, <3>2 DEF GateProofs!Undisturbed
  <2>2. ASSUME Gate!Close, ~Open'
        PROVE  /\ \A w \in Revision : \/ gateAt'[w] = gateAt[w]
                                      \/ gateAt[w] = "waiting" /\ gateAt'[w] = "rejected"
               /\ writer' = writer
    <3>1. GateProofs!Close
      BY <2>2, GateActions
    <3>2. /\ \A c \in GateProofs!Caller :
               gateAt'[c] = gateAt[c] \/ (gateAt[c] = "waiting" /\ gateAt'[c] = "rejected")
          /\ writer' = writer
      BY <1>0, <3>1, GateCallers, GateProofs!CloseEffect
    <3> QED BY <1>3, <3>2
  <2> QED BY <2>1, <2>2
<1>5. (\A w \in Revision : gateAt[w] \in {"waiting", "resumed", "inside"} => pc \in AtGate /\ w = Revised)'
  BY <1>2, <1>4 DEF GateInv
<1>6. (pc \in {"write", "publishing", "published"} => gateAt[Revised] = "inside")'
  BY <1>2, <1>4 DEF GateInv, AtGate
<1>7. (pc = "waiting" => \/ gateAt[Revised] \in {"waiting", "resumed"}
                         \/ gateAt[Revised] = "rejected" /\ ~Open)'
  BY <1>2, <1>4 DEF GateInv, AtGate
<1>8. (writer => \E w \in Revision : gateAt[w] \in {"inside", "resumed"})'
  BY <1>4 DEF GateInv
<1> QED BY <1>1, <1>5, <1>6, <1>7, <1>8 DEF GateInv

\* The run asks, is answered, or leaves: where it is at the gate is where #build is.
LEMMA RunAtGate ==
  ASSUME GateInv, NEW w \in Revision, w = Revised, gateClosed = ~Open, UNCHANGED <<cause, closing>>,
         \/ pc = "validate" /\ Gate!RunWrite(w) /\ pc' = GatePlace /\ Open
         \/ pc = "waiting" /\ Gate!ResumeWrite(w) /\ pc' = GatePlace
         \/ pc \in {"write", "publishing", "published"} /\ Gate!EndWrite(w) /\ pc' = "finish"
  PROVE  GateInv'
<1>0. GateProofs!GateInv /\ GateProofs!SessionInv
  BY DEF GateInv
<1>1. GateProofs!GateInv' /\ GateProofs!SessionInv'
  BY <1>0, GateKept DEF GateMoves
<1>2. Revised' = w /\ (Open' <=> Open)
  BY DEF Revised, Open
<1>3. \A v \in Revision : v \in GateProofs!Caller /\ v \notin Reader
  BY BoundsAssumption DEF GateProofs!Caller, Revision
<1>4. GateProofs!RunWrite(w) \/ GateProofs!ResumeWrite(w) \/ GateProofs!EndWrite(w)
  BY GateActions
<1>5. /\ \A c \in GateProofs!Caller : c # w => GateProofs!Undisturbed(c)
      /\ writer' => \/ writer /\ GateProofs!RunWrite(w)
                    \/ \E v \in Revision : gateAt'[v] \in {"inside", "resumed"}
      /\ GateProofs!RunWrite(w) =>
           /\ gateAt[w] = "out" /\ gateAt'[w] \in {"inside", "waiting", "rejected"}
           /\ ~gateClosed => gateAt'[w] # "rejected"
      /\ GateProofs!ResumeWrite(w) =>
           gateAt[w] = "resumed" /\ gateAt'[w] = IF gateClosed THEN "rejected" ELSE "inside"
      /\ GateProofs!EndWrite(w) => gateAt[w] = "inside" /\ gateAt'[w] = "done"
  BY <1>0, <1>4, GateCallers, GateProofs!WriterEffect
<1>6. \A v \in Revision : v # w => gateAt[v] \notin {"waiting", "resumed", "inside"}
  BY DEF GateInv
<1>7. \A v \in Revision : v # w => gateAt'[v] \notin {"waiting", "resumed", "inside"}
  BY <1>3, <1>5, <1>6 DEF GateProofs!Undisturbed
<1>8. writer => \E v \in Revision : gateAt[v] \in {"inside", "resumed"}
  BY DEF GateInv
<1>9. (writer => \E v \in Revision : gateAt[v] \in {"inside", "resumed"})'
  BY <1>5, <1>6, <1>8
<1>10. \/ gateAt'[w] = "inside" /\ pc' = "write"
       \/ gateAt'[w] = "waiting" /\ pc' = "waiting"
       \/ gateAt'[w] \in {"rejected", "done"} /\ pc' = "finish"
  <2>1. CASE Gate!RunWrite(w) \/ Gate!ResumeWrite(w)
    BY <2>1, <1>5, GateActions, GateAnswers
  <2>2. CASE Gate!EndWrite(w)
    BY <2>2, <1>5, GateActions
  <2> QED BY <2>1, <2>2
<1> QED BY <1>1, <1>2, <1>7, <1>9, <1>10 DEF GateInv, AtGate

LEMMA GateInvStep ==
  ASSUME TypeOK, PhaseInv, LoopInv, GateInv, Next
  PROVE  GateInv'
<1>a. Running => Revised \in Revision /\ Revised \in cause
  BY RevisedExecutes
<1>b. pc \in AtGate => Running
  BY DEF Running, Building
<1>c. \A i \in {"plan", "source", "info"} : Observe(i) => UNCHANGED cause
  BY DEF Observe, Loop!Ask
<1>d. Impact \in {"plan", "source", "info"} /\ gateClosed = ~Open
  BY DEF Impact, PhaseInv
<1> USE DEF Goto
<1>1. CASE StartSteps
  BY <1>1, AwayFromGate DEF StartSteps, Start, StartResolves, RecoveryAdmitted, Prepare,
     ExistingValidated, Announce, Begin, StartFails, AtGate
<1>2. CASE PlanSteps
  BY <1>2, AwayFromGate, PlanPlaces DEF PlanSteps, Register, Registering, Confirm, StartFails,
     PlanFails, BuildFails, HostRejects, AtGate
<1>3. CASE RunSteps
  <2>1. CASE WriterAnswered
    <3>1. pc = "waiting" /\ UNCHANGED <<cause, closing>> /\ pc' = GatePlace /\ Revised \in Revision
      BY <1>a, <1>b, <2>1 DEF WriterAnswered, loopVars, BuildKeeps, AtGate
    <3>2. CASE Gate!ResumeWrite(Revised)
      BY <1>d, <3>1, <3>2, RunAtGate
    <3>3. CASE gateAt[Revised] = "rejected" /\ UNCHANGED gateVars
      <4>1. pc' = "finish"
        BY <3>1, <3>3, GateAnswers DEF gateVars
      <4>2. GateProofs!GateInv' /\ GateProofs!SessionInv'
        BY <3>3, GateKept DEF GateMoves, GateInv
      <4>3. \A w \in Revision : gateAt'[w] \notin {"waiting", "resumed", "inside"}
        BY <3>3 DEF GateInv, gateVars
      <4>4. ~writer'
        BY <3>3, <4>3 DEF GateInv, gateVars
      <4> QED BY <4>1, <4>2, <4>3, <4>4 DEF GateInv
    <3> QED BY <2>1, <3>2, <3>3 DEF WriterAnswered
  <2>2. CASE Validated
    <3>1. pc = "validate" /\ UNCHANGED closing /\ Revised \in Revision
      BY <1>a, <2>2 DEF Validated, BuildKeeps, Running, Building
    <3>2. CASE Gate!RunWrite(Revised) /\ pc' = GatePlace /\ Open /\ UNCHANGED loopVars
      BY <1>d, <3>1, <3>2, RunAtGate DEF loopVars
    <3>3. CASE UNCHANGED gateVars /\ pc' = "finish"
      BY <3>1, <3>3, AwayFromGate DEF AtGate
    <3> QED BY <2>2, <3>2, <3>3 DEF Validated, BuildFails, HostRejects
  <2>3. CASE ~(WriterAnswered \/ Validated)
    BY <1>3, <2>3, AwayFromGate DEF RunSteps, RunBegins, Replan, VerifyPlan, AssertCurrent,
       Verify, Compile, BuildFails, HostRejects, AtGate, LoopInv, StateShape, Loop!RunBegins
  <2> QED BY <2>1, <2>2, <2>3
<1>4. CASE GateSteps
  <2>1. CASE Finish
    <3>1. pc = "finish" /\ pc' = "idle"
      BY <2>1 DEF Finish
    <3>2. \A w \in Revision : gateAt[w] \notin {"waiting", "resumed", "inside"}
      BY <3>1 DEF GateInv, AtGate
    <3>3. cause \in SUBSET Revision
      BY DEF LoopInv, CauseShape
    <3>4. /\ gateAt' = [c \in GateProofs!Caller |-> IF c \in cause THEN "done" ELSE gateAt[c]]
          /\ UNCHANGED <<readers, writer, gateClosed, readWaiters, writeWaiters, aborted, gateTimer>>
      BY <2>1, GateActions DEF Finish
    <3>5. GateProofs!GateInv' /\ GateProofs!SessionInv'
      BY <3>2, <3>3, <3>4, GateCallers, GateProofs!OverIsOver DEF GateInv, GateProofs!ActiveAt
    <3>6. \A w \in Revision : gateAt'[w] \notin {"waiting", "resumed", "inside"}
      BY <3>2, <3>4 DEF GateProofs!Caller
    <3>7. ~writer'
      BY <3>2, <3>4 DEF GateInv
    <3> QED BY <3>1, <3>5, <3>6, <3>7 DEF GateInv, AtGate
  <2>2. CASE ~Finish
    <3>1. pc \in {"write", "publishing", "published"} /\ UNCHANGED closing /\ Revised \in Revision
      BY <1>4, <1>a, <1>b, <2>2 DEF GateSteps, Write, Committed, RolledBack, Published, AtGate
    <3>2. UNCHANGED cause
      BY <1>4, <1>c, <1>d, <2>2 DEF GateSteps, Write, Committed, RolledBack, Published, Reconcile,
         loopVars
    <3>3. \/ Gate!EndWrite(Revised) /\ pc' = "finish"
          \/ UNCHANGED gateVars /\ pc' \in {"publishing", "published"}
      BY <1>4, <2>2 DEF GateSteps, Write, Committed, RolledBack, Published, LeaveGate,
         BuildFails, HostRejects
    <3>4. CASE Gate!EndWrite(Revised) /\ pc' = "finish"
      BY <1>d, <3>1, <3>2, <3>4, RunAtGate
    <3>5. CASE UNCHANGED gateVars /\ pc' \in {"publishing", "published"}
      BY <3>1, <3>2, <3>5, StaysAtGate DEF Open
    <3> QED BY <3>3, <3>4, <3>5
  <2> QED BY <2>1, <2>2
<1>5. CASE HostSteps
  <2>1. CASE Fire
    <3>1. pc = "idle" /\ pc' = pc
      BY <2>1, LoopFires DEF Fire
    <3> QED BY <2>1, <3>1, AwayFromGate DEF Fire, AtGate
  <2>2. CASE Close
    BY <1>a, <1>b, <2>2, OthersAtGate DEF Close, CloseKeeps, Open, loopVars
  <2>3. CASE ~(Fire \/ Close)
    <3>1. UNCHANGED <<pc, closing, gateVars>>
      BY <1>5, <2>3 DEF HostSteps, Edit, Poll, WatchError, Invalidate
    <3>2. UNCHANGED cause
      BY <1>5, <1>c, <1>d, <2>3 DEF HostSteps, Edit, Poll, WatchError, Invalidate, loopVars
    <3> QED BY <3>1, <3>2, StaysAtGate DEF Open
  <2> QED BY <2>1, <2>2, <2>3
<1>6. CASE ReadSteps
  <2>1. UNCHANGED <<pc, cause, closing>>
    BY <1>6 DEF ReadSteps, AcquireRead, ResumeRead, TakeLease, Release, ReaderKeeps, loopVars
  <2>2. UNCHANGED gateVars
        \/ \E r \in Reader : Gate!AcquireRead(r) \/ Gate!ResumeRead(r) \/ Gate!ReleaseRead(r)
    BY <1>6 DEF ReadSteps, AcquireRead, ResumeRead, TakeLease, Release
  <2> QED BY <1>a, <1>b, <2>1, <2>2, OthersAtGate, StaysAtGate DEF Open
<1>7. CASE CloseSteps
  <2>1. UNCHANGED <<pc, gateVars>> /\ closing # "no" /\ closing' # "no"
    BY <1>7 DEF CloseSteps, CloseLoop, LoopClosed, CloseEnds, CloseKeeps, AfterLoop
  <2>2. UNCHANGED cause
    BY <1>7 DEF CloseSteps, CloseLoop, LoopClosed, CloseEnds, Loop!Close, Loop!CloseReturns,
       loopVars
  <2> QED BY <2>1, <2>2, StaysAtGate DEF Open
<1> QED BY <1>1, <1>2, <1>3, <1>4, <1>5, <1>6, <1>7, AllSteps

-----------------------------------------------------------------------------
(* The public tree and its readers.                                        *)

LEMMA TreeStarts == Init => TreeInv
BY DEF Init, TreeInv, Gate!Init, Gate!Caller, Planning, Mixed, NoGeneration,
   ReaderSeesItsGeneration

\* A reader enters the gate only by asking, and leaves it only without a
\* generation.
LEMMA ReadersMeanwhile ==
  ASSUME TypeOK, PhaseInv, LoopInv, GateInv, Next, NEW r \in Reader
  PROVE  /\ gateAt[r] = "out" => gateAt'[r] = "out" \/ accepted # NoGeneration
         /\ gateAt[r] = "inside" => gateAt'[r] = "inside" \/ held'[r] = NoGeneration
<1>0. GateProofs!GateInv /\ GateProofs!SessionInv
  BY DEF GateInv
<1>a. pc \in AtGate \/ pc = "validate" => Revised \in Revision
  BY RevisedExecutes DEF Running, Building
<1>b. r \in GateProofs!Caller /\ r \notin Revision
  BY BoundsAssumption DEF GateProofs!Caller, Revision
<1>1. ASSUME NEW w \in Revision, Gate!RunWrite(w) \/ Gate!ResumeWrite(w) \/ Gate!EndWrite(w)
      PROVE  gateAt[r] \in {"out", "inside"} => gateAt'[r] = gateAt[r]
  <2>1. GateProofs!RunWrite(w) \/ GateProofs!ResumeWrite(w) \/ GateProofs!EndWrite(w)
    BY <1>1, GateActions
  <2>2. GateProofs!Undisturbed(r)
    BY <1>0, <1>b, <2>1, GateCallers, GateProofs!WriterEffect
  <2> QED BY <2>2 DEF GateProofs!Undisturbed
<1>2. Gate!Close => (gateAt[r] \in {"out", "inside"} => gateAt'[r] = gateAt[r])
  BY <1>0, <1>b, GateActions, GateCallers, GateProofs!CloseEffect
<1>3. UNCHANGED gateVars \/ Gate!TimerFires => gateAt' = gateAt
  BY DEF gateVars, Gate!TimerFires
<1>4. ASSUME NEW q \in Reader, q # r, Gate!AcquireRead(q) \/ Gate!ResumeRead(q) \/ Gate!ReleaseRead(q)
      PROVE  gateAt[r] \in {"out", "inside"} => gateAt'[r] = gateAt[r]
  <2>1. GateProofs!AcquireRead(q) \/ GateProofs!ResumeRead(q) \/ GateProofs!ReleaseRead(q)
    BY <1>4, GateActions
  <2>2. GateProofs!Undisturbed(r)
    BY <1>0, <1>b, <1>4, <2>1, GateCallers, GateProofs!ReaderEffect
  <2> QED BY <2>2 DEF GateProofs!Undisturbed
<1>5. CASE StartSteps \/ PlanSteps \/ CloseSteps
  BY <1>3, <1>5 DEF StartSteps, Start, StartResolves, RecoveryAdmitted, Prepare,
     ExistingValidated, Announce, Begin, PlanSteps, Register, Registering, Confirm, CloseSteps,
     CloseLoop, LoopClosed, CloseEnds
<1>6. CASE RunSteps
  BY <1>1, <1>3, <1>6, <1>a DEF RunSteps, RunBegins, Replan, VerifyPlan, AssertCurrent, Verify,
     Compile, Validated, WriterAnswered, AtGate
<1>7. CASE GateSteps
  <2>1. CASE Finish
    BY <1>b, <2>1, GateActions DEF Finish, LoopInv, CauseShape
  <2>2. CASE ~Finish
    BY <1>1, <1>3, <1>7, <1>a, <2>2 DEF GateSteps, Write, Committed, RolledBack, Published,
       LeaveGate, AtGate
  <2> QED BY <2>1, <2>2
<1>8. CASE HostSteps
  BY <1>2, <1>3, <1>8 DEF HostSteps, Fire, Edit, Poll, WatchError, Invalidate, Close
<1>9. CASE ReadSteps
  <2>1. PICK q \in Reader : AcquireRead(q) \/ ResumeRead(q) \/ TakeLease(q) \/ Release(q)
    BY <1>9 DEF ReadSteps
  <2>2. CASE q # r
    BY <1>3, <1>4, <2>1, <2>2 DEF AcquireRead, ResumeRead, TakeLease, Release
  <2>3. CASE AcquireRead(r) \/ ResumeRead(r)
    BY <2>3 DEF AcquireRead, ResumeRead, Gate!AcquireRead, Gate!ResumeRead
  <2>4. CASE TakeLease(r) \/ Release(r)
    BY <1>3, <2>4 DEF TakeLease, Release, TypeOK, Gate!ReleaseRead
  <2> QED BY <2>1, <2>2, <2>3, <2>4
<1> QED BY <1>5, <1>6, <1>7, <1>8, <1>9, AllSteps

\* While the run is inside, no reader is.
LEMMA NobodyReadsInside ==
  ASSUME TypeOK, LoopInv, GateInv, pc \in {"write", "publishing", "published"}
  PROVE  \A r \in Reader : gateAt[r] # "inside"
<1>1. Revised \in Revision
  BY RevisedExecutes DEF Running, Building, AtGate
<1>2. writer
  BY <1>1 DEF GateInv, GateProofs!GateInv, GateProofs!FlagIsHeld
<1> QED BY <1>2 DEF GateInv, GateProofs!SessionInv, GateProofs!FlagExcludes

\* Whoever has a generation after a step was inside before it.
LEMMA HeldInside ==
  ASSUME TypeOK, TreeInv, Next, NEW r \in Reader, held'[r] # NoGeneration
  PROVE  /\ gateAt[r] = "inside"
         /\ held'[r] = held[r] \/ (held'[r] = accepted /\ UNCHANGED <<tree, journal, pc>>)
<1>1. CASE UNCHANGED held
  BY <1>1 DEF TreeInv
<1>2. CASE ~UNCHANGED held
  <2>1. PICK q \in Reader : TakeLease(q) \/ Release(q)
    BY <1>2, AllSteps DEF StartSteps, Start, StartResolves, RecoveryAdmitted, Prepare,
       ExistingValidated, Announce, Begin, PlanSteps, Register, Registering, Confirm, RunSteps,
       RunBegins, Replan, VerifyPlan, AssertCurrent, Verify, Compile, Validated, WriterAnswered,
       BuildKeeps, GateSteps, Write, Committed, RolledBack, Published, Finish, HostSteps, Fire,
       Edit, Poll, WatchError, Invalidate, Close, Unmoved, CloseKeeps, ReadSteps, AcquireRead,
       ResumeRead, CloseSteps, CloseLoop, LoopClosed, CloseEnds
  <2> QED BY <2>1 DEF TakeLease, Release, ReaderKeeps, TreeInv, TypeOK, public
<1> QED BY <1>1, <1>2

\* The files move only in recovery and at the publication.
TreeSteps == RecoveryAdmitted \/ ExistingValidated \/ Write \/ Committed \/ RolledBack

LEMMA TreeStays ==
  ASSUME TypeOK, LoopInv, GateInv, Next, ~TreeSteps
  PROVE  UNCHANGED <<tree, journal, accepted>> /\ (pc' = "publishing" => pc = "publishing")
<1> USE DEF TreeSteps, public, Goto
<1>1. CASE StartSteps
  BY <1>1 DEF StartSteps, Start, StartResolves, Prepare, Announce, Begin, StartFails
<1>2. CASE PlanSteps
  BY <1>2, PlanPlaces DEF PlanSteps, Register, Registering, Confirm, PlanFails, StartFails,
     BuildFails, HostRejects
<1>3. CASE RunSteps
  BY <1>3, RunPlaces DEF RunSteps, RunBegins, Replan, VerifyPlan, AssertCurrent, Verify,
     Compile, Validated, WriterAnswered, BuildKeeps
<1>4. CASE GateSteps
  BY <1>4 DEF GateSteps, Published, Finish
<1>5. CASE HostSteps
  BY <1>5 DEF HostSteps, Fire, Edit, Poll, WatchError, Invalidate, Close, Unmoved, CloseKeeps
<1>6. CASE ReadSteps
  BY <1>6 DEF ReadSteps, AcquireRead, ResumeRead, TakeLease, Release, ReaderKeeps
<1>7. CASE CloseSteps
  BY <1>7 DEF CloseSteps, CloseLoop, LoopClosed, CloseEnds, CloseKeeps
<1> QED BY <1>1, <1>2, <1>3, <1>4, <1>5, <1>6, <1>7, AllSteps

LEMMA TreeStep ==
  ASSUME TypeOK, PhaseInv, LoopInv, GateInv, TreeInv, Next
  PROVE  TreeInv'
<1> USE DEF Goto
<1>a. /\ accepted \in Nat \cup {NoGeneration} /\ after \in {"recover", "startup", "build"} /\ NoGeneration = -1
  BY DEF TypeOK, NoGeneration
<1>b. accepted' = NoGeneration => accepted = NoGeneration
  <2>1. CASE TreeSteps
    BY <1>a, <2>1 DEF TreeSteps, RecoveryAdmitted, ExistingValidated, Write, Committed,
       RolledBack, StartFails, NextGeneration, public
  <2> QED BY <2>1, TreeStays
<1>1. (accepted = NoGeneration => \A r \in Reader : gateAt[r] = "out")'
  BY <1>b, ReadersMeanwhile DEF TreeInv
<1>2. (\A r \in Reader : held[r] # NoGeneration => gateAt[r] = "inside")'
  BY HeldInside, ReadersMeanwhile
<1>3. /\ (~journal => tree = IF accepted = NoGeneration THEN 0 ELSE accepted)'
      /\ (pc = "publishing" => journal)'
  <2>1. CASE RecoveryAdmitted \/ ExistingValidated
    BY <2>1 DEF RecoveryAdmitted, ExistingValidated, StartFails, PhaseInv, Running, Building,
       AtGate, Planning, TreeInv, NoGeneration, public
  <2>2. CASE Write
    BY <2>2 DEF Write, BuildFails, HostRejects, TreeInv
  <2>3. CASE Committed
    BY <1>a, <2>3 DEF Committed, NextGeneration
  <2>4. CASE RolledBack
    <3>1. /\ journal' => journal
          /\ ~journal' /\ journal => tree' = IF accepted = NoGeneration THEN 0 ELSE accepted
          /\ accepted' = accepted /\ pc = "publishing" /\ pc' = "finish"
      BY <2>4 DEF RolledBack, BuildFails, HostRejects
    <3> QED BY <3>1 DEF TreeInv
  <2>5. CASE ~TreeSteps
    BY <2>5, TreeStays DEF TreeInv
  <2> QED BY <2>1, <2>2, <2>3, <2>4, <2>5 DEF TreeSteps
<1>4. /\ (pc \in {"prepare", "existing", "begin"} => ~journal)'
      /\ (pc \in Planning /\ after = "startup" => ~journal)'
  <2> USE DEF TreeInv, Planning, public, planVars
  <2>1. CASE StartSteps
    BY <2>1 DEF StartSteps, Start, StartResolves, RecoveryAdmitted, Prepare, ExistingValidated,
       Announce, Begin, StartFails, StartupOver, LocalsGone
  <2>2. CASE PlanSteps
    BY <1>a, <2>2 DEF PlanSteps, Register, Registering, Confirm, PlanFails, StartFails,
       BuildFails, HostRejects, Replanned
  <2>3. CASE RunSteps
    BY <2>3, RunPlaces
  <2>4. CASE GateSteps
    BY <2>4 DEF GateSteps, Write, Committed, RolledBack, Published, Finish, BuildFails, HostRejects
  <2>5. CASE HostSteps
    BY <2>5 DEF HostSteps, Fire, Edit, Poll, WatchError, Invalidate, Close, Unmoved, CloseKeeps
  <2>6. CASE ReadSteps
    BY <2>6 DEF ReadSteps, AcquireRead, ResumeRead, TakeLease, Release, ReaderKeeps
  <2>7. CASE CloseSteps
    BY <2>7 DEF CloseSteps, CloseLoop, LoopClosed, CloseEnds, CloseKeeps
  <2> QED BY <2>1, <2>2, <2>3, <2>4, <2>5, <2>6, <2>7, AllSteps
<1>5. ReaderSeesItsGeneration'
  <2> SUFFICES ASSUME NEW r \in Reader, held'[r] # NoGeneration
               PROVE  tree' = held'[r] \/ (journal' /\ pc' # "publishing")
    BY DEF ReaderSeesItsGeneration, Refused
  <2>1. gateAt[r] = "inside" /\ accepted # NoGeneration
    BY HeldInside DEF TreeInv
  <2>2. pc \notin {"write", "publishing", "published"} /\ ready
    BY <2>1, NobodyReadsInside DEF PhaseInv
  <2>3. ~TreeSteps
    BY <2>2 DEF TreeSteps, RecoveryAdmitted, ExistingValidated, Write, Committed, RolledBack,
       PhaseInv, Running, Building, AtGate, Planning
  <2>4. UNCHANGED <<tree, journal>> /\ pc' # "publishing"
    BY <2>2, <2>3, TreeStays
  <2>5. held[r] # NoGeneration => tree = held[r] \/ journal
    BY DEF TreeInv, ReaderSeesItsGeneration, Refused
  <2>6. journal \/ tree = accepted
    BY <2>1 DEF TreeInv
  <2> QED BY <2>4, <2>5, <2>6, HeldInside
<1> QED BY <1>1, <1>2, <1>3, <1>4, <1>5 DEF TreeInv

-----------------------------------------------------------------------------
(* The inputs: what the watch compares lies between the plan in use and the *)
(* disk.                                                                   *)

LEMMA VersionStarts == Init => VersionInv
BY DEF Init, VersionInv, NoWatch

LEMMA VersionStep ==
  ASSUME TypeOK, PhaseInv, LoopInv, GateInv, VersionInv, Next
  PROVE  VersionInv'
<1>a. /\ disk.plan \in Nat /\ disk.source \in Nat /\ candidate \in Int /\ effective \in Int
      /\ watch.plan \in Int /\ watch.source \in Int /\ NoWatch.plan = -1 /\ NoWatch.source = -1
      /\ candidate >= -1
  BY BoundsAssumption DEF TypeOK, Inputs, NoWatch
<1>b. Open' => Open
  BY AllSteps DEF StartSteps, Start, StartResolves, RecoveryAdmitted, Prepare,
     ExistingValidated, Announce, Begin, PlanSteps, Register, Registering, Confirm, RunSteps,
     RunBegins, Replan, VerifyPlan, AssertCurrent, Verify, Compile, Validated, WriterAnswered,
     BuildKeeps, startVars, GateSteps, Write, Committed, RolledBack, Published, Finish,
     HostSteps, Fire, Edit, Poll, WatchError, Invalidate, Close, Unmoved, CloseKeeps, ReadSteps,
     AcquireRead, ResumeRead, TakeLease, Release, ReaderKeeps, CloseSteps, CloseLoop,
     LoopClosed, CloseEnds, Open, AfterLoop
<1>c. /\ UNCHANGED disk
      \/ disk' = [disk EXCEPT !.plan = @ + 1] \/ disk' = [disk EXCEPT !.source = @ + 1]
  <2>1. CASE Edit
    BY <2>1 DEF Edit
  <2>2. CASE ~Edit
    BY <2>2, AllSteps DEF StartSteps, Start, StartResolves, RecoveryAdmitted, Prepare,
       ExistingValidated, Announce, Begin, PlanSteps, Register, Registering, Confirm, RunSteps,
       RunBegins, Replan, VerifyPlan, AssertCurrent, Verify, Compile, Validated, WriterAnswered,
       BuildKeeps, GateSteps, Write, Committed, RolledBack, Published, Finish, HostSteps, Fire,
       Poll, WatchError, Invalidate, Close, Unmoved, CloseKeeps, ReadSteps, AcquireRead,
       ResumeRead, TakeLease, Release, ReaderKeeps, CloseSteps, CloseLoop, LoopClosed, CloseEnds
  <2> QED BY <2>1, <2>2
<1>d. /\ disk'.plan \in Nat /\ disk'.source \in Nat
      /\ disk'.plan >= disk.plan /\ disk'.source >= disk.source
  <2>1. \E i \in 0..1, j \in 0..1 : disk'.plan = disk.plan + i /\ disk'.source = disk.source + j
    <3>1. disk \in [plan : 0..MaxEvents, source : 0..MaxEvents]
      BY DEF TypeOK
    <3>2. CASE UNCHANGED disk
      BY <1>a, <3>2
    <3>3. CASE disk' = [disk EXCEPT !.plan = @ + 1]
      BY <1>a, <3>1, <3>3
    <3>4. CASE disk' = [disk EXCEPT !.source = @ + 1]
      BY <1>a, <3>1, <3>4
    <3> QED BY <1>c, <3>2, <3>3, <3>4
  <2> QED BY <1>a, <2>1
<1>1. CASE StartSteps \/ PlanSteps \/ RunSteps \/ GateSteps \/ HostSteps
  <2> USE DEF planVars, Goto, public, startVars
  <2>1. /\ watch' = watch \/ (watch' = disk /\ disk' = disk) \/ ~Open'
        /\ candidate' \in {candidate, disk.plan, -1}
        /\ effective' = effective \/ (pc = "confirm" /\ effective' = candidate /\ watch' = watch)
        /\ pc' = "confirm" => \/ watch' = disk /\ UNCHANGED <<disk, candidate>>
                              \/ pc = "confirm" /\ UNCHANGED <<watch, candidate>>
                              \/ ~Open'
    <3>1. CASE StartSteps
      BY <3>1 DEF StartSteps, Start, StartResolves, RecoveryAdmitted, Prepare,
         ExistingValidated, Announce, Begin, StartFails, StartupOver, LocalsGone
    <3>2. CASE PlanSteps
      BY <3>2, PlanPlaces DEF PlanSteps, Register, Registering, Confirm, PlanFails, StartFails,
         BuildFails, HostRejects
    <3>3. CASE RunSteps
      BY <3>3, RunPlaces DEF RunSteps, RunBegins, Replan, VerifyPlan, AssertCurrent, Verify,
         Compile, Validated, WriterAnswered, BuildFails, HostRejects, BuildKeeps, Reconcile
    <3>4. CASE GateSteps
      BY <3>4 DEF GateSteps, Write, Committed, RolledBack, Published, Finish,
         BuildFails, HostRejects,
         Reconcile, LocalsGone
    <3>5. CASE HostSteps
      BY <3>5 DEF HostSteps, Fire, Edit, Poll, WatchError, Invalidate, Close, Unmoved, CloseKeeps,
         Open
    <3> QED BY <1>1, <3>1, <3>2, <3>3, <3>4, <3>5
  <2> QED BY <1>a, <1>b, <1>d, <2>1 DEF VersionInv
<1>2. CASE ReadSteps
  BY <1>2 DEF ReadSteps, AcquireRead, ResumeRead, TakeLease, Release, ReaderKeeps, planVars,
     VersionInv, Open
<1>3. CASE CloseSteps
  BY <1>b, <1>3 DEF CloseSteps, CloseLoop, LoopClosed, CloseEnds, CloseKeeps, planVars,
     VersionInv, Open
<1> QED BY <1>1, <1>2, <1>3, AllSteps

-----------------------------------------------------------------------------
(* A newer revision supersedes the run until the run is over.              *)

LEMMA NewRevisions ==
  ASSUME TypeOK, LoopInv, NEW i \in {"plan", "source", "info"}, Observe(i)
  PROVE  /\ Running /\ Superseded => Superseded'
         /\ Running /\ i # "info" => Superseded'
         /\ Outstanding => Outstanding'
         /\ i # "info" => Outstanding'
<1>1. /\ impacts' = Append(impacts, i) /\ Len(impacts) \in Nat /\ Len(impacts') = Len(impacts) + 1
      /\ impacts'[Len(impacts) + 1] = i
      /\ \A r \in 1..Len(impacts) : impacts'[r] = impacts[r]
  BY DEF TypeOK, Observe
<1>2. /\ pending' = (IF hasPending THEN pending \cup {Len(impacts) + 1} ELSE {Len(impacts) + 1})
      /\ hasPending' = TRUE /\ UNCHANGED <<active, cause>>
  BY DEF Observe, Loop!Ask, Loop!Merged
<1>3. Revised' = Revised
  BY <1>2 DEF Revised
<1>4. Running => Revised \in Nat /\ Revised <= Len(impacts)
  BY RevisedExecutes DEF LoopInv, StateShape, CauseShape, Revision
<1>5. Running /\ Superseded => Superseded'
  BY <1>1, <1>3, <1>4 DEF Superseded
<1>6. Running /\ i # "info" => Superseded'
  BY <1>1, <1>3, <1>4 DEF Superseded
<1>7. hasPending => \A r \in pending : r \in 1..Len(impacts)
  BY DEF LoopInv, CauseShape, Revision
<1>8. active = "queued" => \A r \in cause : r \in 1..Len(impacts)
  BY DEF LoopInv, CauseShape, Revision
<1>9. Outstanding => Outstanding'
  BY <1>1, <1>2, <1>7, <1>8 DEF Outstanding
<1>10. i # "info" => Outstanding'
  BY <1>1, <1>2 DEF Outstanding
<1> QED BY <1>5, <1>6, <1>9, <1>10

LEMMA SameRevisions ==
  ASSUME UNCHANGED <<impacts, cause>>
  PROVE  Superseded' <=> Superseded
BY DEF Superseded, Revised

-----------------------------------------------------------------------------
(* What is compiled is what the watch compares.                            *)

LEMMA FreshStarts == Init => FreshInv
BY DEF Init, FreshInv

LEMMA FreshStep ==
  ASSUME TypeOK, PhaseInv, LoopInv, GateInv, VersionInv, FreshInv, Next
  PROVE  FreshInv'
<1> DEFINE Compiled == {"validate", "waiting", "write"}
           Checked == {"assert", "compile"} \cup Compiled
<1>a. /\ disk.plan \in Nat /\ disk.source \in Nat /\ effective \in Int
      /\ watch.plan \in Int /\ watch.source \in Int /\ read.plan \in Int /\ read.source \in Int
  BY BoundsAssumption DEF TypeOK, Inputs
<1>b. Impact \in {"plan", "source", "info"} /\ Impact # "info"
  BY DEF Impact
<1> USE DEF Goto, planVars, startVars, public
<1> SUFFICES ASSUME Open', pc' \in Checked
             PROVE  PlanIsCurrent' /\ (pc' \in Compiled =>
                      read'.plan = effective' /\ read'.source <= disk'.source /\ SourceIsCurrent')
  BY DEF FreshInv
<1>1. CASE RunSteps
  <2>1. UNCHANGED <<disk, effective, closing>> /\ Open
    BY <1>1 DEF RunSteps, RunBegins, Replan, VerifyPlan, AssertCurrent, Verify, Compile,
       Validated, WriterAnswered, BuildFails, HostRejects, BuildKeeps, Open
  <2>2. VerifyPlan \/ AssertCurrent \/ Compile \/ Validated \/ WriterAnswered
    BY <1>1 DEF RunSteps, RunBegins, Replan, VerifyPlan, AssertCurrent, Verify, Compile,
       Validated, WriterAnswered, BuildFails, HostRejects, BuildKeeps
  <2>3. UNCHANGED <<impacts, cause, watch>>
    BY <1>1, <2>1 DEF RunSteps, RunBegins, Replan, VerifyPlan, AssertCurrent, Verify, Compile,
       Validated, WriterAnswered, BuildFails, HostRejects, BuildKeeps, loopVars
  <2>4. CASE VerifyPlan
    <3>1. pc' \in {"assert", "finish"}
      BY <2>1, <2>4 DEF VerifyPlan, Verify, BuildFails, HostRejects
    <3>2. pc' = "assert" /\ disk.plan = effective
      BY <2>1, <2>4, <3>1 DEF VerifyPlan, Verify, BuildFails, HostRejects
    <3>3. watch.plan = effective
      BY <1>a, <2>1, <3>2 DEF VersionInv
    <3> QED BY <2>1, <2>3, <3>2, <3>3 DEF PlanIsCurrent
  <2>5. CASE AssertCurrent
    <3>1. pc' \in {"compile", "finish"}
      BY <2>1, <2>5 DEF AssertCurrent, Verify, BuildFails, HostRejects
    <3>2. pc' = "compile" /\ disk.plan = effective
      BY <2>1, <2>5, <3>1 DEF AssertCurrent, Verify, BuildFails, HostRejects
    <3>3. watch.plan = effective
      BY <1>a, <2>1, <3>2 DEF VersionInv
    <3> QED BY <2>1, <2>3, <3>2, <3>3 DEF PlanIsCurrent
  <2>6. CASE Compile
    <3>1. pc = "compile" /\ pc' = "validate" /\ read' = [plan |-> effective, source |-> disk.source]
      BY <2>1, <2>6 DEF Compile, BuildFails, HostRejects
    <3> QED BY <1>a, <2>1, <2>3, <3>1, SameRevisions DEF FreshInv, VersionInv, PlanIsCurrent,
               SourceIsCurrent
  <2>7. CASE Validated \/ WriterAnswered
    <3>1. pc \in {"validate", "waiting"} /\ UNCHANGED read
      BY <2>7 DEF Validated, WriterAnswered
    <3> QED BY <1>a, <2>1, <2>3, <3>1, SameRevisions DEF FreshInv, PlanIsCurrent, SourceIsCurrent
  <2> QED BY <2>2, <2>4, <2>5, <2>6, <2>7
<1>2. CASE HostSteps \/ ReadSteps
  <2>1. UNCHANGED <<pc, effective, read>> /\ Open /\ Running /\ ready
    BY <1>2 DEF HostSteps, Fire, Edit, Poll, WatchError, Invalidate, Close, Unmoved, CloseKeeps,
       ReadSteps, AcquireRead, ResumeRead, TakeLease, Release, ReaderKeeps, Open, Running,
       Building, AtGate, PhaseInv
  <2>2. disk'.source >= disk.source /\ disk'.source \in Int
    <3>1. CASE Edit
      <4>1. disk' = [disk EXCEPT !.plan = @ + 1] \/ disk' = [disk EXCEPT !.source = @ + 1]
        BY <3>1 DEF Edit
      <4> QED BY <1>a, <4>1 DEF TypeOK
    <3>2. CASE ~Edit
      BY <1>2, <1>a, <3>2 DEF HostSteps, Fire, Poll, WatchError, Invalidate, Close, Unmoved,
         CloseKeeps, ReadSteps, AcquireRead, ResumeRead, TakeLease, Release, ReaderKeeps
    <3> QED BY <3>1, <3>2
  <2>3. CASE UNCHANGED <<watch, impacts, cause>>
    BY <1>a, <2>1, <2>2, <2>3, SameRevisions DEF FreshInv, PlanIsCurrent, SourceIsCurrent
  <2>4. CASE \E i \in {"plan", "source", "info"} : Observe(i) /\ UNCHANGED <<watch, cause>>
    BY <1>a, <2>1, <2>2, <2>4, NewRevisions DEF FreshInv, PlanIsCurrent, SourceIsCurrent
  <2>5. CASE Poll
    <3>1. Observe(Impact) /\ UNCHANGED disk
      BY <2>1, <2>5 DEF Poll
    <3>2. Superseded'
      BY <1>b, <2>1, <3>1, NewRevisions
    <3> QED BY <1>a, <2>1, <3>1, <3>2 DEF FreshInv, PlanIsCurrent, SourceIsCurrent
  <2>6. UNCHANGED <<watch, impacts, cause>> \/ Poll
        \/ \E i \in {"plan", "source", "info"} : Observe(i) /\ UNCHANGED <<watch, cause>>
    <3>1. \A i \in {"plan", "source", "info"} : Observe(i) => UNCHANGED cause
      BY DEF Observe, Loop!Ask
    <3>2. ~Fire /\ ~Close
      <4>1. ~Fire
        BY <2>1, LoopFires DEF Running, Building, AtGate, Planning
      <4> QED BY <4>1 DEF Close, Open
    <3> QED BY <1>2, <3>1, <3>2 DEF HostSteps, Fire, Edit, Poll, WatchError, Invalidate, Close,
               Unmoved, CloseKeeps, ReadSteps, AcquireRead, ResumeRead, TakeLease, Release,
               ReaderKeeps, loopVars
  <2> QED BY <2>3, <2>4, <2>5, <2>6
<1>3. CASE StartSteps \/ PlanSteps \/ GateSteps
  BY <1>3, PlanPlaces DEF StartSteps, Start, StartResolves, RecoveryAdmitted, Prepare,
     ExistingValidated, Announce, Begin, StartFails, PlanSteps, Register, Registering, Confirm,
     PlanFails, BuildFails, HostRejects, GateSteps, Write, Committed, RolledBack, Published, Finish
<1>4. ~CloseSteps
  BY DEF CloseSteps, CloseLoop, LoopClosed, CloseEnds, AfterLoop, Open
<1> QED BY <1>1, <1>2, <1>3, <1>4, AllSteps

-----------------------------------------------------------------------------
(* What a session at rest says.                                            *)

\* Two comparisons with the same versions are the same.
LEMMA SameInputs ==
  ASSUME NEW a \in Inputs, NEW b \in Inputs, a.plan = b.plan, a.source = b.source
  PROVE  a = b
BY DEF Inputs

\* What supersedes a run waits for the next one.
LEMMA SupersededIsOutstanding ==
  ASSUME TypeOK, LoopInv, CloseInv, Open, Running, Superseded
  PROVE  Outstanding
<1>1. active = "executing" /\ loopState # "closed"
  BY DEF LoopInv, StateShape, CloseInv, Open
<1>2. Revised \in Revision /\ Len(impacts) \in Nat
  BY RevisedExecutes DEF TypeOK
<1>3. PICK r \in Revised + 1 .. Len(impacts) : impacts[r] # "info"
  BY DEF Superseded
<1>4. r \in 1..Len(impacts) /\ r > Revised
  BY <1>2, <1>3 DEF Revision
<1>5. hasPending /\ r \in pending
  BY <1>1, <1>4 DEF LoopInv, CauseShape
<1> QED BY <1>3, <1>5 DEF Outstanding

\* The first request of the session wants a build.
LEMMA FirstIsOutstanding ==
  ASSUME TypeOK, PhaseInv, LoopInv, Open', Announce \/ Begin
  PROVE  Outstanding'
<1>1. Open /\ Loop!Ask(1)
  BY DEF Announce, Begin, Open
<1>2. hasPending' /\ 1 \in pending'
  BY <1>1 DEF Loop!Ask, Loop!Merged
<1>3. impacts'[1] = "source"
  BY <1>1 DEF Announce, Begin, LoopInv, CauseShape
<1> QED BY <1>2, <1>3 DEF Outstanding

\* It goes on to wait until a run begins that builds it.
LEMMA OutstandingStays ==
  ASSUME TypeOK, PhaseInv, LoopInv, Open', Outstanding, Next
  PROVE  Outstanding' \/ (RunBegins /\ kind' = "building" /\ pc' # "finish")
<1>0. Open
  BY DEF Open, Next, Jobbed, Work, Start, StartResolves, RecoveryAdmitted, Prepare,
     ExistingValidated, Announce, Begin, Register, Registering, Confirm, RunBegins, Replan,
     VerifyPlan, AssertCurrent, Verify, Compile, Validated, WriterAnswered, Write, Committed,
     RolledBack, Published, Finish, BuildKeeps, CloseLoop, LoopClosed, CloseEnds, AfterLoop,
     ResumeRead, TakeLease, ReaderKeeps, Fire, Edit, Poll, WatchError, Invalidate, Close,
     AcquireRead, Release
<1>1. CASE UNCHANGED <<impacts, loopVars>>
  BY <1>1 DEF Outstanding, loopVars
<1>2. CASE \E i \in {"plan", "source", "info"} : Observe(i)
  BY <1>2, NewRevisions
<1>3. CASE Announce \/ Begin
  BY <1>3, FirstIsOutstanding
<1>4. CASE Fire
  <2>1. /\ UNCHANGED impacts /\ cause' = pending /\ active' = "queued" /\ active # "queued"
    BY <1>4, LoopFires DEF Fire, Loop!Fire, LoopInv, StateShape
  <2> QED BY <2>1 DEF Outstanding
<1>5. CASE RunBegins
  <2>1. UNCHANGED <<impacts, pending, hasPending, cause>> /\ active' # "queued"
    BY <1>5 DEF RunBegins, Loop!RunBegins
  <2>2. CASE \A r \in cause : impacts[r] = "info"
    BY <2>1, <2>2 DEF Outstanding
  <2>3. CASE ~\A r \in cause : impacts[r] = "info"
    BY <1>0, <1>5, <2>3 DEF RunBegins, Goto
  <2> QED BY <2>2, <2>3
<1>6. CASE Finish
  <2>1. active = "executing" /\ hasPending
    BY <1>6 DEF Finish, LoopInv, StateShape, Running, Building, Outstanding
  <2>2. /\ \E r \in pending : impacts[r] # "info"
        /\ \A r \in pending : r \in 1..Len(impacts) /\ r \notin cause
    BY <2>1 DEF Outstanding, LoopInv, CauseShape, Revision
  <2>3. /\ UNCHANGED <<pending, hasPending>>
        /\ impacts' = [r \in 1..Len(impacts) |-> IF r \in cause THEN "info" ELSE impacts[r]]
    BY <1>6 DEF Finish, Loop!RunEnds
  <2>4. \A r \in pending : impacts'[r] = impacts[r]
    BY <2>2, <2>3
  <2>5. PICK r \in pending : impacts[r] # "info"
    BY <2>2
  <2>6. r \in pending' /\ impacts'[r] # "info" /\ hasPending'
    BY <2>1, <2>3, <2>4, <2>5
  <2>7. \E x \in pending' : impacts'[x] # "info"
    BY <2>6
  <2> QED BY <2>6, <2>7 DEF Outstanding
<1>7. CASE ExistingValidated
  <2>1. ~ready /\ pc = "existing"
    BY <1>7 DEF ExistingValidated, PhaseInv, Running, Building, AtGate, Planning
  <2> QED BY <2>1 DEF Outstanding, LoopInv, StateShape
<1>8. ASSUME ~(Announce \/ Begin \/ Fire \/ RunBegins \/ Finish \/ ExistingValidated)
      PROVE  \/ UNCHANGED <<impacts, loopVars>>
             \/ \E i \in {"plan", "source", "info"} : Observe(i)
  <2>0. Impact \in {"plan", "source", "info"}
    BY DEF Impact
  <2>1. CASE StartSteps
    BY <1>8, <2>1 DEF StartSteps, Start, StartResolves, RecoveryAdmitted, Prepare
  <2>2. CASE PlanSteps
    BY <2>2 DEF PlanSteps, Register, Registering, Confirm
  <2>3. CASE RunSteps
    <3>1. CASE Replan \/ Compile \/ WriterAnswered
      BY <3>1 DEF Replan, Compile, WriterAnswered, BuildKeeps
    <3>2. CASE VerifyPlan \/ AssertCurrent
      BY <3>2 DEF VerifyPlan, AssertCurrent, Verify
    <3>3. CASE Validated
      <4>1. UNCHANGED <<impacts, loopVars>> \/ Reconcile
        BY <3>3 DEF Validated
      <4> QED BY <2>0, <4>1 DEF Reconcile
    <3> QED BY <1>8, <2>3, <3>1, <3>2, <3>3 DEF RunSteps
  <2>4. CASE GateSteps
    BY <1>8, <2>0, <2>4 DEF GateSteps, Write, Committed, RolledBack, Published, Reconcile
  <2>5. CASE HostSteps
    BY <1>8, <2>0, <2>5 DEF HostSteps, Edit, Poll, WatchError, Invalidate, Close, CloseKeeps
  <2>6. CASE ReadSteps
    BY <2>6 DEF ReadSteps, AcquireRead, ResumeRead, TakeLease, Release, ReaderKeeps
  <2>7. CASE CloseSteps
    BY <2>7 DEF CloseSteps, CloseLoop, LoopClosed, CloseEnds, AfterLoop, Open
  <2> QED BY <2>1, <2>2, <2>3, <2>4, <2>5, <2>6, <2>7, AllSteps
<1> QED BY <1>1, <1>2, <1>3, <1>4, <1>5, <1>6, <1>7, <1>8

LEMMA RestStarts == Init => RestInv
BY DEF Init, RestInv, Running, Building, AtGate, Planning

\* Once open means it was open.
LEMMA WasOpen == Next /\ Open' => Open /\ ~CloseSteps /\ ~Close
BY AllSteps DEF Open, StartSteps, Start, StartResolves, RecoveryAdmitted, Prepare,
   ExistingValidated, Announce, Begin, PlanSteps, Register, Registering, Confirm, RunSteps,
   RunBegins, Replan, VerifyPlan, AssertCurrent, Verify, Compile, Validated, WriterAnswered,
   BuildKeeps, GateSteps, Write, Committed, RolledBack, Published, Finish, HostSteps, Fire,
   Edit, Poll, WatchError, Invalidate, Close, ReadSteps, AcquireRead, ResumeRead, TakeLease,
   Release, ReaderKeeps, CloseSteps, CloseLoop, LoopClosed, CloseEnds, AfterLoop

\* The comparison inside the gate: what was compiled is what the watch compares.
LEMMA WriteIsCurrent ==
  ASSUME TypeOK, FreshInv, Open, pc = "write", NothingNewer
  PROVE  read = watch /\ read = disk
<1>1. read.plan = effective /\ watch.plan = effective /\ watch.source <= read.source
      /\ read.source <= disk.source /\ watch = disk
  BY DEF FreshInv, PlanIsCurrent, SourceIsCurrent, NothingNewer
<1>2. read.source \in Int /\ disk.source \in Int /\ read \in Inputs /\ watch \in Inputs
  BY DEF TypeOK, Inputs
<1>3. read = watch
  BY <1>1, <1>2, SameInputs
<1> QED BY <1>1, <1>3

LEMMA PublishingStep ==
  ASSUME TypeOK, PhaseInv, LoopInv, GateInv, FreshInv, RestInv, Next, Open', pc' = "publishing"
  PROVE  (read = watch \/ Outstanding)'
<1>0. Open /\ ~CloseSteps /\ ~Close
  BY WasOpen
<1> USE DEF Goto
<1>1. CASE Write
  <2>1. NothingNewer /\ UNCHANGED <<watch, read>> /\ pc = "write"
    BY <1>1 DEF Write, BuildFails, HostRejects
  <2> QED BY <1>0, <2>1, WriteIsCurrent
<1>2. CASE HostSteps \/ ReadSteps
  <2>1. pc = "publishing" /\ UNCHANGED read /\ ready
    BY <1>2 DEF HostSteps, Fire, Edit, Poll, WatchError, Invalidate, Close, Unmoved, CloseKeeps,
       ReadSteps, AcquireRead, ResumeRead, TakeLease, Release, ReaderKeeps, PhaseInv, Running,
       Building, AtGate
  <2>2. read = watch \/ Outstanding
    BY <1>0, <2>1 DEF RestInv
  <2>3. Outstanding => Outstanding'
    BY <2>1, OutstandingStays DEF RunBegins, Loop!RunBegins, LoopInv, StateShape, Running,
       Building, AtGate
  <2>4. CASE Poll
    <3>1. Observe(Impact) /\ Impact \in {"plan", "source", "info"} /\ Impact # "info"
      BY <2>1, <2>4 DEF Poll, Impact
    <3> QED BY <3>1, NewRevisions
  <2>5. CASE ~Poll
    <3>1. UNCHANGED watch
      BY <1>0, <1>2, <2>5 DEF HostSteps, Fire, Edit, WatchError, Invalidate, Unmoved, ReadSteps,
         AcquireRead, ResumeRead, TakeLease, Release, ReaderKeeps
    <3> QED BY <2>1, <2>2, <2>3, <3>1
  <2> QED BY <2>4, <2>5
<1>3. CASE StartSteps \/ PlanSteps \/ RunSteps
  BY <1>3, PlanPlaces, RunPlaces DEF StartSteps, Start, StartResolves, RecoveryAdmitted,
     Prepare, ExistingValidated, Announce, Begin, StartFails, PlanSteps, Register, Registering,
     Confirm, PlanFails, BuildFails, HostRejects
<1>4. CASE GateSteps /\ ~Write
  BY <1>4 DEF GateSteps, Committed, RolledBack, Published, Finish, BuildFails, HostRejects
<1> QED BY <1>0, <1>1, <1>2, <1>3, <1>4, AllSteps

\* While a run is at work the session says so.
LEMMA RunningStep ==
  ASSUME TypeOK, PhaseInv, LoopInv, GateInv, RestInv, Next, Open', Running', pc' \notin {"published", "finish"}
  PROVE  kind' # "ready"
<1>0. Open /\ ~CloseSteps /\ ~Close
  BY WasOpen
<1> USE DEF Goto, FailedKind
<1>1. CASE StartSteps
  BY <1>1 DEF StartSteps, Start, StartResolves, RecoveryAdmitted, Prepare, ExistingValidated,
     Announce, Begin, StartFails, Running, Building, AtGate, Planning, PhaseInv, planVars
<1>2. CASE PlanSteps
  <2>1. CASE after = "build"
    <3>1. pc \in Planning /\ kind # "ready"
      BY <1>0, <1>2, <2>1 DEF PlanSteps, Register, Registering, Confirm, Planning, Running,
         RestInv, PhaseInv
    <3> QED BY <1>2, <3>1 DEF PlanSteps, Register, Registering, Confirm, PlanFails, StartFails,
               BuildFails, HostRejects
  <2>2. CASE after # "build"
    <3>1. pc \in Planning /\ ~ready
      BY <1>2, <2>2 DEF PlanSteps, Register, Registering, Confirm, Planning, Running, PhaseInv,
         Building, AtGate
    <3> QED BY <1>2, <2>2, <3>1 DEF PlanSteps, Register, Registering, Confirm, PlanFails,
               StartFails, PhaseInv
  <2> QED BY <2>1, <2>2
<1>3. CASE RunSteps
  <2>1. CASE RunBegins
    BY <1>0, <2>1 DEF RunBegins
  <2>2. CASE ~RunBegins
    <3>1. Running /\ pc \notin {"published", "finish"}
      BY <1>3, <2>2 DEF RunSteps, Replan, VerifyPlan, AssertCurrent, Verify, Compile, Validated,
         WriterAnswered, Running, Building, AtGate
    <3>2. kind # "ready"
      BY <1>0, <3>1 DEF RestInv
    <3> QED BY <1>3, <2>2, <3>2 DEF RunSteps, Replan, VerifyPlan, AssertCurrent, Verify,
               Compile, Validated, WriterAnswered, BuildFails, HostRejects
  <2> QED BY <2>1, <2>2
<1>4. CASE GateSteps
  <2>1. CASE Write
    <3>1. kind # "ready"
      BY <1>0, <2>1 DEF Write, RestInv, Running, Building, AtGate
    <3> QED BY <2>1, <3>1 DEF Write, BuildFails, HostRejects
  <2>2. CASE ~Write
    BY <1>4, <2>2 DEF GateSteps, Committed, RolledBack, Published, Finish,
       BuildFails, HostRejects, Running,
       Building, AtGate, Planning
  <2> QED BY <2>1, <2>2
<1>5. CASE HostSteps \/ ReadSteps
  <2>1. UNCHANGED <<pc, after>>
    BY <1>0, <1>5 DEF HostSteps, Fire, Edit, Poll, WatchError, Invalidate, Unmoved, planVars,
       ReadSteps, AcquireRead, ResumeRead, TakeLease, Release, ReaderKeeps
  <2>2. kind # "ready"
    BY <1>0, <2>1 DEF RestInv, Running
  <2> QED BY <1>0, <1>5, <2>2 DEF HostSteps, Fire, Edit, Poll, WatchError, Invalidate,
             ReadSteps, AcquireRead, ResumeRead, TakeLease, Release, ReaderKeeps
<1> QED BY <1>0, <1>1, <1>2, <1>3, <1>4, <1>5, AllSteps

\* Ready is said of the tree of the last comparison, or a build is to come.
LEMMA ReadyStep ==
  ASSUME TypeOK, PhaseInv, LoopInv, GateInv, RestInv, Next, Open', kind' = "ready"
  PROVE  (built = watch \/ Outstanding \/ pc = "announce")'
<1>0. Open /\ ~CloseSteps /\ ~Close
  BY WasOpen
<1> USE DEF Goto, FailedKind
<1>1. CASE Committed
  <2>1. UNCHANGED <<watch, impacts, loopVars>> /\ built' = read /\ pc = "publishing"
    BY <1>1 DEF Committed
  <2>2. Outstanding => Outstanding'
    BY <2>1 DEF Outstanding, loopVars
  <2> QED BY <1>0, <2>1, <2>2 DEF RestInv
<1>2. CASE ExistingValidated
  BY <1>0, <1>2 DEF ExistingValidated, StartFails
<1>3. CASE Announce \/ Begin
  BY <1>3, FirstIsOutstanding
<1>4. ASSUME ~(Committed \/ ExistingValidated \/ Announce \/ Begin)
      PROVE  (built = watch \/ Outstanding \/ pc = "announce")'
  <2>1. kind = "ready" /\ UNCHANGED built
    <3>1. CASE StartSteps
      BY <1>0, <1>4, <3>1 DEF StartSteps, Start, StartResolves, RecoveryAdmitted, Prepare,
         StartFails, public
    <3>2. CASE PlanSteps
      BY <1>0, <3>2 DEF PlanSteps, Register, Registering, Confirm, PlanFails, StartFails,
         BuildFails, HostRejects, public
    <3>3. CASE RunSteps
      BY <1>0, <3>3 DEF RunSteps, RunBegins, Replan, VerifyPlan, AssertCurrent, Verify, Compile,
         Validated, WriterAnswered, BuildFails, HostRejects, BuildKeeps, public
    <3>4. CASE GateSteps
      BY <1>0, <1>4, <3>4 DEF GateSteps, Write, RolledBack, Published, Finish,
         BuildFails, HostRejects, public
    <3>5. CASE HostSteps \/ ReadSteps
      BY <1>0, <3>5 DEF HostSteps, Fire, Edit, Poll, WatchError, Invalidate, Unmoved, ReadSteps,
         AcquireRead, ResumeRead, TakeLease, Release, ReaderKeeps, public
    <3> QED BY <1>0, <3>1, <3>2, <3>3, <3>4, <3>5, AllSteps
  <2>2. ready /\ ~(Running /\ pc \notin {"published", "finish"})
    BY <1>0, <2>1 DEF PhaseInv, RestInv
  <2>3. CASE pc = "announce"
    <3>1. ~StartSteps /\ ~PlanSteps /\ ~RunSteps /\ ~GateSteps
      BY <1>4, <2>3 DEF StartSteps, Start, StartResolves, RecoveryAdmitted, Prepare, PlanSteps,
         Register, Registering, Confirm, RunSteps, RunBegins, Loop!RunBegins, LoopInv,
         StateShape, Replan, VerifyPlan, AssertCurrent, Verify, Compile, Validated,
         WriterAnswered, GateSteps, Write, RolledBack, Published, Finish
    <3>2. UNCHANGED pc
      BY <1>0, <3>1, AllSteps DEF HostSteps, Fire, Edit, Poll, WatchError, Invalidate,
         ReadSteps, AcquireRead, ResumeRead, TakeLease, Release, ReaderKeeps
    <3> QED BY <2>3, <3>2
  <2>4. CASE pc # "announce"
    <3>1. built = watch \/ Outstanding
      BY <1>0, <2>1, <2>4 DEF RestInv
    <3>2. Outstanding => Outstanding'
      BY OutstandingStays
    <3>3. CASE Poll
      <4>1. Observe(Impact) /\ Impact \in {"plan", "source", "info"} /\ Impact # "info"
        BY <2>2, <3>3 DEF Poll, Impact
      <4> QED BY <4>1, NewRevisions
    <3>4. CASE ~Poll
      <4>1. pc \notin {"register", "registering", "confirm", "validate", "write", "admit"}
        BY <2>2 DEF PhaseInv, Running, Building, AtGate, Planning
      <4>2. UNCHANGED watch
        <5>1. CASE StartSteps
          BY <1>4, <4>1, <5>1 DEF StartSteps, Start, StartResolves, RecoveryAdmitted, Prepare,
             StartFails
        <5>2. CASE PlanSteps
          BY <4>1, <5>2 DEF PlanSteps, Register, Registering, Confirm
        <5>3. CASE RunSteps
          BY <4>1, <5>3 DEF RunSteps, RunBegins, Replan, VerifyPlan, AssertCurrent, Verify,
             Compile, Validated, WriterAnswered
        <5>4. CASE GateSteps
          BY <1>4, <4>1, <5>4 DEF GateSteps, Write, RolledBack, Published, Finish
        <5>5. CASE HostSteps \/ ReadSteps
          BY <1>0, <3>4, <5>5 DEF HostSteps, Fire, Edit, WatchError, Invalidate, ReadSteps,
             AcquireRead, ResumeRead, TakeLease, Release, ReaderKeeps
        <5> QED BY <1>0, <5>1, <5>2, <5>3, <5>4, <5>5, AllSteps
      <4> QED BY <2>1, <3>1, <3>2, <4>2
    <3> QED BY <3>3, <3>4
  <2> QED BY <2>3, <2>4
<1> QED BY <1>1, <1>2, <1>3, <1>4

\* A generation that is announced is ready.
LEMMA PublishedStep ==
  ASSUME TypeOK, LoopInv, GateInv, RestInv, Next, Open', pc' = "published"
  PROVE  kind' = "ready"
<1>0. Open /\ ~CloseSteps /\ ~Close
  BY WasOpen
<1> USE DEF Goto
<1>1. CASE StartSteps \/ PlanSteps \/ RunSteps
  BY <1>1, PlanPlaces, RunPlaces DEF StartSteps, Start, StartResolves, RecoveryAdmitted,
     Prepare, ExistingValidated, Announce, Begin, StartFails, PlanSteps, Register, Registering,
     Confirm, PlanFails, BuildFails, HostRejects
<1>2. CASE GateSteps
  BY <1>2 DEF GateSteps, Write, Committed, RolledBack, Published, Finish, BuildFails, HostRejects
<1>3. CASE HostSteps \/ ReadSteps
  <2>1. pc = "published" /\ UNCHANGED kind
    BY <1>0, <1>3 DEF HostSteps, Fire, Edit, Poll, WatchError, Invalidate, Emitting, ReadSteps,
       AcquireRead, ResumeRead, TakeLease, Release, ReaderKeeps
  <2> QED BY <1>0, <2>1 DEF RestInv
<1> QED BY <1>0, <1>1, <1>2, <1>3, AllSteps

\* An open gate rejects nobody.
LEMMA GateAdmits ==
  ASSUME TypeOK, PhaseInv, LoopInv, GateInv, Open, Validated \/ WriterAnswered, pc' = "finish"
  PROVE  \/ ~NothingNewer /\ Reconcile
         \/ (BuildFails \/ HostRejects) /\ UNCHANGED <<impacts, loopVars>>
<1>1. Revised \in Revision
  BY RevisedExecutes DEF Validated, WriterAnswered, Running, Building, AtGate
<1>2. GateProofs!GateInv /\ GateProofs!SessionInv /\ ~gateClosed
  BY DEF GateInv, PhaseInv
<1>3. ~(Gate!RunWrite(Revised) /\ Goto(GatePlace)) /\ ~(Gate!ResumeWrite(Revised) /\ Goto(GatePlace))
  <2>1. SUFFICES ASSUME Gate!RunWrite(Revised) \/ Gate!ResumeWrite(Revised)
                 PROVE  GatePlace # "finish"
    BY DEF Goto
  <2>2. GateProofs!RunWrite(Revised) \/ GateProofs!ResumeWrite(Revised)
    BY <1>1, <2>1, GateActions
  <2>3. gateAt'[Revised] # "rejected"
    BY <1>1, <1>2, <2>2, GateCallers, GateProofs!WriterEffect
  <2> QED BY <1>1, <2>1, <2>3, GateAnswers
<1>4. pc = "waiting" => gateAt[Revised] # "rejected"
  BY DEF GateInv
<1> QED BY <1>3, <1>4 DEF Validated, WriterAnswered

\* Between the runs the session says what the last one came to.
LEMMA RestedStep ==
  ASSUME TypeOK, PhaseInv, LoopInv, CloseInv, GateInv, RestInv, Next, Open', pc' \in {"idle", "finish"}
  PROVE  kind' \in {"ready", "blocked", "degraded"} \/ Outstanding'
<1>0. Open /\ ~CloseSteps /\ ~Close
  BY WasOpen
<1> USE DEF Goto
<1>1. CASE StartSteps
  <2>1. Announce \/ Begin
    BY <1>1 DEF StartSteps, Start, StartResolves, RecoveryAdmitted, Prepare, ExistingValidated,
       StartFails
  <2> QED BY <2>1, FirstIsOutstanding
<1>2. ASSUME Running, BuildFails \/ HostRejects, UNCHANGED <<impacts, loopVars>>
      PROVE  kind' \in {"ready", "blocked", "degraded"} \/ Outstanding'
  <2>1. CASE Superseded
    BY <1>0, <1>2, <2>1, SupersededIsOutstanding DEF Outstanding, loopVars
  <2>2. CASE ~Superseded
    BY <1>0, <1>2, <2>2 DEF BuildFails, HostRejects, FailedKind
  <2> QED BY <2>1, <2>2
<1>3. CASE PlanSteps
  <2>1. pc \in Planning /\ UNCHANGED <<impacts, loopVars>> /\ after = "build" /\ BuildFails
    BY <1>0, <1>3 DEF PlanSteps, Register, Registering, Confirm, Planning, PlanFails, StartFails,
       Replanned, TypeOK
  <2> QED BY <1>2, <2>1 DEF Running
<1>4. CASE \E i \in {"plan", "source"} : Observe(i)
  BY <1>4, NewRevisions
<1>5. CASE RunBegins
  <2>1. pc = "idle"
    BY <1>5 DEF RunBegins, Loop!RunBegins, LoopInv, StateShape
  <2>2. pc' = "finish" /\ UNCHANGED kind
    BY <1>5 DEF RunBegins
  <2> QED BY <1>0, <2>1, <2>2, OutstandingStays DEF RestInv
<1>6. CASE RunSteps /\ ~RunBegins
  <2>1. Running
    BY <1>6 DEF RunSteps, Replan, VerifyPlan, AssertCurrent, Verify, Compile, Validated,
       WriterAnswered, Running, Building, AtGate
  <2>2. ((BuildFails \/ HostRejects) /\ UNCHANGED <<impacts, loopVars>>)
        \/ (\E i \in {"plan", "source"} : Observe(i))
        \/ (Superseded /\ UNCHANGED <<impacts, loopVars>>)
    <3>1. CASE Replan \/ Compile
      BY <1>0, <3>1 DEF Replan, Compile
    <3>2. CASE VerifyPlan \/ AssertCurrent
      <4>1. pc' = "finish"
        BY <3>2 DEF VerifyPlan, AssertCurrent, Verify, BuildFails, HostRejects
      <4>2. Observe("plan") \/ ((BuildFails \/ HostRejects) /\ UNCHANGED <<impacts, loopVars>>)
        BY <1>0, <3>2, <4>1 DEF VerifyPlan, AssertCurrent, Verify
      <4> QED BY <4>2
    <3>3. CASE Validated \/ WriterAnswered
      <4>1. pc' = "finish"
        BY <1>6, RunPlaces
      <4>2. \/ ~NothingNewer /\ Reconcile
            \/ (BuildFails \/ HostRejects) /\ UNCHANGED <<impacts, loopVars>>
        BY <1>0, <3>3, <4>1, GateAdmits
      <4> QED BY <4>2 DEF NothingNewer, Reconcile, Impact
    <3> QED BY <1>6, <3>1, <3>2, <3>3 DEF RunSteps
  <2>3. CASE Superseded /\ UNCHANGED <<impacts, loopVars>>
    BY <1>0, <2>1, <2>3, SupersededIsOutstanding DEF Outstanding, loopVars
  <2> QED BY <1>2, <1>4, <2>1, <2>2, <2>3
<1>7. CASE GateSteps
  <2>1. CASE Write
    <3>1. Running
      BY <2>1 DEF Write, Running, Building, AtGate
    <3>2. ((BuildFails \/ HostRejects) /\ UNCHANGED <<impacts, loopVars>>)
          \/ (\E i \in {"plan", "source"} : Observe(i))
          \/ (Superseded /\ UNCHANGED <<impacts, loopVars>>)
      BY <1>0, <2>1 DEF Write, NothingNewer, Reconcile, Impact
    <3>3. CASE Superseded /\ UNCHANGED <<impacts, loopVars>>
      BY <1>0, <3>1, <3>3, SupersededIsOutstanding DEF Outstanding, loopVars
    <3> QED BY <1>2, <1>4, <3>1, <3>2, <3>3
  <2>2. CASE RolledBack
    <3>1. Running /\ BuildFails /\ UNCHANGED <<impacts, loopVars>>
      BY <2>2 DEF RolledBack, Running, Building, AtGate
    <3> QED BY <1>2, <3>1
  <2>3. CASE Committed \/ Published
    BY <1>0, <2>3 DEF Committed, Published, RestInv
  <2>4. CASE Finish
    <3>1. pc = "finish" /\ UNCHANGED kind
      BY <2>4 DEF Finish
    <3>2. Outstanding => Outstanding'
      BY <2>4, OutstandingStays DEF Finish, RunBegins, Loop!RunBegins, Loop!RunEnds
    <3> QED BY <1>0, <3>1, <3>2 DEF RestInv
  <2> QED BY <1>7, <2>1, <2>2, <2>3, <2>4 DEF GateSteps
<1>8. CASE HostSteps \/ ReadSteps
  <2>1. UNCHANGED pc /\ (UNCHANGED kind \/ kind' = FailedKind)
    BY <1>0, <1>8 DEF HostSteps, Fire, Edit, Poll, WatchError, Invalidate, ReadSteps, AcquireRead,
       ResumeRead, TakeLease, Release, ReaderKeeps
  <2>2. Outstanding => Outstanding' \/ RunBegins
    BY OutstandingStays
  <2>3. ~RunBegins
    BY <2>1 DEF RunBegins, Loop!RunBegins, LoopInv, StateShape, Goto
  <2> QED BY <1>0, <2>1, <2>2, <2>3 DEF RestInv, FailedKind
<1> QED BY <1>0, <1>1, <1>3, <1>5, <1>6, <1>7, <1>8, AllSteps DEF RunSteps

LEMMA RestStep ==
  ASSUME TypeOK, PhaseInv, LoopInv, CloseInv, GateInv, FreshInv, RestInv, Next
  PROVE  RestInv'
BY PublishingStep, RunningStep, ReadyStep, PublishedStep, RestedStep DEF RestInv

-----------------------------------------------------------------------------
(* The whole session.                                                      *)

LEMMA SessionStarts == Init => SessionInv
BY TypeStarts, PhaseStarts, LoopStarts, CloseStarts, GateInvStarts, TreeStarts, VersionStarts,
   FreshStarts, RestStarts DEF SessionInv

LEMMA SessionStep == SessionInv /\ [Next]_vars => SessionInv'
<1> SUFFICES ASSUME SessionInv, [Next]_vars PROVE SessionInv'
  OBVIOUS
<1> USE DEF SessionInv
<1>1. CASE Next
  BY <1>1, TypeStep, PhaseStep, LoopStep, CloseStep, GateInvStep, TreeStep, VersionStep,
     FreshStep, RestStep
<1>2. CASE UNCHANGED vars
  <2> USE <1>2 DEF vars, public, startVars, planVars, loopVars
  <2>1. TypeOK'
    BY DEF TypeOK, Events
  <2>2. Running' = Running /\ Open' = Open /\ Superseded' = Superseded /\ Outstanding' = Outstanding
    BY DEF Running, Open, Superseded, Revised, Outstanding
  <2>3. PhaseInv'
    BY <2>2, GateCloses DEF PhaseInv, gateVars
  <2>4. StateShape'
    BY <2>2 DEF LoopInv, StateShape
  <2>5. CauseShape'
    BY DEF LoopInv, CauseShape, Revised
  <2>6. CloseInv'
    BY DEF CloseInv
  <2>7. GateInv'
    <3>1. GateProofs!GateInv' /\ GateProofs!SessionInv'
      BY GateKept DEF GateInv, GateMoves
    <3> QED BY <2>2, <3>1 DEF GateInv, Revised, gateVars
  <2>8. TreeInv'
    BY DEF TreeInv, ReaderSeesItsGeneration, Refused, gateVars
  <2>9. VersionInv'
    BY <2>2 DEF VersionInv
  <2>10. FreshInv'
    BY <2>2 DEF FreshInv, PlanIsCurrent, SourceIsCurrent
  <2>11. RestInv'
    BY <2>2 DEF RestInv
  <2> QED BY <2>1, <2>3, <2>4, <2>5, <2>6, <2>7, <2>8, <2>9, <2>10, <2>11 DEF LoopInv
<1> QED BY <1>1, <1>2

\* A session is where its place, its loop, its gate, its tree and its versions
\* say it is, in every state.
THEOREM SessionInvariant == Spec => []SessionInv
<1>1. Init => SessionInv
  BY SessionStarts
<1>2. SessionInv /\ [Next]_vars => SessionInv'
  BY SessionStep
<1> QED BY <1>1, <1>2, PTL DEF Spec

\* Every variable of DevelopmentSessionRuntime keeps its type.
THEOREM SessionTypeCorrect == Spec => []TypeOK
<1>1. SessionInv => TypeOK
  BY DEF SessionInv
<1> QED BY <1>1, SessionInvariant, PTL

\* acquirePublishedRead: a reader reads exactly the generation it was given
\* until it releases it, except after a rollback that was refused.
THEOREM ReadersKeepTheirGeneration == Spec => []ReaderSeesItsGeneration
<1>1. SessionInv => ReaderSeesItsGeneration
  BY DEF SessionInv, TreeInv
<1> QED BY <1>1, SessionInvariant, PTL

\* #build: files begin to move only for a candidate that was compiled from the
\* inputs as the comparison inside the gate finds them.
THEOREM NothingStaleMoves == Spec => NothingStaleIsPublished
<1>1. SessionInv /\ [Next]_vars => [tree' # tree /\ tree' = Mixed => read = disk]_vars
  <2> SUFFICES ASSUME SessionInv, Next, tree' # tree, tree' = Mixed PROVE read = disk
    OBVIOUS
  <2>1. TypeOK /\ LoopInv /\ GateInv /\ FreshInv
    BY DEF SessionInv
  <2>2. ~RecoveryAdmitted /\ ~ExistingValidated
    BY DEF RecoveryAdmitted, ExistingValidated, StartFails, public, Mixed
  <2>3. ~Committed /\ ~RolledBack
    BY <2>1 DEF TypeOK, Committed, NextGeneration, RolledBack, Mixed, NoGeneration
  <2>4. Write
    BY <2>1, <2>2, <2>3, TreeStays DEF TreeSteps
  <2>5. Open /\ pc = "write" /\ NothingNewer
    BY <2>4 DEF Write
  <2> QED BY <2>1, <2>5, WriteIsCurrent
<1> QED BY <1>1, SessionInvariant, PTL DEF Spec, NothingStaleIsPublished

\* A session at rest is not "building", and if it says "ready" its tree was
\* built from the inputs as #watch last compared them.
THEOREM SettledSessionsAreCurrent == Spec => []SettledIsCurrent
<1>1. SessionInv => SettledIsCurrent
  <2> SUFFICES ASSUME SessionInv, Open, pc = "idle", loopState = "idle"
               PROVE  /\ kind \in {"ready", "blocked", "degraded"}
                      /\ kind = "ready" => built = watch
    BY DEF SettledIsCurrent
  <2>1. ~Outstanding
    BY DEF SessionInv, LoopInv, StateShape, Outstanding
  <2> QED BY <2>1 DEF SessionInv, RestInv
<1> QED BY <1>1, SessionInvariant, PTL

\* close: a closed session has no lock, no watch, no run, no publication, and
\* firstAccepted is answered.
THEOREM ClosedSessionsHoldNothing == Spec => []ClosedHoldsNothing
<1>1. SessionInv => ClosedHoldsNothing
  <2> SUFFICES ASSUME SessionInv, closing = "closed"
               PROVE  ~lock /\ watch = NoWatch /\ active = "none" /\ ~writer /\ first # "pending"
    BY DEF ClosedHoldsNothing
  <2>1. ~lock /\ watch = NoWatch /\ active = "none" /\ first # "pending"
    BY DEF SessionInv, CloseInv
  <2>2. pc \notin AtGate
    BY <2>1 DEF SessionInv, LoopInv, StateShape, Running, Building
  <2>3. ~writer
    BY <2>2 DEF SessionInv, GateInv
  <2> QED BY <2>1, <2>3
<1> QED BY <1>1, SessionInvariant, PTL
=============================================================================
