---------------------- MODULE ArtifactTransactionSafety ----------------------
(***************************************************************************)
(* Types and safety of ArtifactTransaction, for every plan set, every      *)
(* number of transitions and every bound, whatever throws, the cleanup     *)
(* after a commit included: what such a throw undoes of the promises is    *)
(* part of the invariant (cleanupThrew).                                   *)
(*                                                                         *)
(* The inductive invariant has three parts.  Control relates the program   *)
(* counter to the lock and the journal on disk.  Backups says when the     *)
(* backup directory must be empty.  Places says, for each path that no     *)
(* outside writer touched, where its old and its new file are.             *)
(***************************************************************************)
EXTENDS ArtifactTransaction, TLAPS

-----------------------------------------------------------------------------
(* Types.                                                                  *)

\* What TypeOK needs to be inductive: a working process has a plan, and a
\* rollback that is about to start, or has, points into it.
WorkOK ==
  /\ pc # "idle" => plan \in Plans
  /\ pc \in {"journalWrite", "journalRename"} /\ target = "rolling-back" => pos \in Path

TypeInv == TypeOK /\ WorkOK

\* A stored journal is told from none by its phase.
LEMMA JournalIsRecord ==
  ASSUME journal \in Journal \cup {NoJournal}, journal # NoJournal
  PROVE  /\ journal \in Journal /\ journal.plan \in Plans
         /\ journal.txn \in 0..MaxTxns /\ journal.phase \in Phase
BY DEF Journal, NoJournal

\* A plan has two complete trees.
LEMMA PlanIsRecord ==
  ASSUME NEW p \in Plans \cup {NoPlan}
  PROVE  p \in Plan /\ p.prior \in Tree /\ p.next \in Tree
BY PlansAssumption, TreeAssumption DEF Plan, NoPlan

\* The initial state is well typed.
LEMMA TypeInit == Init => TypeInv
<1> SUFFICES ASSUME Init PROVE TypeInv
  OBVIOUS
<1> USE DEF Init
<1>1. live \in [Path -> Bytes]
  BY TreeAssumption DEF Tree, Bytes
<1>2. backup \in [Path -> Bytes] /\ staged \in [Path -> Bytes]
  BY DEF Bytes, State
<1>3. editedAt \in [Path -> Moment \cup {Never}]
  OBVIOUS
<1>4. pid \in 0..MaxCrashes /\ txn \in 0..MaxTxns /\ pos \in 0..Last /\ txns \in 0..MaxTxns
      /\ faults \in 0..MaxFaults /\ edits \in 0..MaxEdits
  BY LastAssumption, BoundsAssumption
<1>5. pc \in Pc /\ task \in Task /\ target \in Phase /\ outcome \in Outcome
  BY DEF Pc, Task, Phase, Outcome
<1> QED
  BY <1>1, <1>2, <1>3, <1>4, <1>5 DEF TypeInv, TypeOK, WorkOK

\* A call that ends leaves a well-typed idle process.
LEMMA ReturnTypes ==
  ASSUME TypeInv, NEW result \in Outcome, Return(result), faults' \in 0..MaxFaults,
         cleanupThrew' \in BOOLEAN,
         live' \in [Path -> Bytes], backup' \in [Path -> Bytes], tmp' \in BOOLEAN,
         lock' \in Lock \cup {NoLock, TornLock}, journal' \in Journal \cup {NoJournal}
  PROVE  TypeInv'
<1>1. staged' \in [Path -> Bytes]
  BY DEF Return, Bytes, State
<1>2. txn' \in 0..MaxTxns /\ pos' \in 0..Last
  BY LastAssumption, BoundsAssumption DEF Return
<1> QED
  BY <1>1, <1>2 DEF Return, TypeInv, TypeOK, WorkOK, Pc, Task, Phase

\* An exception ends the call or starts a rollback.
LEMMA ThrowTypes ==
  ASSUME TypeInv, Throw, faults' \in 0..MaxFaults, cleanupThrew' \in BOOLEAN, pc # "idle"
  PROVE  TypeInv'
<1>1. CASE \E result \in Outcome : Return(result)
  <2>1. PICK result \in Outcome : Return(result)
    BY <1>1
  <2>2. /\ live' \in [Path -> Bytes] /\ backup' \in [Path -> Bytes] /\ tmp' \in BOOLEAN
        /\ lock' \in Lock \cup {NoLock, TornLock} /\ journal' \in Journal \cup {NoJournal}
    BY <2>1 DEF Throw, TypeInv, TypeOK, Return, Unwind, disk
  <2> QED
    BY <2>1, <2>2, ReturnTypes
<1>2. CASE ~ \E result \in Outcome : Return(result)
  <2>1. journal # NoJournal /\ Unwind("unwind") /\ UNCHANGED <<disk, txns, edits, editedAt, outcome>>
    BY <1>2 DEF Throw, Outcome
  <2>2. pos' \in Path
    BY <2>1, LastAssumption DEF Unwind, FirstRolledBack, Path
  <2> QED
    BY <2>1, <2>2, JournalIsRecord
       DEF Unwind, TypeInv, TypeOK, WorkOK, Path, disk, Pc, Task, Phase
<1> QED BY <1>1, <1>2

\* No operation of a working process leaves the types.
LEMMA OperationTypes ==
  ASSUME TypeInv, Operation
  PROVE  TypeInv'
<1> USE DEF TypeInv, TypeOK, WorkOK
<1>t. ASSUME Throw, UNCHANGED <<faults, cleanupThrew>>, pc # "idle"
      PROVE  TypeInv'
  BY <1>t, ThrowTypes
<1>p. plan \in Plans => plan.prior \in Tree /\ plan.next \in Tree
  BY PlanIsRecord
<1>1. CASE CreateLock
  BY <1>1 DEF CreateLock, Goto, history, Pc
<1>2. CASE WriteLock
  BY <1>2 DEF WriteLock, Goto, history, Pc, Lock
<1>3. CASE ReclaimLock
  BY <1>3, <1>t DEF ReclaimLock, memory, history
<1>4. CASE Verify
  BY <1>4, <1>t DEF Verify, Persist, disk, history, Pc, Phase
<1>5. CASE Forward
  <2>1. CASE PublishNext /\ UNCHANGED <<disk, history>>
    BY <1>5, <2>1, LastAssumption
       DEF Forward, PublishNext, LastPublished, disk, history, Path, Pc, Phase
  <2>2. CASE Goto("place") /\ pos \in Path /\ backup' \in [Path -> Bytes] /\ live' \in [Path -> Bytes]
             /\ UNCHANGED <<staged, lock, journal, tmp, history>>
    BY <1>5, <2>2 DEF Forward, Goto, history, Pc
  <2>3. Absent \in Bytes /\ pos \in Path
    BY <1>5 DEF Bytes, State, Forward
  <2> QED
    BY <1>5, <1>t, <2>1, <2>2, <2>3 DEF Forward, disk
<1>6. CASE Place
  <2>1. Absent \in Bytes /\ pos \in Path
    BY <1>6 DEF Bytes, State, Place
  <2>2. live' \in [Path -> Bytes] /\ staged' \in [Path -> Bytes]
    BY <1>6, <2>1 DEF Place
  <2> QED
    BY <1>6, <2>1, <2>2, LastAssumption
       DEF Place, PublishNext, LastPublished, history, Path, Pc, Phase
<1>7. CASE \E admitted \in BOOLEAN : Admit(admitted)
  BY <1>7, <1>t DEF Admit, Persist, disk, history, Pc, Phase
<1>8. CASE JournalWrite
  BY <1>8, <1>t DEF JournalWrite, Goto, history, Pc
<1>9. CASE JournalRename
  <2>1. journal' \in Journal
    BY <1>9 DEF JournalRename, Journal
  <2>2. /\ pc' \in Pc /\ target' \in Phase /\ pos' \in 0..Last
        /\ pc' \in {"forward", "place", "restore", "remove", "putBack"} => pos' \in Path
        /\ pc' # "journalRename" /\ (pc' = "journalWrite" => target' # "rolling-back")
    BY <1>9, LastAssumption
       DEF JournalRename, AfterPhase, FirstPublished, FirstCleanup, Path, Pc, Phase
  <2> QED
    BY <1>9, <2>1, <2>2 DEF JournalRename, history
<1>10. CASE Restore
  <2>1. CASE RestoreNext /\ UNCHANGED <<disk, history>>
    BY <1>10, <2>1, LastAssumption
       DEF Restore, RestoreNext, LastRolledBack, disk, history, Path, Pc
  <2>2. CASE Goto("remove") /\ UNCHANGED <<disk, history>>
    BY <1>10, <2>2 DEF Restore, Goto, disk, history, Pc
  <2>3. CASE Goto("putBack") /\ UNCHANGED <<disk, history>>
    BY <1>10, <2>3 DEF Restore, Goto, disk, history, Pc
  <2> QED
    BY <1>10, <1>t, <2>1, <2>2, <2>3 DEF Restore
<1>16. CASE Remove
  <2>1. Absent \in Bytes /\ pos \in Path
    BY <1>16 DEF Bytes, State, Remove
  <2>2. live' \in [Path -> Bytes]
    BY <1>16, <2>1 DEF Remove
  <2> QED
    BY <1>16, <2>1, <2>2, LastAssumption
       DEF Remove, RestoreNext, Goto, LastRolledBack, history, Path, Pc
<1>11. CASE PutBack
  <2>1. Absent \in Bytes /\ pos \in Path
    BY <1>11 DEF Bytes, State, PutBack
  <2>2. live' \in [Path -> Bytes] /\ backup' \in [Path -> Bytes]
    BY <1>11, <2>1 DEF PutBack
  <2> QED
    BY <1>11, <2>1, <2>2, LastAssumption
       DEF PutBack, RestoreNext, LastRolledBack, history, Path, Pc
<1>12. CASE AssertPrior
  BY <1>12, <1>t DEF AssertPrior, Persist, disk, history, Pc, Phase
<1>13. CASE DropTmp \/ DropLock
  BY <1>13, <1>t DEF DropTmp, DropLock, Goto, history, Pc
<1>14. CASE DropWork
  <2>1. Absent \in Bytes
    BY DEF Bytes, State
  <2> QED
    BY <1>14, <2>1 DEF DropWork, Goto, memory, history, Pc
<1>15. CASE DropJournal
  <2>1. Answer(task) \in Outcome
    BY DEF Answer, Outcome, Task
  <2> QED
    BY <1>15, <2>1, ReturnTypes DEF DropJournal
<1> QED
  BY <1>1, <1>2, <1>3, <1>4, <1>5, <1>6, <1>7, <1>8, <1>9, <1>10, <1>11, <1>12, <1>13,
     <1>14, <1>15, <1>16 DEF Operation

\* Neither does the start of a call or a recovery, nor anything around it.
LEMMA OtherTypes ==
  ASSUME TypeInv, Next, ~Operation
  PROVE  TypeInv'
<1> USE DEF TypeInv, TypeOK, WorkOK
<1>j. journal # NoJournal =>
        journal.plan \in Plans /\ journal.txn \in 0..MaxTxns /\ journal.phase \in Phase
  BY JournalIsRecord
<1>r. ASSUME Refuse PROVE TypeInv'
  BY <1>r, ReturnTypes DEF Refuse, Outcome
<1>1. CASE \E p \in Plans : Publish(p)
  <2>1. PICK p \in Plans : Publish(p)
    BY <1>1
  <2>2. CASE AllPrior(p)
    <3>1. p.next \in Tree /\ Absent \in Bytes
      BY PlanIsRecord DEF Bytes, State
    <3>2. staged' \in [Path -> Bytes]
      BY <2>1, <2>2, <3>1 DEF Publish, StageOf, Tree, Bytes
    <3>3. txns' \in 0..MaxTxns /\ txn' \in 0..MaxTxns
      BY <2>1, <2>2, BoundsAssumption DEF Publish
    <3> QED
      BY <2>1, <2>2, <3>2, <3>3 DEF Publish, Pc
  <2>3. CASE ~AllPrior(p)
    BY <2>1, <2>3 DEF Publish, memory, Outcome
  <2> QED
    BY <2>2, <2>3
<1>2. CASE RecoverOrphan
  BY <1>2, <1>r DEF RecoverOrphan
<1>3. CASE \E admitPlan \in BOOLEAN : RecoverJournalOnly(admitPlan)
  <2>1. PICK admitPlan \in BOOLEAN : RecoverJournalOnly(admitPlan)
    BY <1>3
  <2>2. PICK result \in Outcome :
          Return(result) /\ UNCHANGED <<live, backup, lock, tmp, faults, cleanupThrew>>
          /\ journal' \in {journal, NoJournal}
    BY <2>1 DEF RecoverJournalOnly, Refuse, Outcome
  <2> QED
    BY <2>2, ReturnTypes
<1>4. CASE \E admitPlan, admitIntended \in BOOLEAN : Recover(admitPlan, admitIntended)
  <2>1. PICK admitPlan \in BOOLEAN, admitIntended \in BOOLEAN : Recover(admitPlan, admitIntended)
    BY <1>4
  <2>2. journal # NoJournal
    BY <2>1 DEF Recover
  <2>3. CASE Refuse
    BY <2>3, <1>r
  <2>4. CASE /\ pc' \in {"dropTmp", "journalWrite"} /\ task' \in {"commit", "restore"}
             /\ plan' = journal.plan /\ txn' = journal.txn
             /\ target' \in {target, "committed"} /\ (pc' = "journalWrite" => target' = "committed")
             /\ UNCHANGED <<pid, prepared, pos, disk, history>>
    BY <2>4, <2>2, <1>j DEF disk, history, Pc, Task, Phase
  <2>5. CASE Unwind("restore") /\ UNCHANGED <<disk, history>>
    <3>1. pos' \in Path /\ pos' \in 0..Last
      BY <2>5, LastAssumption DEF Unwind, FirstRolledBack, Path
    <3> QED
      BY <2>5, <3>1, <2>2, <1>j DEF Unwind, disk, history, Pc, Task, Phase
  <2> QED
    BY <2>1, <2>3, <2>4, <2>5 DEF Recover, FirstCleanup
<1>5. CASE Crash
  <2>1. pid' \in 0..MaxCrashes /\ txn' \in 0..MaxTxns /\ pos' \in 0..Last
    BY <1>5, LastAssumption, BoundsAssumption DEF Crash
  <2>2. staged' \in [Path -> Bytes]
    BY <1>5 DEF Crash, Bytes, State
  <2> QED
    BY <1>5, <2>1, <2>2 DEF Crash, Pc, Task, Phase, Outcome
<1>6. CASE Fault
  <2>1. faults' \in 0..MaxFaults
    BY <1>6, BoundsAssumption DEF Fault
  <2> QED
    BY <1>6, <2>1, ThrowTypes DEF Fault
<1>7. CASE FaultAfter
  <2>1. faults' \in 0..MaxFaults
    BY <1>7, BoundsAssumption DEF FaultAfter
  <2>5. cleanupThrew' \in BOOLEAN
    <3>1. CASE task = "publish"
      BY <1>7, <3>1 DEF FaultAfter
    <3>2. CASE task # "publish"
      BY <1>7, <3>2 DEF FaultAfter
    <3> QED BY <3>1, <3>2
  <2>2. [txn |-> txn, phase |-> target, plan |-> plan] \in Journal /\ [txn |-> txn, pid |-> pid] \in Lock
    BY <1>7 DEF FaultAfter, Journal, Lock
  <2>3. PICK result \in Outcome : Return(result)
    BY <1>7 DEF FaultAfter, Outcome
  <2>4. /\ lock' \in Lock \cup {NoLock, TornLock} /\ journal' \in Journal \cup {NoJournal}
        /\ tmp' \in BOOLEAN /\ UNCHANGED <<live, backup>>
    BY <1>7, <2>2 DEF FaultAfter
  <2> QED
    BY <2>1, <2>3, <2>4, <2>5, ReturnTypes
<1>8. CASE \/ \E i \in Path, bytes \in {Foreign, Absent} : EditLive(i, bytes)
           \/ \E i \in Path : EditStaged(i)
  <2>1. edits' \in 0..MaxEdits
    BY <1>8, BoundsAssumption DEF EditLive, EditStaged
  <2>2. Foreign \in Bytes /\ Absent \in Bytes
    BY DEF Bytes, State
  <2>3. [pc |-> pc, txn |-> txn] \in Moment
    BY DEF Moment
  <2> QED
    BY <1>8, <2>1, <2>2, <2>3 DEF EditLive, EditStaged, memory
<1> QED
  BY <1>1, <1>2, <1>3, <1>4, <1>5, <1>6, <1>7, <1>8 DEF Next, StartRecovery

\* Every step keeps the types.
LEMMA TypeStep == TypeInv /\ [Next]_vars => TypeInv'
<1>1. CASE Next
  BY <1>1, OperationTypes, OtherTypes
<1>2. CASE UNCHANGED vars
  BY <1>2 DEF vars, disk, memory, history, TypeInv, TypeOK, WorkOK
<1> QED BY <1>1, <1>2

\* Every reachable state is well typed.
THEOREM TypeCorrect == Spec => []TypeOK
<1>1. TypeInv => TypeOK
  BY DEF TypeInv
<1> QED BY <1>1, TypeInit, TypeStep, PTL DEF Spec

-----------------------------------------------------------------------------
(* The three parts of the inductive invariant.                             *)

Writing(phase) == pc \in {"journalWrite", "journalRename"} /\ target = phase
Preparing == pc \in {"lockWrite", "verify"} \/ Writing("prepared")
Forwards  == pc \in {"forward", "place", "admit"} \/ Writing("publishing") \/ Writing("published")
Backwards == pc \in {"restore", "remove", "putBack", "assertPrior"} \/ Writing("rolling-back")
Finishing == Writing("committed")
Cleaning  == pc \in Cleanup
Working   == Forwards \/ Backwards \/ Finishing \/ Cleaning

Control ==
  \* what the process does, and for which task
  /\ pc \in {"idle", "lock"} \/ Preparing => task = "publish" /\ ~prepared
  /\ Forwards => task = "publish"
  /\ Backwards => task \in {"unwind", "restore"}
  /\ Working => (prepared <=> task \in {"publish", "unwind"})
  /\ Working /\ task = "publish" => ~cleanupThrew
  \* its journal and its lock are on disk
  /\ Working => journal # NoJournal /\ journal.plan = plan /\ journal.txn = txn
  /\ Preparing \/ (Working /\ pc # "dropJournal" /\ ~cleanupThrew) => lock # NoLock
  /\ pc = "journalRename" /\ target = "prepared" => journal = NoJournal
  \* and the journal is in the phase before the one being written
  /\ Writing("publishing") => journal.phase = "prepared"
  /\ pc \in {"forward", "place"} \/ Writing("published") => journal.phase = "publishing"
  /\ pc = "admit" => journal.phase = "published"
  /\ pc \in {"restore", "remove", "putBack", "assertPrior"} => journal.phase = "rolling-back"
  /\ Finishing \/ (Writing("rolling-back") /\ ~cleanupThrew) => journal.phase # "committed"
  /\ Cleaning => journal.phase = "committed"

NoBackups == \A i \in Path : backup[i] = Absent

Backups ==
  /\ Preparing \/ pc \in {"dropLock", "dropJournal"} => NoBackups
  /\ NoBackupWithoutJournal

\* Where the two files of a transition can be: as before; old file aside, new
\* one not yet (or no longer) there; new file there, old one aside; and, after a
\* throwing cleanup, new file there and no old one.
IsMoved(p, i) == Changes(p, i) /\ live[i] = Absent /\ backup[i] = p.prior[i]
IsNew(p, i) ==
  live[i] = p.next[i] /\ backup[i] = IF Changes(p, i) THEN p.prior[i] ELSE Absent
IsBare(p, i) == live[i] = p.next[i] /\ backup[i] = Absent
Located(p, i) ==
  Untouched(p, i) \/ IsMoved(p, i) \/ IsNew(p, i) \/ (cleanupThrew /\ IsBare(p, i))
IsStaged(p, i) == Changes(p, i) => staged[i] = p.next[i]

Clean == Path \ Edited

\* What the disk alone says, at any time.
OnDisk ==
  /\ Uncommitted => \A i \in Clean : Located(journal.plan, i)
  /\ journal # NoJournal /\ journal.phase = "committed" =>
       \/ \A i \in Clean : live[i] = journal.plan.prior[i]
       \/ \A i \in Clean : live[i] = journal.plan.next[i]
  /\ MarkerNamesCompleteTree

\* What the working process knows at each point of its work.
InWork ==
  /\ Writing("prepared") => \A i \in Clean : live[i] = plan.prior[i] /\ IsStaged(plan, i)
  /\ Writing("publishing") => \A i \in Clean : Untouched(plan, i) /\ IsStaged(plan, i)
  /\ pc \in {"forward", "place"} =>
       \A i \in Clean :
         /\ i < pos => IsNew(plan, i)
         /\ i > pos => Untouched(plan, i)
         /\ i = pos => IF pc = "forward" THEN Untouched(plan, i) ELSE IsMoved(plan, i)
         /\ i >= pos => IsStaged(plan, i)
  /\ pc = "admit" \/ Writing("published") => \A i \in Clean : IsNew(plan, i)
  /\ Writing("rolling-back") => pos = Last
  /\ pc \in {"restore", "remove", "putBack"} => \A i \in Clean : i > pos => Untouched(plan, i)
  /\ pc = "remove" /\ pos \in Clean =>
       Changes(plan, pos) /\ HoldsNew(plan, pos) /\ backup[pos] = plan.prior[pos]
  /\ pc = "putBack" /\ pos \in Clean => IsMoved(plan, pos)
  /\ pc = "assertPrior" => \A i \in Clean : Untouched(plan, i)
  /\ Finishing \/ Cleaning =>
       IF task \in {"publish", "commit"} THEN \A i \in Clean : live[i] = plan.next[i]
                                         ELSE \A i \in Clean : live[i] = plan.prior[i]
  /\ (Finishing \/ Cleaning) /\ task = "publish" => \A i \in Clean : IsNew(plan, i) \/ IsBare(plan, i)
  /\ Writing("rolling-back") /\ journal.phase = "committed" =>
       \A i \in Clean : IsNew(plan, i) \/ IsBare(plan, i)

Places == OnDisk /\ InWork

SafetyInv == Control /\ Backups /\ Places

-----------------------------------------------------------------------------
(* Control.                                                                *)

\* A journal that is written is not the absence of one.
LEMMA NewJournalIsRecord ==
  ASSUME NEW t, NEW phase \in Phase, NEW p
  PROVE  [txn |-> t, phase |-> phase, plan |-> p] # NoJournal
<1>1. [txn |-> t, phase |-> phase, plan |-> p].phase # NoJournal.phase
  BY DEF Phase, NoJournal
<1> QED BY <1>1

\* Nor is a lock.
LEMMA NewLockIsLock ==
  ASSUME NEW t \in 0..MaxTxns, NEW q \in 0..MaxCrashes
  PROVE  [txn |-> t, pid |-> q] # NoLock /\ TornLock # NoLock
<1>1. [txn |-> t, pid |-> q].pid # NoLock.pid
  BY BoundsAssumption DEF NoLock
<1>2. TornLock.pid # NoLock.pid
  BY DEF TornLock, NoLock
<1> QED BY <1>1, <1>2

\* What an exception adds to the history.
Thrown == cleanupThrew' = (cleanupThrew \/ (task = "publish" /\ pc \in Cleanup))

\* Only the cleanup of publishArtifacts adds to it.
LEMMA ThrownElsewhere ==
  ASSUME TypeInv, UNCHANGED cleanupThrew, pc \notin Cleanup \/ task # "publish"
  PROVE  Thrown
BY DEF Thrown, TypeInv, TypeOK

\* An exception leaves task, lock and journal in agreement.
LEMMA ThrowControl ==
  ASSUME TypeInv, Control, Throw, Thrown, pc # "idle"
  PROVE  Control'
<1> USE DEF Writing, Preparing, Forwards, Backwards, Finishing, Cleaning, Working, Cleanup, Thrown
<1>1. CASE pc' = "idle"
  BY <1>1 DEF Throw, Return, Unwind, Control
<1>2. CASE pc' # "idle"
  <2>1. /\ task = "publish" /\ prepared /\ journal # NoJournal
        /\ Unwind("unwind") /\ UNCHANGED <<disk, txns, edits, editedAt, outcome>>
    BY <1>2 DEF Throw, Return
  <2>2. Working
    BY <1>2, <2>1 DEF Control, TypeInv, TypeOK, Pc, Phase, Unwind
  <2>3. Cleaning \/ (journal.phase # "committed" /\ lock # NoLock)
    BY <2>1, <2>2 DEF Control
  <2>4. Cleaning => cleanupThrew'
    BY <2>1
  <2> QED
    BY <2>1, <2>2, <2>3, <2>4 DEF Control, Unwind, disk
<1> QED BY <1>1, <1>2

\* So does every operation of a running call,
LEMMA OperationControl ==
  ASSUME TypeInv, Control, Operation
  PROVE  Control'
<1> USE DEF Writing, Preparing, Forwards, Backwards, Finishing, Cleaning, Working, Cleanup
<1>t. ASSUME Throw, UNCHANGED cleanupThrew, pc # "idle", pc \notin Cleanup \/ task # "publish"
      PROVE  Control'
  BY <1>t, ThrowControl DEF TypeInv, TypeOK, Thrown
<1>1. CASE CreateLock
  <2>1. TornLock # NoLock
    BY DEF TornLock, NoLock
  <2> QED
    BY <1>1, <2>1 DEF CreateLock, Goto, history, Control
<1>2. CASE WriteLock
  <2>1. [txn |-> txn, pid |-> pid] # NoLock
    BY NewLockIsLock DEF TypeInv, TypeOK
  <2> QED
    BY <1>2, <2>1 DEF WriteLock, Goto, history, Control
<1>3. CASE ReclaimLock
  BY <1>3, <1>t DEF ReclaimLock, memory, history, Control
<1>4. CASE Verify
  BY <1>4, <1>t DEF Verify, Persist, disk, history, Control
<1>5. CASE Forward
  <2>1. CASE Throw /\ UNCHANGED <<faults, cleanupThrew>>
    BY <1>5, <1>t, <2>1 DEF Forward
  <2>2. CASE PublishNext /\ UNCHANGED <<disk, history>>
    BY <1>5, <2>2 DEF Forward, PublishNext, disk, history, Control
  <2>3. CASE Goto("place") /\ UNCHANGED <<lock, journal, history>>
    BY <1>5, <2>3 DEF Forward, Goto, history, Control
  <2> QED BY <1>5, <2>1, <2>2, <2>3 DEF Forward, disk
<1>6. CASE Place
  BY <1>6 DEF Place, PublishNext, history, Control
<1>7. CASE \E admitted \in BOOLEAN : Admit(admitted)
  BY <1>7, <1>t DEF Admit, Persist, disk, history, Control
<1>8. CASE JournalWrite
  BY <1>8, <1>t DEF JournalWrite, Goto, history, Control
<1>9. CASE JournalRename
  <2>1. /\ journal' # NoJournal /\ journal'.plan = plan /\ journal'.txn = txn
        /\ journal'.phase = target
    BY <1>9, NewJournalIsRecord DEF JournalRename, TypeInv, TypeOK
  <2>2. lock # NoLock \/ (cleanupThrew /\ target # "prepared")
    BY <1>9 DEF JournalRename, Control, TypeInv, TypeOK, Phase
  <2>3. UNCHANGED <<task, plan, txn, lock>> /\ target \in Phase
    BY <1>9 DEF JournalRename, TypeInv, TypeOK
  <2>4. CASE target = "prepared"
    <3>1. task = "publish" /\ prepared' /\ ~cleanupThrew' /\ pc' = "journalWrite" /\ target' = "publishing"
      BY <1>9, <2>4 DEF JournalRename, AfterPhase, Control
    <3> QED BY <2>1, <2>2, <2>3, <2>4, <3>1 DEF Control
  <2>5. CASE target # "prepared"
    <3>1. cleanupThrew' = cleanupThrew /\ prepared' = prepared
      BY <1>9, <2>5 DEF JournalRename, TypeInv, TypeOK
    <3>2. (prepared <=> task \in {"publish", "unwind"}) /\ (task = "publish" => ~cleanupThrew)
      BY <1>9, <2>3, <2>5 DEF JournalRename, Control, Phase
    <3>3. target \in {"publishing", "published"} => task = "publish"
      BY <1>9, <2>5 DEF JournalRename, Control
    <3>4. target = "rolling-back" => task \in {"unwind", "restore"}
      BY <1>9, <2>5 DEF JournalRename, Control
    <3>5. pc' = AfterPhase(target).pc /\ target' = AfterPhase(target).target
      BY <1>9 DEF JournalRename
    <3> QED
      BY <2>1, <2>2, <2>3, <2>5, <3>1, <3>2, <3>3, <3>4, <3>5
         DEF AfterPhase, FirstCleanup, Control, Phase
  <2> QED BY <2>4, <2>5
<1>15. CASE Remove
  BY <1>15 DEF Remove, RestoreNext, Goto, history, Control
<1>10. CASE Restore
  BY <1>10, <1>t DEF Restore, RestoreNext, Goto, disk, history, Control
<1>11. CASE PutBack
  BY <1>11 DEF PutBack, RestoreNext, history, Control
<1>12. CASE AssertPrior
  BY <1>12, <1>t DEF AssertPrior, Persist, disk, history, Control
<1>13. CASE DropTmp \/ DropWork \/ DropLock
  BY <1>13, <1>t DEF DropTmp, DropWork, DropLock, Goto, memory, history, Control
<1>14. CASE DropJournal
  BY <1>14 DEF DropJournal, Return, Control
<1> QED
  BY <1>1, <1>2, <1>3, <1>4, <1>5, <1>6, <1>7, <1>8, <1>9, <1>10, <1>11, <1>12, <1>13, <1>14, <1>15
     DEF Operation

\* and everything that is not one: starts, deaths, faults and edits.
LEMMA OtherControl ==
  ASSUME TypeInv, Control, Next, ~Operation
  PROVE  Control'
<1> USE DEF Writing, Preparing, Forwards, Backwards, Finishing, Cleaning, Working, Cleanup
<1>1. CASE \E p \in Plans : Publish(p)
  BY <1>1 DEF Publish, Return, memory, Control
<1>2. CASE StartRecovery
  <2>1. CASE pc' = "idle"
    BY <1>2, <2>1 DEF StartRecovery, RecoverOrphan, RecoverJournalOnly, Recover, Refuse,
                      Return, Unwind, FirstCleanup, Control
  <2>2. CASE pc' # "idle"
    <3>1. PICK admitPlan \in BOOLEAN, admitIntended \in BOOLEAN : Recover(admitPlan, admitIntended)
      BY <1>2, <2>2 DEF StartRecovery, RecoverOrphan, RecoverJournalOnly, Refuse, Return
    <3> QED
      BY <2>2, <3>1 DEF Recover, Refuse, Return, Unwind, FirstCleanup, disk, history, Uncommitted, Control
  <2> QED BY <2>1, <2>2
<1>3. CASE Crash \/ FaultAfter
  BY <1>3 DEF Crash, FaultAfter, Return, Control
<1>4. CASE Fault
  BY <1>4, ThrowControl DEF Fault, Thrown
<1>5. CASE \/ \E i \in Path, bytes \in {Foreign, Absent} : EditLive(i, bytes)
           \/ \E i \in Path : EditStaged(i)
  BY <1>5 DEF EditLive, EditStaged, memory, Control
<1> QED
  BY <1>1, <1>2, <1>3, <1>4, <1>5 DEF Next

-----------------------------------------------------------------------------
(* Backups.                                                                *)

\* An exception releases the lock only while there is no backup.
LEMMA ThrowBackups ==
  ASSUME TypeInv, Control, Backups, Throw, pc # "idle"
  PROVE  Backups'
<1> USE DEF Preparing, Writing, Backups, NoBackups, NoBackupWithoutJournal
<1>1. CASE task = "publish" /\ pc \in {"lock", "lockWrite"}
  BY <1>1 DEF Throw, Return, Unwind, Control
<1>2. CASE task = "publish" /\ pc \notin {"lock", "lockWrite"} /\ ~prepared
  <2>1. Preparing
    BY <1>2 DEF Control, Working, Forwards, Backwards, Finishing, Cleaning, Cleanup,
                TypeInv, TypeOK, Pc, Phase
  <2> QED
    BY <1>2, <2>1 DEF Throw, Return
<1>3. CASE task = "publish" /\ prepared
  BY <1>3 DEF Throw, Return, Unwind, disk, Control
<1>4. CASE task # "publish"
  BY <1>4 DEF Throw, Return
<1> QED BY <1>1, <1>2, <1>3, <1>4 DEF Throw

\* Backups are made and dropped only under lock and journal.
LEMMA StepBackups ==
  ASSUME TypeInv, Control, Backups, Next
  PROVE  Backups'
<1> USE DEF Preparing, Writing, Backups, NoBackups, NoBackupWithoutJournal
<1>t. ASSUME Throw, pc # "idle" PROVE Backups'
  BY <1>t, ThrowBackups
<1>1. CASE CreateLock \/ WriteLock
  BY <1>1 DEF CreateLock, WriteLock, Goto
<1>2. CASE ReclaimLock
  BY <1>2, <1>t DEF ReclaimLock, memory
<1>3. CASE Verify \/ AssertPrior \/ \E admitted \in BOOLEAN : Admit(admitted)
  BY <1>3, <1>t DEF Verify, AssertPrior, Admit, Persist, disk
<1>4. CASE Forward
  <2>1. lock # NoLock /\ journal # NoJournal
    BY <1>4 DEF Forward, Control, Working, Forwards
  <2> QED
    BY <1>4, <1>t, <2>1 DEF Forward, PublishNext, Goto, disk
<1>5. CASE Place
  BY <1>5 DEF Place, PublishNext
<1>6. CASE JournalWrite
  BY <1>6, <1>t DEF JournalWrite, Goto
<1>7. CASE JournalRename
  <2>2. pc' \notin {"lockWrite", "verify", "dropLock", "dropJournal"} /\ ~Writing("prepared")'
    BY <1>7 DEF JournalRename, AfterPhase, FirstCleanup, TypeInv, TypeOK, Phase
  <2>3. lock # NoLock \/ NoBackups
    BY <1>7
  <2>4. journal' # NoJournal
    BY <1>7, NewJournalIsRecord DEF JournalRename, TypeInv, TypeOK
  <2> QED
    BY <1>7, <2>2, <2>3, <2>4 DEF JournalRename
<1>8. CASE Restore
  BY <1>8, <1>t DEF Restore, RestoreNext, Goto, disk
<1>19. CASE Remove
  BY <1>19 DEF Remove, RestoreNext, Goto
<1>9. CASE PutBack
  BY <1>9 DEF PutBack, RestoreNext, TypeInv, TypeOK
<1>10. CASE DropTmp \/ DropLock
  BY <1>10, <1>t DEF DropTmp, DropLock, Goto
<1>11. CASE DropWork
  BY <1>11 DEF DropWork, Goto, memory, TypeInv, TypeOK
<1>12. CASE DropJournal
  BY <1>12 DEF DropJournal, Return
<1>13. CASE StartRecovery
  <2>1. pc = "idle"
    BY <1>13 DEF StartRecovery, RecoverOrphan, RecoverJournalOnly, Recover
  <2>2. pc' \in {"idle", "dropTmp", "restore"} \/ (pc' = "journalWrite" /\ target' # "prepared")
    BY <1>13 DEF StartRecovery, RecoverOrphan, RecoverJournalOnly, Recover, Refuse, Return,
                 Unwind, FirstCleanup
  <2>3. /\ UNCHANGED <<lock, backup>>
        /\ journal' = journal \/ (journal' = NoJournal /\ lock = NoLock)
    BY <1>13 DEF StartRecovery, RecoverOrphan, RecoverJournalOnly, Recover, Refuse, Return, disk
  <2> QED
    BY <2>2, <2>3
<1>14. CASE \E p \in Plans : Publish(p)
  BY <1>14 DEF Publish, memory
<1>15. CASE Crash
  BY <1>15 DEF Crash
<1>16. CASE FaultAfter
  <2>1. NoBackups
    BY <1>16 DEF FaultAfter
  <2> QED
    BY <1>16, <2>1 DEF FaultAfter, Return
<1>17. CASE Fault
  BY <1>17, <1>t DEF Fault
<1>18. CASE \/ \E i \in Path, bytes \in {Foreign, Absent} : EditLive(i, bytes)
            \/ \E i \in Path : EditStaged(i)
  BY <1>18 DEF EditLive, EditStaged, memory
<1> QED
  BY <1>1, <1>2, <1>3, <1>4, <1>5, <1>6, <1>7, <1>8, <1>9, <1>10, <1>11, <1>12, <1>13, <1>14,
     <1>15, <1>16, <1>17, <1>18, <1>19 DEF Next, Operation

-----------------------------------------------------------------------------
(* Places.                                                                 *)

\* A plan changes its marker.
LEMMA MarkerChanges ==
  ASSUME NEW p \in Plans
  PROVE  Marker \in Path /\ p.prior[Marker] # p.next[Marker] /\ Changes(p, Marker)
BY PlansAssumption, LastAssumption DEF Marker, Path, Changes

\* What the disk says depends on these variables only.
LEMMA OnDiskFrame ==
  ASSUME OnDisk, UNCHANGED <<live, backup, journal, editedAt>>, cleanupThrew => cleanupThrew'
  PROVE  OnDisk'
BY DEF OnDisk, Uncommitted, Clean, Edited, Located, Untouched, IsMoved, IsNew, IsBare, Changes,
       MarkerNamesCompleteTree

\* An exception moves no file.
LEMMA ThrowPlaces ==
  ASSUME TypeInv, Throw, Thrown, Control, Places, pc # "idle"
  PROVE  Places'
<1>1. UNCHANGED <<live, backup, journal, editedAt>> /\ (cleanupThrew => cleanupThrew')
  BY DEF Throw, Return, Unwind, disk, Thrown
<1>2. OnDisk'
  BY <1>1, OnDiskFrame DEF Places
<1>3. CASE pc' = "idle"
  BY <1>2, <1>3 DEF Places, InWork, Writing, Finishing, Cleaning, Cleanup
<1>4. CASE pc' # "idle"
  <2>1. Unwind("unwind") /\ task = "publish" /\ prepared
    BY <1>4 DEF Throw, Return
  <2>2. ASSUME NEW i \in Clean' PROVE ~(i > Last)
    BY LastAssumption DEF Clean, Path
  <2>3. journal.phase = "committed" => Cleaning /\ journal.plan = plan
    <3>1. Working
      BY <2>1, <1>4 DEF Control, TypeInv, TypeOK, Pc, Phase, Unwind, Preparing, Working, Writing,
                        Forwards, Backwards, Finishing, Cleaning, Cleanup
    <3> QED
      BY <2>1, <3>1 DEF Control, Working, Forwards, Backwards, Writing, Finishing
  <2>4. journal.phase = "committed" => \A i \in Clean : IsNew(plan, i) \/ IsBare(plan, i)
    BY <2>1, <2>3 DEF Places, InWork
  <2>5. journal.phase = "committed" => \A i \in Clean' : (IsNew(plan, i) \/ IsBare(plan, i))'
    BY <1>1, <2>1, <2>3, <2>4 DEF Unwind, IsNew, IsBare, Changes, Clean, Edited
  <2> QED
    BY <1>1, <1>2, <2>1, <2>2, <2>5
       DEF Unwind, FirstRolledBack, Places, InWork, Writing, Finishing, Cleaning, Cleanup
<1> QED BY <1>3, <1>4

\* The operations that touch neither the public files nor the journal.
LEMMA QuietPlaces ==
  ASSUME TypeInv, Control, Places,
         \/ CreateLock \/ WriteLock \/ ReclaimLock \/ Verify \/ AssertPrior
         \/ \E admitted \in BOOLEAN : Admit(admitted)
         \/ JournalWrite \/ DropTmp \/ DropLock
  PROVE  Places'
<1> USE DEF Places, Writing, Finishing, Cleaning, Cleanup, Clean, Edited
<1>t. ASSUME Throw, UNCHANGED cleanupThrew, pc # "idle", pc \notin Cleanup \/ task # "publish"
      PROVE  Places'
  BY <1>t, ThrowPlaces DEF Thrown, TypeInv, TypeOK
<1>d. ASSUME UNCHANGED <<live, backup, journal, editedAt, cleanupThrew>> PROVE OnDisk'
  BY <1>d, OnDiskFrame
<1>1. CASE CreateLock \/ WriteLock
  BY <1>1, <1>d DEF CreateLock, WriteLock, Goto, history, InWork
<1>2. CASE ReclaimLock
  BY <1>2, <1>t, <1>d DEF ReclaimLock, memory, history, InWork
<1>3. CASE Verify
  <2>1. CASE staged = StageOf(plan) /\ AllPrior(plan)
    <3>1. \A i \in Clean' : live'[i] = plan'.prior[i] /\ IsStaged(plan, i)'
      BY <1>3, <2>1 DEF Verify, Persist, disk, history, AllPrior, StageOf, IsStaged, Changes
    <3> QED
      BY <1>3, <1>d, <2>1, <3>1 DEF Verify, Persist, disk, history, InWork
  <2> QED BY <1>3, <1>t, <2>1 DEF Verify
<1>4. CASE AssertPrior
  <2>1. CASE AllPrior(plan)
    <3>1. task \in {"unwind", "restore"}
      BY <1>4 DEF AssertPrior, Control, Backwards
    <3> QED
      BY <1>4, <1>d, <2>1, <3>1 DEF AssertPrior, Persist, AllPrior, disk, history, InWork
  <2> QED BY <1>4, <1>t, <2>1 DEF AssertPrior
<1>5. CASE \E admitted \in BOOLEAN : Admit(admitted)
  <2>1. PICK admitted \in BOOLEAN : Admit(admitted)
    BY <1>5
  <2>2. CASE Accepted(admitted)
    <3>1. task = "publish"
      BY <2>1 DEF Admit, Control, Forwards
    <3> QED
      BY <1>d, <2>1, <2>2, <3>1 DEF Admit, Accepted, Persist, AllNext, disk, history, InWork,
                                         IsNew, IsBare, Changes
  <2> QED BY <2>1, <1>t, <2>2 DEF Admit
<1>6. CASE JournalWrite
  <2>1. CASE Goto("journalRename") /\ UNCHANGED <<live, backup, staged, journal, history>>
    BY <1>6, <1>d, <2>1
       DEF JournalWrite, Goto, history, InWork, IsStaged, IsNew, IsBare, Untouched, Changes
  <2> QED BY <1>6, <1>t, <2>1 DEF JournalWrite
<1>7. CASE DropTmp \/ DropLock
  <2>1. CASE Throw /\ UNCHANGED cleanupThrew /\ pc = "dropLock" /\ task # "publish"
    BY <1>t, <2>1
  <2>2. CASE Goto(pc') /\ pc' \in Cleanup /\ pc \in Cleanup
             /\ UNCHANGED <<live, backup, staged, journal, history>>
    BY <1>d, <2>2 DEF Goto, history, InWork, IsNew, IsBare, Changes
  <2> QED BY <1>7, <2>1, <2>2 DEF DropTmp, DropLock, Goto
<1> QED BY <1>1, <1>2, <1>3, <1>4, <1>5, <1>6, <1>7

\* The forward loop.
LEMMA ForwardPlaces ==
  ASSUME TypeInv, Control, Places, Forward \/ Place
  PROVE  Places'
<1> USE DEF Places, Clean, Edited
<1>0. /\ pos \in Path /\ plan \in Plans /\ journal.plan = plan /\ Uncommitted /\ task = "publish"
      /\ live \in [Path -> Bytes] /\ backup \in [Path -> Bytes] /\ staged \in [Path -> Bytes]
  BY DEF Forward, Place, Control, Working, Forwards, Uncommitted, TypeInv, TypeOK, WorkOK
<1>m. Marker \in Path /\ plan.prior[Marker] # plan.next[Marker] /\ \A i \in Path : i <= Marker
  BY <1>0, MarkerChanges, LastAssumption DEF Path, Marker
<1>1. CASE Forward /\ Throw /\ UNCHANGED <<faults, cleanupThrew>>
  <2>1. pc \notin Cleanup /\ pc # "idle" /\ UNCHANGED cleanupThrew
    BY <1>1 DEF Forward, Cleanup
  <2> QED BY <1>1, <2>1, ThrownElsewhere, ThrowPlaces
<1>2. CASE Forward /\ ~Changes(plan, pos) /\ PublishNext /\ UNCHANGED <<disk, history>>
  <2>2. OnDisk'
    BY <1>2, OnDiskFrame DEF disk, history
  <2>3. \A i \in Clean : i <= pos => IsNew(plan, i)
    BY <1>0, <1>2 DEF InWork, Forward, IsNew, Untouched, Changes, Path
  <2>4. \A i \in Clean : i > pos => Untouched(plan, i) /\ IsStaged(plan, i)
    BY <1>0, <1>2 DEF InWork, Forward, Path
  <2> QED
    BY <1>0, <1>2, <2>2, <2>3, <2>4, LastAssumption
       DEF InWork, PublishNext, LastPublished, disk, history, Writing, Finishing, Cleaning, Cleanup,
           IsNew, Untouched, IsStaged, Changes, Path
<1>3. CASE Forward /\ Changes(plan, pos) /\ ~NeedsBackup(plan, pos) /\ Goto("place")
           /\ UNCHANGED <<disk, history>>
  <2>2. OnDisk'
    BY <1>3, OnDiskFrame DEF disk, history
  <2>3. pos \in Clean => IsMoved(plan, pos)
    BY <1>0, <1>3 DEF InWork, Forward, NeedsBackup, IsMoved, Untouched
  <2> QED
    BY <1>0, <1>3, <2>2, <2>3
       DEF InWork, Forward, Goto, disk, history, Writing, Finishing, Cleaning, Cleanup,
           IsNew, IsMoved, Untouched, IsStaged, Changes
<1>4. CASE /\ Forward /\ Changes(plan, pos)
           /\ backup' = [backup EXCEPT ![pos] = live[pos]]
           /\ live' = [live EXCEPT ![pos] = Absent]
           /\ Goto("place") /\ UNCHANGED <<staged, lock, journal, tmp, history>>
  <2>1. pos \in Clean => IsMoved(plan, pos)'
    BY <1>0, <1>4 DEF InWork, Forward, IsMoved, Untouched, Changes, Goto
  <2>2. \A i \in Path \ {pos} : live'[i] = live[i] /\ backup'[i] = backup[i]
    BY <1>0, <1>4
  <2>3. \A i \in Clean : Located(plan, i)'
    BY <1>0, <1>4, <2>1, <2>2
       DEF OnDisk, Located, Untouched, IsMoved, IsNew, IsBare, Changes, Goto, history
  <2>4. MarkerNamesCompleteTree'
    BY <1>0, <1>m, <1>4, <2>1, <2>2
       DEF InWork, Forward, Goto, MarkerNamesCompleteTree, IsNew, Untouched, IsMoved,
           Uncommitted, history, Path
  <2>5. OnDisk'
    BY <1>0, <1>4, <2>3, <2>4 DEF OnDisk, Goto, Uncommitted, history
  <2> QED
    BY <1>0, <1>4, <2>1, <2>2, <2>5
       DEF InWork, Forward, Goto, history, Writing, Finishing, Cleaning, Cleanup,
           IsNew, Untouched, IsMoved, IsStaged, Changes, Path
<1>5. CASE Place
  <2>1. /\ UNCHANGED <<plan, journal, editedAt, task, backup>>
        /\ \A i \in Path \ {pos} : live'[i] = live[i] /\ staged'[i] = staged[i]
    BY <1>0, <1>5 DEF Place, PublishNext, history
  <2>2. \A i \in Clean : i = pos => IsNew(plan, i)'
    <3>1. pos \in Clean => IsMoved(plan, pos) /\ staged[pos] = plan.next[pos]
      BY <1>0, <1>5 DEF InWork, Place, IsMoved, IsStaged, Path
    <3>2. pos \in Clean => live'[pos] = plan.next[pos]
      BY <1>0, <1>5, <3>1 DEF Place, IsMoved
    <3> QED
      BY <2>1, <3>1, <3>2 DEF IsMoved, IsNew, Changes
  <2>3. \A i \in Clean : i <= pos => IsNew(plan, i)'
    BY <1>0, <1>5, <2>1, <2>2 DEF InWork, Place, IsNew, Changes, Path
  <2>4. \A i \in Clean : i > pos => Untouched(plan, i)' /\ IsStaged(plan, i)'
    BY <1>0, <1>5, <2>1 DEF InWork, Place, Untouched, IsStaged, Changes, Path
  <2>5. MarkerNamesCompleteTree'
    BY <1>0, <1>m, <2>1, <2>3, <2>4
       DEF MarkerNamesCompleteTree, IsNew, Untouched, Uncommitted, Path
  <2>6. OnDisk'
    BY <1>0, <2>1, <2>3, <2>4, <2>5 DEF OnDisk, Located, Uncommitted, Path
  <2> QED
    BY <1>0, <1>5, <2>1, <2>3, <2>4, <2>6, LastAssumption
       DEF InWork, Place, PublishNext, LastPublished, Writing, Finishing, Cleaning, Cleanup, Path
<1> QED BY <1>1, <1>2, <1>3, <1>4, <1>5 DEF Forward

\* The first journal of a transaction, whether or not the process sees it land.
LEMMA FirstJournalPlaces ==
  ASSUME TypeInv, Control, Backups, Places, pc = "journalRename", target = "prepared",
         journal' = [txn |-> txn, phase |-> target, plan |-> plan],
         UNCHANGED <<live, backup, editedAt>>
  PROVE  OnDisk' /\ \A i \in Clean : Untouched(plan, i) /\ IsStaged(plan, i)
<1> USE DEF Clean, Edited
<1>1. plan \in Plans
  BY DEF TypeInv, WorkOK
<1>2. \A i \in Clean : Untouched(plan, i) /\ IsStaged(plan, i)
  BY DEF Places, InWork, Backups, Preparing, NoBackups, Writing, Untouched
<1>3. journal'.plan = plan /\ journal'.phase = "prepared"
  OBVIOUS
<1>5. MarkerNamesCompleteTree'
  BY <1>1, <1>2, <1>3, MarkerChanges DEF MarkerNamesCompleteTree, Untouched
<1>6. ASSUME NEW i \in Clean PROVE Located(journal.plan, i)'
  BY <1>2, <1>3 DEF Located, Untouched
<1> QED
  BY <1>2, <1>3, <1>5, <1>6 DEF OnDisk

\* A new phase moves no file; what it promises of the files holds already.
LEMMA JournalRenamePlaces ==
  ASSUME TypeInv, Control, Backups, Places, JournalRename
  PROVE  Places'
<1> USE DEF Clean, Edited
<1>0. /\ journal'.plan = plan /\ journal'.phase = target /\ plan' = plan /\ task' = task
      /\ UNCHANGED <<live, backup, staged, editedAt>>
  BY DEF JournalRename, history
<1>1. CASE target = "prepared"
  <2>1. OnDisk' /\ \A i \in Clean : Untouched(plan, i) /\ IsStaged(plan, i)
    BY <1>1, <1>0, FirstJournalPlaces DEF JournalRename
  <2> QED
    BY <1>0, <1>1, <2>1
       DEF JournalRename, AfterPhase, Places, InWork, Writing, Finishing, Cleaning, Cleanup,
           Untouched, IsStaged, Changes
<1>2. CASE target # "prepared"
  <2>1. /\ journal # NoJournal /\ journal.plan = plan /\ cleanupThrew' = cleanupThrew
        /\ journal.phase = "committed" => target = "rolling-back" /\ cleanupThrew
        /\ (target = "committed") \/ (target \in {"publishing", "published"} /\ task = "publish")
           \/ target = "rolling-back"
    BY <1>2 DEF JournalRename, Control, Working, Forwards, Backwards, Finishing, Writing,
                TypeInv, TypeOK, Phase
  <2>6. journal.phase = "committed" => \A i \in Clean : IsNew(plan, i) \/ IsBare(plan, i)
    BY <2>1 DEF JournalRename, Places, InWork, Writing
  <2>7. journal.phase = "committed" => \A i \in Clean : Located(plan, i) /\ live[i] = plan.next[i]
    BY <2>1, <2>6 DEF Located, IsNew, IsBare
  <2>2. \A i \in Clean : Located(plan, i)'
    BY <1>0, <2>1, <2>7 DEF Places, OnDisk, Uncommitted, Located, Untouched, IsMoved, IsNew, IsBare, Changes
  <2>3. MarkerNamesCompleteTree'
    BY <1>0, <2>1, <2>7 DEF Places, OnDisk, MarkerNamesCompleteTree, Uncommitted
  <2>4. CASE target = "committed"
    <3>1. IF task \in {"publish", "commit"} THEN \A i \in Clean : live[i] = plan.next[i]
                                           ELSE \A i \in Clean : live[i] = plan.prior[i]
      BY <2>4 DEF JournalRename, Places, InWork, Finishing, Writing
    <3>2. task = "publish" => \A i \in Clean : IsNew(plan, i) \/ IsBare(plan, i)
      BY <2>4 DEF JournalRename, Places, InWork, Finishing, Writing
    <3>3. task = "publish" => \A i \in Clean : (IsNew(plan, i) \/ IsBare(plan, i))'
      BY <1>0, <3>2 DEF IsNew, IsBare, Changes
    <3> QED
      BY <1>0, <2>3, <2>4, <3>1, <3>3
         DEF JournalRename, AfterPhase, FirstCleanup, Places, OnDisk, InWork, Uncommitted, Writing,
             Finishing, Cleaning, Cleanup
  <2>5. CASE target # "committed"
    <3>1. OnDisk'
      BY <1>0, <2>2, <2>3, <2>5 DEF OnDisk
    <3>2. CASE target = "publishing"
      <4>1. \A i \in Clean : Untouched(plan, i)' /\ IsStaged(plan, i)'
        BY <1>0, <3>2 DEF JournalRename, Places, InWork, Writing, Untouched, IsStaged, Changes
      <4>2. pc' = "forward" /\ pos' = 1 /\ target' = "publishing"
        BY <3>2 DEF JournalRename, AfterPhase, FirstPublished
      <4>3. \A i \in Clean : i >= 1
        BY DEF Path
      <4> QED
        BY <1>0, <3>1, <4>1, <4>2, <4>3
           DEF Places, InWork, Writing, Finishing, Cleaning, Cleanup, Path
    <3>3. CASE target = "published"
      BY <1>0, <3>1, <3>3
         DEF JournalRename, AfterPhase, Places, InWork, Writing, Finishing, Cleaning, Cleanup,
             IsNew, Changes
    <3>4. CASE target = "rolling-back"
      <4>1. pos = Last /\ pos' = pos /\ pc' = "restore"
        BY <3>4 DEF JournalRename, AfterPhase, Places, InWork, Writing
      <4>2. \A i \in Clean : ~(i > Last)
        BY LastAssumption DEF Path
      <4> QED
        BY <1>0, <3>1, <4>1, <4>2 DEF Places, InWork, Writing, Finishing, Cleaning, Cleanup
    <3> QED BY <2>1, <2>5, <3>2, <3>3, <3>4
  <2> QED BY <2>4, <2>5
<1> QED BY <1>1, <1>2

\* The backward loop.
LEMMA RestorePlaces ==
  ASSUME TypeInv, Control, Places, Restore \/ Remove \/ PutBack
  PROVE  Places'
<1> USE DEF Places, Clean, Edited
<1>0. /\ pos \in Path /\ plan \in Plans /\ journal.plan = plan /\ Uncommitted
      /\ live \in [Path -> Bytes] /\ backup \in [Path -> Bytes]
  BY DEF Restore, Remove, PutBack, Control, Working, Backwards, Uncommitted, TypeInv, TypeOK, WorkOK
<1>m. Marker \in Path /\ plan.prior[Marker] # plan.next[Marker] /\ \A i \in Path : i <= Marker
  BY <1>0, MarkerChanges, LastAssumption DEF Path, Marker
<1>b. \A i \in Clean : i > pos => Untouched(plan, i)
  BY DEF InWork, Restore, Remove, PutBack
<1>n. ASSUME RestoreNext, UNCHANGED <<plan, editedAt>>, OnDisk',
             \A i \in Clean : i >= pos => Untouched(plan, i)'
      PROVE  Places'
  BY <1>0, <1>n, LastAssumption
     DEF RestoreNext, LastRolledBack, InWork, Writing, Finishing, Cleaning, Cleanup, Path
<1>1. CASE Restore /\ Throw /\ UNCHANGED <<faults, cleanupThrew>>
  <2>1. pc \notin Cleanup /\ pc # "idle" /\ UNCHANGED cleanupThrew
    BY <1>1 DEF Restore, Cleanup
  <2> QED BY <1>1, <2>1, ThrownElsewhere, ThrowPlaces
<1>2. CASE Restore /\ IsRestored(plan, pos) /\ RestoreNext /\ UNCHANGED <<disk, history>>
  <2>1. OnDisk'
    BY <1>2, OnDiskFrame DEF disk, history
  <2>2. pos \in Clean => Untouched(plan, pos)
    BY <1>0, <1>2 DEF IsRestored, Untouched, OnDisk, Located, IsMoved, IsNew, IsBare, Changes
  <2>3. \A i \in Clean : i >= pos => Untouched(plan, i)'
    BY <1>0, <1>2, <1>b, <2>2 DEF Untouched, RestoreNext, disk, Path
  <2> QED
    BY <1>2, <1>n, <2>1, <2>3 DEF RestoreNext, history
<1>3. ASSUME NEW x \in Bytes, NEW y \in Bytes,
             live' = [live EXCEPT ![pos] = x], backup' = [backup EXCEPT ![pos] = y],
             UNCHANGED <<journal, editedAt, plan, cleanupThrew>>,
             pos \in Clean => (x = plan.prior[pos] /\ y = Absent)
                              \/ (Changes(plan, pos) /\ x = Absent /\ y = plan.prior[pos]),
             pos = Marker /\ pos \in Clean /\ x = plan.next[pos] => live[pos] = plan.next[pos]
      PROVE  OnDisk' /\ \A i \in Path \ {pos} : live'[i] = live[i] /\ backup'[i] = backup[i]
  <2>1. /\ live'[pos] = x /\ backup'[pos] = y
        /\ \A i \in Path \ {pos} : live'[i] = live[i] /\ backup'[i] = backup[i]
    BY <1>0, <1>3
  <2>2. \A i \in Clean : Located(plan, i)'
    BY <1>0, <1>3, <2>1 DEF OnDisk, Located, Untouched, IsMoved, IsNew, IsBare, Changes
  <2>3. MarkerNamesCompleteTree'
    <3>1. SUFFICES ASSUME Marker \in Clean, live'[Marker] = plan.next[Marker]
                   PROVE  \A i \in Clean : live'[i] = plan.next[i]
      BY <1>0, <1>m, <1>3 DEF MarkerNamesCompleteTree
    <3>2. CASE pos = Marker
      <4>1. live[Marker] = plan.next[Marker]
        BY <1>3, <2>1, <3>1, <3>2
      <4>2. \A i \in Clean : live[i] = plan.next[i]
        BY <1>0, <3>1, <4>1 DEF OnDisk, MarkerNamesCompleteTree
      <4> QED
        BY <2>1, <3>1, <3>2, <4>2
    <3>3. CASE pos # Marker
      <4>1. live[Marker] = plan.prior[Marker]
        BY <1>0, <1>m, <1>b, <3>1, <3>3 DEF Untouched, Path
      <4> QED
        BY <1>m, <2>1, <3>1, <3>3, <4>1
    <3> QED BY <3>2, <3>3
  <2> QED
    BY <1>0, <1>3, <2>1, <2>2, <2>3 DEF OnDisk, Uncommitted
<1>a. Absent \in Bytes
  BY DEF Bytes, State
<1>4. CASE Restore /\ (CanRemove(plan, pos) \/ (CanPutBack(plan, pos) /\ live[pos] # Absent))
           /\ Goto("remove") /\ UNCHANGED <<disk, history>>
  <2>1. OnDisk'
    BY <1>4, OnDiskFrame DEF disk, history
  <2>2. Changes(plan, pos) /\ HoldsNew(plan, pos) /\ backup[pos] = plan.prior[pos]
    BY <1>4 DEF CanRemove, CanPutBack
  <2> QED
    BY <1>4, <1>b, <2>1, <2>2 DEF Goto, disk, history, InWork, Writing, Finishing, Cleaning, Cleanup,
                                  Untouched, HoldsNew, Changes
<1>5. CASE Restore /\ CanPutBack(plan, pos) /\ live[pos] = Absent
           /\ Goto("putBack") /\ UNCHANGED <<disk, history>>
  <2>1. OnDisk'
    BY <1>5, OnDiskFrame DEF disk, history
  <2>2. IsMoved(plan, pos)
    BY <1>5 DEF CanPutBack, IsMoved
  <2> QED
    BY <1>5, <1>b, <2>1, <2>2 DEF Goto, disk, history, InWork, Writing, Finishing, Cleaning, Cleanup,
                                  Untouched, IsMoved, Changes
<1>7. CASE Remove
  <2>1. UNCHANGED <<plan, journal, editedAt, cleanupThrew>> /\ backup' = [backup EXCEPT ![pos] = backup[pos]]
        /\ live' = [live EXCEPT ![pos] = Absent]
    BY <1>0, <1>7 DEF Remove, RestoreNext, Goto, history
  <2>2. pos \in Clean => Changes(plan, pos) /\ HoldsNew(plan, pos) /\ backup[pos] = plan.prior[pos]
    BY <1>7 DEF Remove, InWork
  <2>6. backup[pos] \in Bytes
    BY <1>0
  <2>3. OnDisk' /\ \A i \in Path \ {pos} : live'[i] = live[i] /\ backup'[i] = backup[i]
    BY <1>a, <1>3, <2>1, <2>2, <2>6 DEF HoldsNew
  <2>4. live'[pos] = Absent /\ backup'[pos] = backup[pos]
    BY <1>0, <2>1
  <2>5. CASE plan.prior[pos] = Absent
    <3>1. pos \in Clean => live'[pos] = plan.prior[pos] /\ backup'[pos] = Absent
      BY <2>2, <2>4, <2>5
    <3>2. \A i \in Clean : i >= pos => Untouched(plan, i)'
      BY <1>0, <1>b, <2>1, <2>3, <3>1 DEF Untouched, Path
    <3> QED
      BY <1>7, <1>n, <2>1, <2>3, <2>5, <3>2 DEF Remove
  <2>7. CASE plan.prior[pos] # Absent
    <3>1. Goto("putBack") /\ pc' = "putBack" /\ pos' = pos
      BY <1>7, <2>7 DEF Remove, Goto
    <3>2. pos \in Clean => IsMoved(plan, pos)'
      BY <2>1, <2>2, <2>4, <3>1 DEF IsMoved, Changes
    <3>3. \A i \in Clean : i > pos => Untouched(plan, i)'
      BY <1>0, <1>b, <2>1, <2>3 DEF Untouched, Path
    <3> QED
      BY <2>1, <2>3, <3>1, <3>2, <3>3 DEF Goto, IsMoved, InWork, Writing, Finishing, Cleaning, Cleanup
  <2> QED BY <2>5, <2>7
<1>6. CASE PutBack
  <2>1. /\ live' = [live EXCEPT ![pos] = backup[pos]] /\ backup' = [backup EXCEPT ![pos] = Absent]
        /\ RestoreNext /\ UNCHANGED <<plan, journal, editedAt, cleanupThrew>>
    BY <1>6 DEF PutBack, RestoreNext, history
  <2>2. pos \in Clean => backup[pos] = plan.prior[pos]
    BY <1>6 DEF PutBack, InWork, IsMoved
  <2>3. backup[pos] \in Bytes
    BY <1>0
  <2>4. OnDisk' /\ \A i \in Path \ {pos} : live'[i] = live[i] /\ backup'[i] = backup[i]
    BY <1>a, <1>3, <1>m, <2>1, <2>2, <2>3
  <2>5. pos \in Clean => live'[pos] = plan.prior[pos] /\ backup'[pos] = Absent
    BY <1>0, <2>1, <2>2
  <2>6. \A i \in Clean : i >= pos => Untouched(plan, i)'
    BY <1>0, <1>b, <2>1, <2>4, <2>5 DEF Untouched, Path
  <2> QED
    BY <1>n, <2>1, <2>4, <2>6
<1> QED BY <1>1, <1>2, <1>4, <1>5, <1>6, <1>7 DEF Restore

\* The cleanup drops backups that nobody needs.
LEMMA DropPlaces ==
  ASSUME TypeInv, Control, Places, DropWork \/ DropJournal
  PROVE  Places'
<1> USE DEF Places, Clean, Edited
<1>1. CASE DropWork
  <2>1. ~Uncommitted /\ ~Uncommitted'
    BY <1>1 DEF DropWork, Control, Cleaning, Cleanup, Uncommitted
  <2>2. UNCHANGED <<live, journal, editedAt, plan, task>> /\ pc' \in Cleanup
    BY <1>1 DEF DropWork, Goto, memory, history, Cleanup
  <2>3. ASSUME NEW i \in Clean, IsNew(plan, i) \/ IsBare(plan, i)
        PROVE  (IsNew(plan, i) \/ IsBare(plan, i))'
    <3>1. backup'[i] \in {backup[i], Absent}
      BY <1>1 DEF DropWork, TypeInv, TypeOK
    <3> QED BY <2>2, <2>3, <3>1 DEF IsNew, IsBare, Changes
  <2> QED
    BY <1>1, <2>1, <2>2, <2>3
       DEF DropWork, OnDisk, InWork, MarkerNamesCompleteTree, Writing, Finishing, Cleaning, Cleanup
<1>2. CASE DropJournal
  <2>1. journal' = NoJournal /\ pc' = "idle"
    BY <1>2 DEF DropJournal, Return
  <2> QED
    BY <2>1 DEF OnDisk, InWork, MarkerNamesCompleteTree, Uncommitted, Writing, Finishing, Cleaning,
                Cleanup
<1> QED BY <1>1, <1>2

\* Starts, deaths, faults and edits elsewhere move no file of the plan.
LEMMA OtherPlaces ==
  ASSUME TypeInv, Control, Backups, Places, Next, ~Operation
  PROVE  Places'
<1> USE DEF Places, Clean, Edited
<1>i. ASSUME pc' \in {"idle", "lock"} PROVE InWork'
  BY <1>i DEF InWork, Writing, Finishing, Cleaning, Cleanup
<1>d. ASSUME UNCHANGED <<live, backup, journal, editedAt>>, cleanupThrew => cleanupThrew' PROVE OnDisk'
  BY <1>d, OnDiskFrame
<1>g. ASSUME journal' = NoJournal, pc' = "idle" PROVE Places'
  BY <1>g, <1>i DEF OnDisk, MarkerNamesCompleteTree, Uncommitted
<1>1. CASE \E p \in Plans : Publish(p)
  BY <1>1, <1>i, <1>d DEF Publish, memory
<1>2. CASE RecoverOrphan
  BY <1>2, <1>i, <1>d DEF RecoverOrphan, Refuse, Return
<1>3. CASE \E admitPlan \in BOOLEAN : RecoverJournalOnly(admitPlan)
  <2>1. PICK admitPlan \in BOOLEAN : RecoverJournalOnly(admitPlan)
    BY <1>3
  <2>2. CASE Refuse
    BY <2>2, <1>i, <1>d DEF Refuse, Return
  <2>3. CASE journal' = NoJournal /\ pc' = "idle"
    BY <1>g, <2>3
  <2> QED BY <2>1, <2>2, <2>3 DEF RecoverJournalOnly, Return
<1>4. CASE \E admitPlan, admitIntended \in BOOLEAN : Recover(admitPlan, admitIntended)
  <2>1. PICK admitPlan \in BOOLEAN, admitIntended \in BOOLEAN : Recover(admitPlan, admitIntended)
    BY <1>4
  <2>2. OnDisk'
    BY <2>1, <1>d DEF Recover, Refuse, Return, disk, history
  <2>3. CASE Refuse
    BY <2>2, <2>3, <1>i DEF Refuse, Return
  <2>4. CASE /\ pc' = FirstCleanup \/ (pc' = "journalWrite" /\ target' = "committed" /\ AllNext(journal.plan))
             /\ AllPrior(journal.plan) \/ AllNext(journal.plan)
             /\ task' = IF AllNext(journal.plan) THEN "commit" ELSE "restore"
             /\ plan' = journal.plan /\ UNCHANGED <<disk, history>>
    BY <2>2, <2>4
       DEF InWork, FirstCleanup, AllNext, AllPrior, disk, history, Writing, Finishing, Cleaning,
       Cleanup
  <2>5. CASE Uncommitted /\ Unwind("restore") /\ UNCHANGED <<disk, history>>
    <3>1. \A i \in Clean' : ~(i > Last)
      BY LastAssumption DEF Path
    <3> QED
      BY <2>2, <2>5, <3>1 DEF Uncommitted, disk, Unwind, FirstRolledBack, InWork, Writing, Finishing, Cleaning, Cleanup
  <2> QED
    BY <2>1, <2>3, <2>4, <2>5 DEF Recover
<1>5. CASE Crash
  BY <1>5, <1>i, <1>d DEF Crash
<1>6. CASE FaultAfter
  <2>1. pc' = "idle" /\ UNCHANGED <<live, backup, editedAt>>
    BY <1>6 DEF FaultAfter, Return
  <2>2. CASE UNCHANGED <<journal, cleanupThrew>>
    BY <1>i, <1>d, <2>1, <2>2
  <2>3. CASE /\ pc = "journalRename" /\ target = "prepared"
             /\ journal' = [txn |-> txn, phase |-> target, plan |-> plan]
    BY <1>i, <2>1, <2>3, FirstJournalPlaces
  <2>4. CASE journal' = NoJournal
    BY <1>g, <2>1, <2>4
  <2> QED BY <1>6, <2>2, <2>3, <2>4 DEF FaultAfter
<1>7. CASE Fault
  BY <1>7, ThrowPlaces DEF Fault, Thrown
<1>8. CASE \E i \in Path, bytes \in {Foreign, Absent} : EditLive(i, bytes)
  <2>1. PICK i \in Path, bytes \in {Foreign, Absent} : EditLive(i, bytes)
    BY <1>8
  <2>2. /\ UNCHANGED <<backup, staged, journal, pc, task, plan, pos, target, cleanupThrew>>
        /\ \A j \in Path \ {i} : live'[j] = live[j] /\ editedAt'[j] = editedAt[j]
    BY <2>1 DEF EditLive, memory, TypeInv, TypeOK
  <2>3. editedAt'[i] # Never
    <3>1. editedAt'[i] = [pc |-> pc, txn |-> txn] /\ pc # "never"
      BY <2>1 DEF EditLive, TypeInv, TypeOK, Pc
    <3>2. editedAt'[i].pc # Never.pc
      BY <3>1 DEF Never
    <3> QED BY <3>2
  <2>4. \A j \in Clean' : j \in Clean /\ live'[j] = live[j]
    BY <2>2, <2>3
  <2>5. MarkerNamesCompleteTree'
    <3>1. Marker \in Path
      BY LastAssumption DEF Marker, Path
    <3> QED
      BY <2>2, <2>4, <3>1 DEF OnDisk, MarkerNamesCompleteTree, Uncommitted
  <2>6. OnDisk'
    <3>1. Uncommitted' => \A j \in Clean' : Located(journal.plan, j)'
      BY <2>2, <2>4 DEF OnDisk, Uncommitted, Located, Untouched, IsMoved, IsNew, IsBare, Changes
    <3> QED
      BY <2>2, <2>4, <2>5, <3>1 DEF OnDisk
  <2>7. InWork'
    BY <2>2, <2>4 DEF InWork, Writing, Finishing, Cleaning, Untouched, HoldsNew, IsMoved, IsNew,
       IsBare, IsStaged, Changes
  <2> QED BY <2>6, <2>7
<1>9. CASE \E i \in Path : EditStaged(i)
  <2>1. PICK i \in Path : EditStaged(i)
    BY <1>9
  <2>2. /\ UNCHANGED <<live, backup, journal, pc, task, plan, pos, target, cleanupThrew>>
        /\ \A j \in Path \ {i} : staged'[j] = staged[j] /\ editedAt'[j] = editedAt[j]
    BY <2>1 DEF EditStaged, memory, TypeInv, TypeOK
  <2>3. editedAt'[i] # Never
    <3>1. editedAt'[i] = [pc |-> pc, txn |-> txn] /\ pc # "never"
      BY <2>1 DEF EditStaged, TypeInv, TypeOK, Pc
    <3>2. editedAt'[i].pc # Never.pc
      BY <3>1 DEF Never
    <3> QED BY <3>2
  <2>4. \A j \in Clean' : j \in Clean /\ staged'[j] = staged[j]
    BY <2>2, <2>3
  <2>6. OnDisk'
    BY <2>2, <2>4 DEF OnDisk, MarkerNamesCompleteTree, Uncommitted, Located, Untouched, IsMoved,
       IsNew, IsBare, Changes, Marker, Path
  <2>7. InWork'
    BY <2>2, <2>4 DEF InWork, Writing, Finishing, Cleaning, Untouched, HoldsNew, IsMoved, IsNew,
       IsBare, IsStaged, Changes
  <2> QED BY <2>6, <2>7
<1> QED
  BY <1>1, <1>2, <1>3, <1>4, <1>5, <1>6, <1>7, <1>8, <1>9 DEF Next, StartRecovery

-----------------------------------------------------------------------------
(* The theorems.                                                           *)

\* The initial state satisfies the invariant.
LEMMA SafetyInit == Init => SafetyInv
<1> SUFFICES ASSUME Init PROVE SafetyInv
  OBVIOUS
<1> USE DEF Init, Writing, Preparing, Forwards, Backwards, Finishing, Cleaning, Working, Cleanup
<1>1. Control
  BY DEF Control
<1>2. Backups
  BY DEF Backups, NoBackups, NoBackupWithoutJournal
<1>3. Places
  BY DEF Places, OnDisk, InWork, Uncommitted, MarkerNamesCompleteTree, NoJournal
<1> QED BY <1>1, <1>2, <1>3 DEF SafetyInv

\* Every step keeps the invariant.
LEMMA SafetyStep ==
  ASSUME TypeInv, SafetyInv, [Next]_vars
  PROVE  SafetyInv'
<1> USE DEF SafetyInv
<1>1. CASE Operation
  <2>1. Control' /\ Backups'
    BY <1>1, OperationControl, StepBackups DEF Next
  <2>2. Places'
    BY <1>1, QuietPlaces, ForwardPlaces, JournalRenamePlaces, RestorePlaces, DropPlaces
       DEF Operation
  <2> QED BY <2>1, <2>2
<1>2. CASE Next /\ ~Operation
  BY <1>2, OtherControl, StepBackups, OtherPlaces
<1>3. CASE UNCHANGED vars
  BY <1>3 DEF vars, disk, memory, history, Control, Backups, Places, OnDisk, InWork, Writing,
              Preparing, Forwards, Backwards, Finishing, Cleaning, Working, NoBackups,
              NoBackupWithoutJournal, MarkerNamesCompleteTree, Uncommitted, Clean, Edited, Located,
              Untouched, HoldsNew, IsMoved, IsNew, IsBare, IsStaged, Changes
<1> QED BY <1>1, <1>2, <1>3 DEF Next

\* The inductive invariant: where each old and new file is while the process
\* is at each operation of publishArtifacts and recoverArtifacts.
THEOREM SafetyInvariant == Spec => [](TypeInv /\ SafetyInv)
<1>1. Init => TypeInv /\ SafetyInv
  BY TypeInit, SafetyInit
<1>2. TypeInv /\ SafetyInv /\ [Next]_vars => (TypeInv /\ SafetyInv)'
  <2>1. TypeInv /\ [Next]_vars => TypeInv'
    BY TypeStep
  <2> QED BY <2>1, SafetyStep
<1> QED BY <1>1, <1>2, PTL DEF Spec

\* No crash, fault or outside edit elsewhere loses an old file while a
\* transaction is undecided.
THEOREM PriorIsRecoverable == Spec => []PriorRecoverable
<1>1. TypeInv /\ SafetyInv => PriorRecoverable
  BY DEF SafetyInv, Places, OnDisk, PriorRecoverable, Clean, Located, Untouched, IsMoved, IsNew,
     IsBare, Changes
<1> QED BY <1>1, SafetyInvariant, PTL

\* The new marker never stands beside an old file.
THEOREM MarkerIsLast == Spec => []MarkerNamesCompleteTree
<1>1. TypeInv /\ SafetyInv => MarkerNamesCompleteTree
  BY DEF SafetyInv, Places, OnDisk
<1> QED BY <1>1, SafetyInvariant, PTL

\* Backups exist only under a lock and a journal.
THEOREM BackupsAreOwned == Spec => []NoBackupWithoutJournal
<1>1. TypeInv /\ SafetyInv => NoBackupWithoutJournal
  BY DEF SafetyInv, Backups
<1> QED BY <1>1, SafetyInvariant, PTL

\* "committed" is written only over one whole tree.
THEOREM CommittedTreeIsUniform == Spec => []CommittedIsUniform
<1>1. TypeInv /\ SafetyInv => CommittedIsUniform
  BY DEF SafetyInv, Places, OnDisk, Clean, CommittedIsUniform, AllPrior, AllNext
<1> QED BY <1>1, SafetyInvariant, PTL

-----------------------------------------------------------------------------
(* Without outside edits the protocol implements AtomicTree.                *)

\* Nobody edits a file when no edit is allowed.
LEMMA NoEdits == ASSUME MaxEdits = 0 PROVE Spec => [](Edited = {})
<1> DEFINE Unedited == edits \in Nat /\ Edited = {}
<1>1. Init => Unedited
  BY DEF Init, Edited
<1>2. Unedited /\ [Next]_vars => Unedited'
  <2> SUFFICES ASSUME Unedited, [Next]_vars PROVE Unedited'
    OBVIOUS
  <2>1. UNCHANGED <<edits, editedAt>>
    BY DEF Next, Operation, StartRecovery, Publish, CreateLock, WriteLock, ReclaimLock, Verify,
           Forward, Place, PublishNext, Admit, JournalWrite, JournalRename, Restore, RestoreNext,
           Remove, PutBack, AssertPrior, DropTmp, DropWork, DropLock, DropJournal, RecoverOrphan,
           RecoverJournalOnly, Recover, Refuse, Crash, Fault, FaultAfter, EditLive, EditStaged,
           Throw, Return, Unwind, Goto, Persist, vars, disk, memory, history
  <2> QED BY <2>1 DEF Edited
<1> QED BY <1>1, <1>2, PTL DEF Spec

\* A tree is determined by its paths.
LEMMA TreeIsItsPaths ==
  ASSUME NEW t \in [Path -> Bytes], NEW u \in Tree, \A i \in Path : t[i] = u[i]
  PROVE  t = u
BY DEF Tree

\* While the journal is undecided a reader relies on its prior state, and on the
\* files again where one whole tree stands.
LEMMA CommitOrStutter ==
  ASSUME TypeInv, SafetyInv, Edited = {},
         \/ JournalRename
         \/ /\ pc = "journalRename" /\ target = "prepared" /\ ~cleanupThrew'
            /\ journal' = [txn |-> txn, phase |-> target, plan |-> plan] /\ UNCHANGED live
  PROVE  [Atomic!Next]_(Atomic!vars)
<1> USE DEF SafetyInv
<1>0. live \in [Path -> Bytes] /\ Clean = Path /\ UNCHANGED live
  BY DEF TypeInv, TypeOK, Clean, JournalRename
<1>1. CASE target = "prepared"
  <2>1. journal = NoJournal /\ plan \in Plans /\ ~cleanupThrew' /\ pc = "journalRename"
        /\ journal' = [txn |-> txn, phase |-> "prepared", plan |-> plan]
    BY <1>1 DEF JournalRename, Control, TypeInv, WorkOK
  <2>2. \A i \in Path : live[i] = plan.prior[i]
    BY <1>0, <1>1, <2>1 DEF Places, InWork, Writing
  <2>3. live = plan.prior
    BY <1>0, <2>1, <2>2, PlanIsRecord, TreeIsItsPaths
  <2>4. ReadersTree = live /\ ReadersTree' = live
    BY <1>0, <2>1, <2>3 DEF ReadersTree, Uncommitted
  <2> QED BY <2>1, <2>4 DEF Atomic!vars
<1>2. CASE target # "prepared"
  <2>1. JournalRename /\ journal' # NoJournal /\ journal'.plan = plan /\ journal'.phase = target
    BY <1>2, NewJournalIsRecord DEF JournalRename, TypeInv, TypeOK
  <2>2. journal # NoJournal /\ journal.plan = plan /\ plan \in Plans /\ cleanupThrew' = cleanupThrew
        /\ (journal.phase = "committed" => cleanupThrew)
    BY <1>2, <2>1 DEF JournalRename, Control, Working, Forwards, Backwards, Finishing, Writing,
                      TypeInv, TypeOK, WorkOK, Phase
  <2>3. CASE cleanupThrew
    BY <1>0, <2>1, <2>2, <2>3 DEF ReadersTree, Atomic!vars
  <2>4. CASE ~cleanupThrew /\ target # "committed"
    BY <2>1, <2>2, <2>4 DEF ReadersTree, Uncommitted, Atomic!vars
  <2>5. CASE ~cleanupThrew /\ target = "committed"
    <3>1. \/ \A i \in Path : live[i] = plan.next[i]
          \/ \A i \in Path : live[i] = plan.prior[i]
      BY <1>0, <2>1, <2>5 DEF JournalRename, Places, InWork, Finishing, Writing
    <3>2. live = plan.next \/ live = plan.prior
      BY <1>0, <2>2, <3>1, PlanIsRecord, TreeIsItsPaths
    <3>3. ReadersTree = plan.prior /\ ReadersTree' = live
      BY <1>0, <2>1, <2>2, <2>5 DEF ReadersTree, Uncommitted
    <3>4. CASE live = plan.prior
      BY <2>1, <2>2, <2>5, <3>3, <3>4 DEF Atomic!vars
    <3>5. CASE live = plan.next
      BY <2>1, <2>2, <2>5, <3>3, <3>5 DEF Atomic!Commit, Atomic!Next
    <3> QED BY <3>2, <3>4, <3>5
  <2> QED BY <2>3, <2>4, <2>5
<1> QED BY <1>1, <1>2

\* A cleanup that throws is the failure of a change that was committed.
LEMMA FailOrStutter ==
  ASSUME TypeInv, SafetyInv, Edited = {}, Fault
  PROVE  [Atomic!Next]_(Atomic!vars)
<1> USE DEF SafetyInv
<1>1. UNCHANGED <<live, journal>>
  BY DEF Fault, Throw, Return, Unwind, disk
<1>2. CASE task = "publish" /\ pc \in Cleanup
  <2>1. /\ journal # NoJournal /\ journal.plan = plan /\ journal.phase = "committed"
        /\ ~cleanupThrew /\ cleanupThrew' /\ plan \in Plans
    BY <1>2 DEF Fault, Control, Working, Cleaning, Cleanup, TypeInv, WorkOK
  <2>2. \A i \in Path : live[i] = plan.next[i]
    BY <1>2 DEF Places, InWork, Cleaning, Clean
  <2>3. live = plan.next
    BY <2>1, <2>2, PlanIsRecord, TreeIsItsPaths DEF TypeInv, TypeOK
  <2>4. ReadersTree = live /\ ReadersTree' = live
    BY <1>1, <2>1 DEF ReadersTree, Uncommitted
  <2> QED BY <1>1, <2>1, <2>3, <2>4 DEF Atomic!Fail, Atomic!Next
<1>3. CASE ~(task = "publish" /\ pc \in Cleanup)
  <2>1. cleanupThrew' = cleanupThrew
    BY <1>3 DEF Fault, TypeInv, TypeOK
  <2> QED BY <1>1, <2>1 DEF ReadersTree, Uncommitted, Atomic!vars
<1> QED BY <1>2, <1>3

\* The rollback of such a change is seen file by file,
LEMMA UndoOrStutter ==
  ASSUME TypeInv, SafetyInv, SafetyInv', Edited = {}, Edited' = {},
         Forward \/ Place \/ Remove \/ PutBack
  PROVE  [Atomic!Next]_(Atomic!vars)
<1> USE DEF SafetyInv
<1>1. Uncommitted /\ journal.plan = plan /\ plan \in Plans /\ UNCHANGED <<journal, cleanupThrew>>
  BY DEF Forward, Place, Remove, PutBack, PublishNext, Throw, Return, Unwind, disk, history,
         Control, Working, Forwards, Backwards, Uncommitted, TypeInv, WorkOK
<1>2. CASE ~cleanupThrew
  BY <1>1, <1>2 DEF ReadersTree, Uncommitted, Atomic!vars
<1>3. CASE cleanupThrew
  <2>1. ReadersTree' = live' /\ journal # NoJournal /\ journal' # NoJournal
    BY <1>1, <1>3 DEF ReadersTree, Uncommitted
  <2>2. \A i \in Path : Located(journal.plan, i)'
    BY <1>1 DEF Places, OnDisk, Uncommitted, Clean
  <2>3. \A i \in Path : live'[i] \in {plan.prior[i], plan.next[i], Absent}
    BY <1>1, <2>2 DEF Located, Untouched, IsMoved, IsNew, IsBare
  <2>4. DOMAIN plan.next = Path
    BY <1>1, PlanIsRecord DEF Tree
  <2>5. Atomic!Undo(plan)
    BY <1>1, <1>3, <2>1, <2>3, <2>4 DEF Atomic!Undo
  <2> QED BY <1>1, <2>5 DEF Atomic!Next
<1> QED BY <1>2, <1>3

\* until its journal goes, over one whole tree.
LEMMA SettleOrStutter ==
  ASSUME TypeInv, SafetyInv, Edited = {}, journal # NoJournal, journal.phase = "committed",
         journal' = NoJournal, UNCHANGED live
  PROVE  [Atomic!Next]_(Atomic!vars)
<1> USE DEF SafetyInv
<1>1. ReadersTree = live /\ ReadersTree' = live
  BY DEF ReadersTree, Uncommitted
<1>2. CASE ~cleanupThrew
  BY <1>1, <1>2 DEF Atomic!vars
<1>3. CASE cleanupThrew
  <2>1. journal.plan \in Plans
    BY JournalIsRecord DEF TypeInv, TypeOK
  <2>2. \/ \A i \in Path : live[i] = journal.plan.prior[i]
        \/ \A i \in Path : live[i] = journal.plan.next[i]
    BY DEF Places, OnDisk, Clean
  <2>3. live \in {journal.plan.prior, journal.plan.next}
    BY <2>1, <2>2, PlanIsRecord, TreeIsItsPaths DEF TypeInv, TypeOK
  <2>4. Atomic!Settle(journal.plan)
    BY <1>1, <1>3, <2>3 DEF Atomic!Settle
  <2> QED BY <2>1, <2>4 DEF Atomic!Next
<1> QED BY <1>2, <1>3

\* Every step of the protocol is a step of the abstract tree, or none.
LEMMA AtomicStep ==
  ASSUME TypeInv, SafetyInv, SafetyInv', Edited = {}, Edited' = {}, Next
  PROVE  [Atomic!Next]_(Atomic!vars)
<1> USE DEF SafetyInv
<1>1. ASSUME UNCHANGED <<live, journal, cleanupThrew>> PROVE [Atomic!Next]_(Atomic!vars)
  BY <1>1 DEF ReadersTree, Uncommitted, Atomic!vars
<1>2. CASE Forward \/ Place \/ Remove \/ PutBack
  BY <1>2, UndoOrStutter
<1>3. CASE JournalRename
  BY <1>3, CommitOrStutter
<1>4. CASE DropJournal
  BY <1>4, SettleOrStutter DEF DropJournal, Control, Working, Cleaning, Cleanup
<1>5. CASE StartRecovery
  BY <1>1, <1>5, SettleOrStutter
     DEF StartRecovery, RecoverOrphan, RecoverJournalOnly, Recover, Refuse, Return, disk, history
<1>6. CASE Fault
  BY <1>6, FailOrStutter
<1>7. CASE FaultAfter
  <2>1. UNCHANGED live
    BY <1>7 DEF FaultAfter
  <2>2. CASE UNCHANGED <<journal, cleanupThrew>>
    BY <1>1, <2>1, <2>2
  <2>3. CASE /\ pc = "journalRename" /\ target = "prepared" /\ ~cleanupThrew'
             /\ journal' = [txn |-> txn, phase |-> target, plan |-> plan]
    BY <2>1, <2>3, CommitOrStutter
  <2>4. CASE pc = "dropJournal" /\ journal' = NoJournal
    BY <2>1, <2>4, SettleOrStutter DEF Control, Working, Cleaning, Cleanup
  <2> QED BY <1>7, <2>2, <2>3, <2>4 DEF FaultAfter
<1>8. CASE \E i \in Path, bytes \in {Foreign, Absent} : EditLive(i, bytes)
  <2>1. PICK i \in Path, bytes \in {Foreign, Absent} : EditLive(i, bytes)
    BY <1>8
  <2>2. editedAt'[i] = [pc |-> pc, txn |-> txn] /\ pc # "never"
    BY <2>1 DEF EditLive, TypeInv, TypeOK, Pc
  <2>3. editedAt'[i].pc # Never.pc
    BY <2>2 DEF Never
  <2> QED BY <2>3 DEF Edited
<1>9. CASE \/ \E p \in Plans : Publish(p)
           \/ \E i \in Path : EditStaged(i)
           \/ Crash \/ CreateLock \/ WriteLock \/ ReclaimLock \/ Verify \/ JournalWrite \/ AssertPrior
           \/ \E admitted \in BOOLEAN : Admit(admitted)
           \/ Restore \/ DropTmp \/ DropWork \/ DropLock
  <2>1. UNCHANGED <<live, journal, cleanupThrew>>
    BY <1>9
       DEF Publish, CreateLock, WriteLock, ReclaimLock, Verify, Admit, JournalWrite, AssertPrior,
           Restore, DropTmp, DropWork, DropLock, Crash, EditStaged, Throw, Return, Unwind, Goto,
           Persist, disk, history
  <2> QED BY <1>1, <2>1
<1> QED
  BY <1>2, <1>3, <1>4, <1>5, <1>6, <1>7, <1>8, <1>9 DEF Next, Operation

\* Where nobody edits the files, readers of the tree see whole generations only,
\* whatever throws and whoever dies; but for a change whose cleanup threw after
\* its commit (publisher.ts:419-430), which may be undone before their eyes.
THEOREM TransactionIsAtomic ==
  ASSUME MaxEdits = 0 PROVE Spec => ImplementsAtomicTree
<1>1. Init => Atomic!Init
  BY DEF Init, Atomic!Init, ReadersTree, Uncommitted
<1>2. TypeInv /\ SafetyInv /\ Edited = {} /\ (TypeInv /\ SafetyInv /\ Edited = {})' /\ [Next]_vars
        => [Atomic!Next]_(Atomic!vars)
  <2>1. CASE UNCHANGED vars
    BY <2>1 DEF vars, disk, history, ReadersTree, Uncommitted, Atomic!vars
  <2> QED BY <2>1, AtomicStep
<1> QED
  BY <1>1, <1>2, SafetyInvariant, NoEdits, PTL DEF Spec, ImplementsAtomicTree, Atomic!Spec

-----------------------------------------------------------------------------
(* What outside edits leave of a transaction.                              *)

\* The moments at which a path was edited, against the transaction at work: no
\* edit has a number that is not handed out yet, and the one at work was not
\* edited under the callback, except while the callback runs; what was edited
\* then is not as the plan wants it.
AdmitMoment == [pc |-> "admit", txn |-> txn]

Moments ==
  /\ txn <= txns /\ journal.txn <= txns
  /\ \A i \in Path : editedAt[i].txn <= txns /\ (editedAt[i].pc = "admit" => editedAt[i].txn # 0)
  /\ pc = "idle" => txn = 0
  /\ task = "publish" /\ pc # "idle" => txn # 0
  /\ task = "publish" /\ pc # "admit" => \A i \in Path : editedAt[i] # AdmitMoment
  /\ pc = "admit" => \A i \in Path : editedAt[i] = AdmitMoment => live[i] # plan.next[i]

\* What an edited path may hold before its transition, in the middle of it and
\* after it.
StageHolds(i) == staged[i] # StageOf(plan)[i] => StageOf(plan)[i] # Absent /\ staged[i] = Foreign
Ahead(i)   == live[i] \in {plan.prior[i], Foreign, Absent} /\ StageHolds(i)
Halfway(i) ==
  /\ plan.next[i] = Absent => live[i] \in {Foreign, Absent}
  /\ Changes(plan, i) /\ StageHolds(i)
Behind(i)  == live[i] \in {plan.next[i], Foreign, Absent} /\ staged[i] = Absent

Outcomes ==
  /\ pc = "lock" \/ Preparing \/ Writing("publishing") => \A i \in Path : Ahead(i)
  /\ pc \in {"forward", "place"} =>
       \A i \in Path :
         /\ i < pos => Behind(i)
         /\ i > pos => Ahead(i)
         /\ i = pos => IF pc = "forward" THEN Ahead(i) ELSE Halfway(i)
  /\ pc = "admit" \/ Writing("published") => \A i \in Path : Behind(i)
  /\ pc \in {"lock", "lockWrite", "verify"} => \A i \in Clean : live[i] = plan.prior[i]

OutsideInv == Moments /\ Outcomes

LEMMA OutsideInit == Init => OutsideInv
<1> SUFFICES ASSUME Init PROVE OutsideInv
  OBVIOUS
<1>1. Moments
  BY DEF Init, Moments, Never, NoJournal, AdmitMoment
<1>2. Outcomes
  BY DEF Init, Outcomes, Preparing, Writing
<1> QED BY <1>1, <1>2 DEF OutsideInv

\* A call that ends forgets its transaction.
LEMMA ReturnOutside ==
  ASSUME TypeInv, OutsideInv, NEW result, Return(result), journal'.txn <= txns
  PROVE  OutsideInv'
<1>1. Moments'
  <2>1. txns \in Nat /\ txns' = txns /\ editedAt' = editedAt /\ txn' = 0 /\ pc' = "idle"
    BY BoundsAssumption DEF Return, TypeInv, TypeOK
  <2>2. \A i \in Path : editedAt'[i] # [pc |-> "admit", txn |-> 0]
    BY <2>1 DEF OutsideInv, Moments
  <2> QED BY <2>1, <2>2 DEF OutsideInv, Moments, AdmitMoment
<1>2. Outcomes'
  BY DEF Return, Outcomes, Preparing, Writing
<1> QED BY <1>1, <1>2 DEF OutsideInv

\* A rollback is no forward work any more.
LEMMA ThrowOutside ==
  ASSUME TypeInv, OutsideInv, Throw
  PROVE  OutsideInv'
<1>1. CASE \E result : Return(result) /\ UNCHANGED journal
  BY <1>1, ReturnOutside DEF OutsideInv, Moments
<1>2. CASE Unwind("unwind") /\ UNCHANGED <<disk, txns, edits, editedAt, outcome>>
  <2>1. Moments'
    BY <1>2 DEF Unwind, disk, OutsideInv, Moments
  <2>2. Outcomes'
    BY <1>2 DEF Unwind, Outcomes, Preparing, Writing
  <2> QED BY <2>1, <2>2 DEF OutsideInv
<1> QED BY <1>1, <1>2 DEF Throw

\* The steps of the process that leave the public files and the stage alone.
LEMMA QuietOutside ==
  ASSUME TypeInv, Control, OutsideInv,
         \/ CreateLock \/ WriteLock \/ ReclaimLock \/ Verify \/ JournalWrite \/ JournalRename
         \/ \E admitted \in BOOLEAN : Admit(admitted)
  PROVE  OutsideInv'
<1> USE DEF OutsideInv, memory, history
<1>0. \A i \in Path : live[i] = plan.prior[i] => live[i] \in {plan.prior[i], Foreign, Absent}
  OBVIOUS
<1>1. CASE CreateLock
  <2>1. Moments'
    BY <1>1 DEF CreateLock, Goto, Moments, AdmitMoment
  <2>2. Outcomes'
    BY <1>1 DEF CreateLock, Goto, Outcomes, Preparing, Writing, Ahead, StageHolds, StageOf, Clean,
       Edited
  <2> QED BY <2>1, <2>2
<1>2. CASE WriteLock
  <2>1. Moments'
    BY <1>2 DEF WriteLock, Goto, Moments, AdmitMoment
  <2>2. Outcomes'
    BY <1>2 DEF WriteLock, Goto, Outcomes, Preparing, Writing, Ahead, StageHolds, StageOf, Clean,
       Edited
  <2> QED BY <2>1, <2>2
<1>3. CASE ReclaimLock
  <2>1. CASE Throw
    BY <2>1, ThrowOutside
  <2>2. CASE lock' = NoLock /\ UNCHANGED <<live, backup, staged, journal, tmp, memory, history>>
    BY <2>2 DEF Moments, AdmitMoment, Outcomes, Preparing, Writing, Ahead, Behind, Halfway,
                StageHolds, StageOf, Changes, Clean, Edited
  <2> QED BY <1>3, <2>1, <2>2 DEF ReclaimLock
<1>4. CASE Verify
  <2>1. CASE Throw
    BY <2>1, ThrowOutside
  <2>2. CASE Persist("prepared") /\ UNCHANGED <<disk, history>>
    <3>1. Moments'
      BY <1>4, <2>2 DEF Verify, Persist, disk, Moments, AdmitMoment
    <3>2. Outcomes'
      BY <1>4, <2>2 DEF Verify, Persist, disk, Outcomes, Preparing, Writing, Ahead, StageHolds,
                        StageOf, Changes, Clean, Edited
    <3> QED BY <3>1, <3>2
  <2> QED BY <1>4, <2>1, <2>2 DEF Verify
<1>5. CASE JournalWrite
  <2>1. CASE Throw
    BY <2>1, ThrowOutside
  <2>2. CASE pc' = "journalRename" /\ UNCHANGED <<live, staged, journal, plan, txn, pos, task, target, history>>
    <3>1. Moments'
      BY <1>5, <2>2 DEF JournalWrite, Moments, AdmitMoment
    <3>2. Outcomes'
      BY <1>5, <2>2 DEF JournalWrite, Outcomes, Preparing, Writing, Ahead, Behind, StageHolds,
         StageOf,
                        Changes, Clean, Edited
    <3> QED BY <3>1, <3>2
  <2> QED BY <1>5, <2>1, <2>2 DEF JournalWrite, Goto
<1>6. CASE JournalRename
  <2>1. journal'.txn = txn
    BY <1>6 DEF JournalRename
  <2>2. target \in Phase /\ pc = "journalRename"
    BY <1>6 DEF JournalRename, TypeInv, TypeOK
  <2>3. pc' \in {"journalWrite", "forward", "admit", "restore", "dropTmp"}
    BY <1>6, <2>2 DEF JournalRename, AfterPhase, FirstCleanup, Phase
  <2>4. Moments'
    <3>1. UNCHANGED <<txn, txns, task, plan, live, editedAt>>
      BY <1>6 DEF JournalRename
    <3>2. pc' = "admit" => task = "publish"
      BY <1>6, <2>2 DEF JournalRename, AfterPhase, FirstCleanup, Phase, Control, Forwards, Writing
    <3>3. pc' = "admit" => \A i \in Path : editedAt[i] # AdmitMoment
      BY <2>2, <3>2 DEF Moments
    <3>4. task' = "publish" /\ pc' # "admit" => \A i \in Path : editedAt'[i] # AdmitMoment'
      BY <2>2, <3>1 DEF Moments, AdmitMoment
    <3>5. pc' # "idle" /\ (task' = "publish" => txn' # 0)
      BY <2>2, <2>3, <3>1 DEF Moments
    <3> QED BY <2>1, <3>1, <3>3, <3>4, <3>5 DEF Moments, AdmitMoment
  <2>5. CASE target \in {"rolling-back", "committed"}
    BY <1>6, <2>5, <2>4 DEF JournalRename, AfterPhase, FirstCleanup, Outcomes, Preparing, Writing
  <2>6. CASE target = "prepared"
    BY <1>6, <2>6, <2>4 DEF JournalRename, AfterPhase, Outcomes, Preparing, Writing, Ahead,
       StageHolds, StageOf,
                       Changes
  <2>7. CASE target = "publishing"
    <3>1. pc' = "forward" /\ pos' = 1
      BY <1>6, <2>7 DEF JournalRename, AfterPhase, FirstPublished
    <3>2. \A i \in Path : Ahead(i)'
      BY <1>6, <2>7 DEF JournalRename, Outcomes, Writing, Ahead, StageHolds, StageOf, Changes
    <3>3. \A i \in Path : i >= 1
      BY LastAssumption DEF Path
    <3> QED BY <2>4, <3>1, <3>2, <3>3 DEF Outcomes, Preparing, Writing, Path
  <2>8. CASE target = "published"
    <3>1. pc' = "admit"
      BY <1>6, <2>8 DEF JournalRename, AfterPhase
    <3>2. \A i \in Path : Behind(i)'
      BY <1>6, <2>8 DEF JournalRename, Outcomes, Writing, Behind
    <3> QED BY <2>4, <3>1, <3>2 DEF Outcomes, Preparing, Writing
  <2> QED BY <2>2, <2>5, <2>6, <2>7, <2>8 DEF Phase
<1>7. CASE \E admitted \in BOOLEAN : Admit(admitted)
  <2> PICK admitted \in BOOLEAN : Admit(admitted)
    BY <1>7
  <2>1. CASE Throw
    BY <2>1, ThrowOutside
  <2>2. CASE AllNext(plan) /\ Persist("committed") /\ UNCHANGED <<disk, history>>
    <3>1. \A i \in Path : editedAt[i] # AdmitMoment
      BY <2>2 DEF Admit, AllNext, Moments
    <3>2. Moments'
      BY <2>2, <3>1 DEF Admit, Persist, disk, Moments, AdmitMoment, Control, Forwards
    <3>3. Outcomes'
      BY <2>2 DEF Persist, Outcomes, Preparing, Writing
    <3> QED BY <3>2, <3>3
  <2> QED BY <2>1, <2>2 DEF Admit, Accepted
<1> QED BY <1>1, <1>2, <1>3, <1>4, <1>5, <1>6, <1>7
\* The loop goes on from transition pos to the one after it, or to the end.
LEMMA NextOutside ==
  ASSUME TypeInv, Control, OutsideInv, PublishNext, pc \in {"forward", "place"},
         NEW k \in Path, k = pos, Behind(k)', \A i \in Path \ {pos} : live'[i] = live[i] /\ staged'[i] = staged[i],
         UNCHANGED <<journal, history>>
  PROVE  OutsideInv'
<1> USE DEF OutsideInv, history
<1>1. Moments'
  BY DEF PublishNext, Moments, AdmitMoment
<1>2. pos \in Path /\ pos \in Int /\ Last \in Int /\ \A i \in Path : i \in Int /\ i <= Last
  BY LastAssumption DEF TypeInv, TypeOK, Path
<1>3. \A i \in Path : i <= pos => Behind(i)'
  BY <1>2 DEF Outcomes, Behind, PublishNext
<1>4. \A i \in Path : i > pos => Ahead(i)'
  BY <1>2 DEF Outcomes, Ahead, StageHolds, StageOf, Changes, PublishNext
<1>5. CASE pos = LastPublished
  <2>1. pc' = "journalWrite" /\ target' = "published"
    BY <1>5 DEF PublishNext
  <2>2. \A i \in Path : Behind(i)'
    BY <1>2, <1>3, <1>5 DEF LastPublished
  <2> QED BY <1>1, <2>1, <2>2 DEF Outcomes, Preparing, Writing
<1>6. CASE pos # LastPublished
  <2>1. pc' = "forward" /\ pos' = pos + 1
    BY <1>6 DEF PublishNext
  <2>2. \A i \in Path : i < pos' => Behind(i)'
    BY <1>2, <1>3, <2>1
  <2>3. \A i \in Path : i >= pos' => Ahead(i)'
    BY <1>2, <1>4, <2>1
  <2>4. \A i \in Path : (i < pos' => Behind(i)') /\ (i > pos' => Ahead(i)') /\ (i = pos' => Ahead(i)')
    BY <1>2, <2>1, <2>2, <2>3
  <2> QED BY <1>1, <2>1, <2>4 DEF Outcomes, Preparing, Writing, Path
<1> QED BY <1>5, <1>6

LEMMA ForwardOutside ==
  ASSUME TypeInv, Control, OutsideInv, Forward \/ Place
  PROVE  OutsideInv'
<1> USE DEF OutsideInv, history
<1>0. /\ pos \in Path /\ pc \in {"forward", "place"} /\ staged \in [Path -> Bytes] /\ live \in [Path -> Bytes]
      /\ backup \in [Path -> Bytes]
  BY DEF Forward, Place, TypeInv, TypeOK
<1> PICK k \in Path : k = pos
  BY <1>0
<1>1. CASE Forward /\ PublishNext /\ UNCHANGED <<disk, history>> /\ ~Changes(plan, pos)
  <2>1. Behind(k)'
    BY <1>0, <1>1 DEF Forward, disk, Outcomes, Ahead, StageHolds, StageOf, Behind, Changes,
       PublishNext, Path
  <2> QED BY <1>0, <1>1, <2>1, NextOutside DEF disk
<1>2. CASE Forward /\ Goto("place") /\ UNCHANGED <<disk, history>> /\ Changes(plan, pos) /\ ~NeedsBackup(plan, pos)
  <2>1. Halfway(pos)
    BY <1>0, <1>2 DEF Forward, Outcomes, Ahead, Halfway, NeedsBackup, Changes, Path
  <2>2. Moments'
    BY <1>2 DEF Forward, disk, Goto, Moments, AdmitMoment
  <2>3. Outcomes'
    BY <1>2, <2>1 DEF Forward, disk, Goto, Outcomes, Preparing, Writing, Ahead, Halfway, Behind,
       StageHolds, StageOf, Changes
  <2> QED BY <2>2, <2>3
<1>3. CASE /\ Forward /\ Changes(plan, pos)
           /\ live' = [live EXCEPT ![pos] = Absent] /\ Goto("place")
           /\ UNCHANGED <<staged, lock, journal, tmp, history>>
  <2>1. Halfway(k)'
    BY <1>0, <1>3 DEF Forward, Goto, Outcomes, Ahead, Halfway, StageHolds, StageOf, Changes, Path
  <2>2. Moments'
    BY <1>3 DEF Forward, Goto, Moments, AdmitMoment
  <2>3. \A i \in Path \ {pos} : live'[i] = live[i]
    BY <1>0, <1>3
  <2>4. Outcomes'
    BY <1>0, <1>3, <2>1, <2>3 DEF Forward, Goto, Outcomes, Preparing, Writing, Ahead, Behind,
       StageHolds, StageOf, Changes, Path
  <2> QED BY <2>2, <2>4
<1>4. CASE Forward /\ Throw
  BY <1>4, ThrowOutside
<1>5. CASE Place
  <2>0. \A i \in Path \ {pos} : live'[i] = live[i] /\ staged'[i] = staged[i]
    BY <1>0, <1>5 DEF Place
  <2>1. Halfway(pos)
    BY <1>0, <1>5 DEF Place, Outcomes, Path
  <2>2. Behind(k)'
    <3>1. StageOf(plan)[pos] = plan.next[pos]
      BY <1>0, <2>1 DEF StageOf, Halfway
    <3>2. CASE plan.next[pos] = Absent
      BY <1>5, <2>1, <3>1, <3>2 DEF Place, Halfway, StageHolds, Behind, PublishNext
    <3>3. CASE plan.next[pos] # Absent
      <4>1. staged[pos] \in {plan.next[pos], Foreign}
        BY <2>1, <3>1 DEF Halfway, StageHolds
      <4>2. live'[pos] = staged[pos] /\ staged'[pos] = Absent /\ plan' = plan
        BY <1>0, <1>5, <3>3 DEF Place, PublishNext
      <4> QED BY <4>1, <4>2 DEF Behind
    <3> QED BY <3>2, <3>3
  <2> QED BY <1>0, <1>5, <2>0, <2>2, NextOutside DEF Place
<1> QED BY <1>1, <1>2, <1>3, <1>4, <1>5 DEF Forward

\* From the rollback on no transition goes forward.
LEMMA LaterOutside ==
  ASSUME TypeInv, Control, OutsideInv,
         \/ Restore \/ Remove \/ PutBack \/ AssertPrior \/ DropTmp \/ DropWork \/ DropLock \/ DropJournal
  PROVE  OutsideInv'
<1> USE DEF OutsideInv, memory, history
<1>1. CASE DropJournal
  <2>1. journal'.txn <= txns
    BY <1>1, BoundsAssumption DEF DropJournal, NoJournal, TypeInv, TypeOK
  <2> QED BY <1>1, <2>1, ReturnOutside DEF DropJournal
<1>2. CASE Throw
  BY <1>2, ThrowOutside
<1>3. CASE \/ pc' \in {"restore", "assertPrior", "remove", "putBack", "dropWork", "dropLock", "dropJournal"}
           \/ pc' = "journalWrite" /\ target' = "committed"
  <2>0. pc # "admit" /\ pc # "idle"
    BY DEF Restore, Remove, PutBack, AssertPrior, DropTmp, DropWork, DropLock, DropJournal
  <2>3. CASE Throw
    BY <2>3, ThrowOutside
  <2>4. CASE ~Throw /\ ~DropJournal
    <3>1. UNCHANGED <<txn, txns, journal, editedAt, task>>
      BY <2>4 DEF Restore, Remove, PutBack, AssertPrior, DropTmp, DropWork, DropLock, Goto, RestoreNext,
         Persist, disk
    <3> QED BY <1>3, <2>0, <3>1 DEF Moments, AdmitMoment, Outcomes, Preparing, Writing
  <2> QED BY <1>1, <2>3, <2>4
<1>4. CASE DropWork /\ UNCHANGED memory
  BY <1>4 DEF DropWork, Moments, AdmitMoment, Outcomes, Preparing, Writing
<1> QED BY <1>1, <1>2, <1>3, <1>4
        DEF Restore, Remove, PutBack, AssertPrior, DropTmp, DropWork, DropLock, Goto, RestoreNext, Persist
\* A new transaction has a number that no edit has.
LEMMA PublishOutside ==
  ASSUME TypeInv, OutsideInv, NEW p \in Plans, Publish(p)
  PROVE  OutsideInv'
<1> USE DEF OutsideInv
<1>1. CASE ~AllPrior(p)
  BY <1>1 DEF Publish, memory, Moments, AdmitMoment, Outcomes, Preparing, Writing
<1>2. CASE AllPrior(p)
  <2>1. /\ txns \in Nat /\ txns' = txns + 1 /\ txn' = txns + 1 /\ pc' = "lock"
        /\ plan' = p /\ staged' = StageOf(p) /\ UNCHANGED <<live, journal, editedAt, task>>
    BY <1>2, BoundsAssumption DEF Publish, TypeInv, TypeOK
  <2>2. /\ journal.txn \in Int /\ \A i \in Path : editedAt[i].txn \in Int
    BY BoundsAssumption DEF TypeInv, TypeOK, Journal, NoJournal, Moment, Never
  <2>3. journal.txn <= txns' /\ txn' # 0 /\ txn' <= txns'
    BY <2>1, <2>2 DEF Moments
  <2>4. \A i \in Path : editedAt[i].txn <= txns' /\ editedAt[i].txn # txns'
    BY <2>1, <2>2 DEF Moments
  <2>5. \A i \in Path : editedAt'[i] # AdmitMoment'
    BY <2>1, <2>4 DEF AdmitMoment
  <2>6. Moments'
    BY <2>1, <2>3, <2>4, <2>5 DEF Moments
  <2>7. \A i \in Path : Ahead(i)' /\ live'[i] = plan'.prior[i]
    BY <1>2, <2>1 DEF AllPrior, Ahead, StageHolds
  <2>8. Outcomes'
    BY <2>1, <2>7 DEF Outcomes, Preparing, Writing, Clean
  <2> QED BY <2>6, <2>8
<1> QED BY <1>1, <1>2

\* A recovery works for a journal, whose number was handed out.
LEMMA RecoveryOutside ==
  ASSUME TypeInv, OutsideInv, StartRecovery
  PROVE  OutsideInv'
<1> USE DEF OutsideInv
<1>1. CASE \E result : Return(result) /\ journal' \in {journal, NoJournal}
  <2>1. journal'.txn <= txns
    BY <1>1, BoundsAssumption DEF Moments, NoJournal, TypeInv, TypeOK
  <2> QED BY <1>1, <2>1, ReturnOutside
<1>2. CASE /\ pc' \in {FirstCleanup, "journalWrite", "restore"} /\ task' \in {"commit", "restore"}
           /\ pc' = "journalWrite" => target' \in {"committed", "rolling-back"}
           /\ txn' = journal.txn /\ UNCHANGED <<journal, txns, editedAt>>
  BY <1>2 DEF FirstCleanup, Moments, Outcomes, Preparing, Writing
<1>3. CASE RecoverOrphan \/ \E admitPlan \in BOOLEAN : RecoverJournalOnly(admitPlan)
  BY <1>1, <1>3 DEF RecoverOrphan, RecoverJournalOnly, Refuse
<1>4. CASE \E admitPlan, admitIntended \in BOOLEAN : Recover(admitPlan, admitIntended)
  <2> PICK admitPlan \in BOOLEAN, admitIntended \in BOOLEAN : Recover(admitPlan, admitIntended)
    BY <1>4
  <2>1. CASE Refuse
    BY <1>1, <2>1 DEF Refuse
  <2>2. CASE ~Refuse
    <3>1. task' \in {"commit", "restore"} /\ txn' = journal.txn /\ UNCHANGED <<journal, txns, editedAt>>
      BY <2>2 DEF Recover, Unwind, disk, history
    <3>2. /\ pc' \in {FirstCleanup, "journalWrite", "restore"}
          /\ pc' = "journalWrite" => target' \in {"committed", "rolling-back"}
      BY <2>2 DEF Recover, Unwind, FirstCleanup
    <3> QED BY <1>2, <3>1, <3>2
  <2> QED BY <2>1, <2>2
<1> QED BY <1>3, <1>4 DEF StartRecovery

\* An edit is told by the moment it happens at.
LEMMA EditOutside ==
  ASSUME TypeInv, Control, OutsideInv,
         \/ \E i \in Path, bytes \in {Foreign, Absent} : EditLive(i, bytes)
         \/ \E i \in Path : EditStaged(i)
  PROVE  OutsideInv'
<1> USE DEF OutsideInv, memory
<1>0. PICK i \in Path : \/ \E bytes \in {Foreign, Absent} : EditLive(i, bytes)
                        \/ EditStaged(i)
  OBVIOUS
<1>1. /\ editedAt' = [editedAt EXCEPT ![i] = [pc |-> pc, txn |-> txn]]
      /\ editedAt \in [Path -> Moment \cup {Never}]
      /\ live \in [Path -> Bytes] /\ staged \in [Path -> Bytes] /\ plan.next \in Tree /\ plan.prior \in Tree
  BY <1>0, PlanIsRecord DEF EditLive, EditStaged, TypeInv, TypeOK
<1>2. /\ editedAt'[i] = [pc |-> pc, txn |-> txn]
      /\ \A j \in Path \ {i} : editedAt'[j] = editedAt[j]
  BY <1>1
<1>3. UNCHANGED <<memory, txns, journal>>
  BY <1>0 DEF EditLive, EditStaged
<1>4. pc # "never" /\ Clean' \subseteq Clean /\ i \notin Clean'
  <2>1. pc # "never"
    BY DEF TypeInv, TypeOK, Pc
  <2>2. editedAt'[i] # Never
    <3>1. editedAt'[i].pc # Never.pc
      BY <1>2, <2>1 DEF Never
    <3> QED BY <3>1
  <2> QED BY <1>2, <2>1, <2>2 DEF Clean, Edited
\* What the path holds is still one of the three, and under the callback it is
\* not what the plan wants.
<1>5. Foreign \notin State /\ Foreign # Absent
  BY ContentAssumption DEF State
<1>6. \A j \in Path : plan.next[j] \in State
  BY <1>1 DEF Tree
<1>7. /\ \A j \in Path \ {i} : live'[j] = live[j] /\ staged'[j] = staged[j]
      /\ live'[i] = live[i] \/ live'[i] \in {Foreign, Absent}
      /\ staged'[i] # staged[i] => staged[i] # Absent /\ staged'[i] = Foreign
  BY <1>0, <1>1 DEF EditLive, EditStaged
<1>8. pc = "admit" => live'[i] # plan.next[i]
  <2> SUFFICES ASSUME pc = "admit" PROVE live'[i] # plan.next[i]
    OBVIOUS
  <2>1. Behind(i)
    BY DEF Outcomes
  <2>2. PICK bytes \in {Foreign, Absent} : EditLive(i, bytes)
    BY <1>0, <2>1 DEF EditStaged, Behind
  <2>3. live'[i] = bytes /\ live[i] # Foreign /\ live[i] # bytes
    BY <1>1, <2>2 DEF EditLive
  <2> QED BY <1>5, <1>6, <2>1, <2>3 DEF Behind
<1>9. Moments'
  <2>1. AdmitMoment' = AdmitMoment
    BY <1>3 DEF AdmitMoment
  <2>2. \A j \in Path : editedAt'[j].txn <= txns /\ (editedAt'[j].pc = "admit" => editedAt'[j].txn # 0)
    <3>1. pc = "admit" => txn # 0
      BY DEF Moments, Control, Forwards
    <3> QED BY <1>2, <3>1 DEF Moments
  <2>3. pc # "admit" => editedAt'[i] # AdmitMoment
    <3>1. editedAt'[i].pc = pc /\ AdmitMoment.pc = "admit"
      BY <1>2 DEF AdmitMoment
    <3> QED BY <3>1
  <2>4. task = "publish" /\ pc # "admit" => \A j \in Path : editedAt'[j] # AdmitMoment
    BY <1>2, <2>3 DEF Moments
  <2>5. pc = "admit" => \A j \in Path : editedAt'[j] = AdmitMoment => live'[j] # plan.next[j]
    BY <1>2, <1>7, <1>8 DEF Moments
  <2> QED BY <1>3, <2>1, <2>2, <2>4, <2>5 DEF Moments
<1>10. \A j \in Path : /\ Ahead(j) => Ahead(j)'
                       /\ Halfway(j) => Halfway(j)'
                       /\ Behind(j) => Behind(j)'
  BY <1>3, <1>5, <1>7 DEF Ahead, Halfway, Behind, StageHolds, StageOf, Changes
<1>11. \A j \in Clean' : live'[j] = live[j]
  BY <1>4, <1>7 DEF Clean
<1>12. Outcomes'
  <2>1. Preparing' = Preparing /\ \A phase : Writing(phase)' = Writing(phase)
    BY <1>3 DEF Preparing, Writing
  <2> QED BY <1>3, <1>4, <1>10, <1>11, <2>1 DEF Outcomes
<1> QED BY <1>9, <1>12

\* Every step keeps it.
LEMMA OutsideStep ==
  ASSUME TypeInv, Control, OutsideInv, [Next]_vars
  PROVE  OutsideInv'
<1>1. CASE Operation
  <2>1. CASE \/ CreateLock \/ WriteLock \/ ReclaimLock \/ Verify \/ JournalWrite \/ JournalRename
             \/ \E admitted \in BOOLEAN : Admit(admitted)
    BY <2>1, QuietOutside
  <2>2. CASE Forward \/ Place
    BY <2>2, ForwardOutside
  <2>3. CASE \/ Restore \/ Remove \/ PutBack \/ AssertPrior \/ DropTmp \/ DropWork \/ DropLock \/ DropJournal
    BY <2>3, LaterOutside
  <2> QED BY <1>1, <2>1, <2>2, <2>3 DEF Operation
<1>2. CASE Crash
  <2>1. \A i \in Path : editedAt'[i] # [pc |-> "admit", txn |-> 0]
    BY <1>2 DEF Crash, OutsideInv, Moments
  <2>2. 0 <= txns
    BY BoundsAssumption DEF TypeInv, TypeOK
  <2> QED BY <1>2, <2>1, <2>2 DEF Crash, OutsideInv, Moments, AdmitMoment, Outcomes, Preparing,
             Writing
<1>3. CASE Fault
  BY <1>3, ThrowOutside DEF Fault
<1>4. CASE FaultAfter
  <2>1. journal'.txn <= txns
    <3>1. 0 <= txns
      BY BoundsAssumption DEF TypeInv, TypeOK
    <3> QED BY <1>4, <3>1 DEF FaultAfter, NoJournal, OutsideInv, Moments
  <2> QED BY <1>4, <2>1, ReturnOutside DEF FaultAfter
<1>5. CASE UNCHANGED vars
  BY <1>5 DEF vars, disk, memory, history, OutsideInv, Moments, AdmitMoment, Outcomes, Preparing,
     Writing,
              Ahead, Halfway, Behind, StageHolds, StageOf, Changes, Clean, Edited
<1> QED BY <1>1, <1>2, <1>3, <1>4, <1>5, PublishOutside, RecoveryOutside, EditOutside DEF Next

THEOREM OutsideInvariant ==
  Spec => [](TypeInv /\ SafetyInv /\ OutsideInv)
<1>1. Init => OutsideInv
  BY OutsideInit
<1>2. TypeInv /\ SafetyInv /\ OutsideInv /\ [Next]_vars => OutsideInv'
  BY OutsideStep DEF SafetyInv
<1> QED BY <1>1, <1>2, SafetyInvariant, PTL DEF Spec

\* What was edited while the host callback looked at the new tree is not
\* committed with it (publisher.ts reads every live file after the callback).
THEOREM LateEditsAreSeen == Spec => []LateEditNotAccepted
<1>1. TypeInv /\ SafetyInv /\ OutsideInv => LateEditNotAccepted
  <2> SUFFICES ASSUME TypeInv, SafetyInv, OutsideInv, task = "publish", journal.phase = "committed"
               PROVE  \A i \in Path : editedAt[i] # AdmitMoment
    BY DEF LateEditNotAccepted, AdmitMoment
  <2>1. pc # "admit"
    BY DEF SafetyInv, Control
  <2> QED BY <2>1 DEF OutsideInv, Moments
<1> QED BY <1>1, OutsideInvariant, PTL

-----------------------------------------------------------------------------
(* Outside bytes.                                                          *)

\* Outside bytes at a path came since the last look at it.
InWindow(i, at) ==
  live[i] = Foreign => editedAt[i].txn = txn /\ editedAt[i].pc \in SinceLook(at)

Looked ==
  /\ Writing("prepared") \/ Writing("publishing") => \A i \in Path : InWindow(i, "forward")
  /\ pc \in {"forward", "place"} => \A i \in Path : i >= pos => InWindow(i, "forward")
  /\ pc \in {"remove", "putBack"} => InWindow(pos, pc)

LEMMA LookedInit == Init => Looked
BY DEF Init, Looked, Writing

\* What a plan wants is not what an outside writer leaves.
LEMMA PlanHasNoForeign ==
  ASSUME TypeInv, NEW i \in Path
  PROVE  plan.prior[i] # Foreign /\ plan.next[i] # Foreign /\ Absent # Foreign
<1>1. plan.prior \in Tree /\ plan.next \in Tree
  BY PlanIsRecord DEF TypeInv, TypeOK
<1> QED BY <1>1, ContentAssumption DEF Tree, State

\* An exception ends the work on every transition, or starts to turn back.
LEMMA ThrowLooked == ASSUME Throw PROVE Looked'
BY DEF Throw, Return, Unwind, Looked, Writing

\* What is at the paths ahead of the forward loop is looked at under the lock,
LEMMA ForwardLooked ==
  ASSUME TypeInv, Looked,
         Verify \/ JournalWrite \/ JournalRename \/ Forward \/ Place
  PROVE  Looked'
<1> USE DEF SinceLook
<1>1. CASE Throw
  BY <1>1, ThrowLooked
<1>2. CASE Verify /\ AllPrior(plan) /\ Persist("prepared") /\ UNCHANGED <<disk, history>>
  <2>1. \A i \in Path : live'[i] # Foreign
    BY <1>2, PlanHasNoForeign DEF AllPrior, disk
  <2> QED BY <1>2, <2>1 DEF Persist, Looked, Writing, InWindow
<1>3. CASE JournalWrite /\ Goto("journalRename") /\ UNCHANGED <<live, history>>
  BY <1>3 DEF JournalWrite, Goto, history, Looked, Writing, InWindow
<1>4. CASE JournalRename
  <2>1. UNCHANGED <<live, editedAt, txn>>
    BY <1>4 DEF JournalRename
  <2>2. CASE target \in {"prepared", "publishing"}
    <3>1. \A i \in Path : InWindow(i, "forward")'
      BY <1>4, <2>1, <2>2 DEF JournalRename, Looked, Writing, InWindow
    <3>2. pc' \in {"journalWrite", "forward"} /\ (pc' = "journalWrite" => target' = "publishing")
      BY <1>4, <2>2 DEF JournalRename, AfterPhase
    <3> QED BY <3>1, <3>2 DEF Looked
  <2>3. CASE target \notin {"prepared", "publishing"}
    BY <1>4, <2>3 DEF JournalRename, AfterPhase, FirstCleanup, Looked, Writing, TypeInv, TypeOK, Phase
  <2> QED BY <2>2, <2>3
<1>5. CASE (Forward /\ ~Throw) \/ Place
  <2>1. /\ pos \in Path /\ pc \in {"forward", "place"} /\ live \in [Path -> Bytes]
        /\ UNCHANGED <<editedAt, txn>>
    BY <1>5 DEF Forward, Place, PublishNext, Goto, history, TypeInv, TypeOK
  <2>2. \A i \in Path \ {pos} : live'[i] = live[i]
    BY <1>5, <2>1 DEF Forward, Place, disk
  <2>3. \A i \in Path : i >= pos /\ i # pos => InWindow(i, "forward")'
    BY <2>1, <2>2 DEF Looked, InWindow
  <2>4. CASE PublishNext
    <3>1. \/ pc' = "journalWrite" /\ target' = "published"
          \/ pc' = "forward" /\ pos' = pos + 1
      BY <2>4 DEF PublishNext
    <3>2. \A i \in Path : i >= pos + 1 => i >= pos /\ i # pos
      BY <2>1 DEF Path
    <3> QED BY <2>3, <3>1, <3>2 DEF Looked, Writing
  <2>5. CASE Forward /\ Goto("place")
    <3>1. pc' = "place" /\ pos' = pos
      BY <2>5 DEF Goto
    <3>2. live'[pos] \in {live[pos], Absent}
      <4>1. Forward /\ ~Throw /\ ~PublishNext
        BY <1>5, <2>1, <2>5 DEF Place, Forward, Goto, PublishNext
      <4>2. live' = live \/ live' = [live EXCEPT ![pos] = Absent]
        BY <4>1 DEF Forward, disk
      <4> QED BY <2>1, <4>2
    <3>3. InWindow(pos, "forward")
      BY <2>1 DEF Looked, Path
    <3>4. \A i \in Path : i = pos => InWindow(i, "forward")'
      BY <2>1, <3>2, <3>3, PlanHasNoForeign DEF InWindow
    <3> QED BY <2>3, <3>1, <3>4 DEF Looked, Writing
  <2> QED BY <1>5, <2>4, <2>5 DEF Forward, Place
<1> QED BY <1>1, <1>2, <1>3, <1>4, <1>5 DEF Verify, JournalWrite, Forward

\* what is at a transition of the backward loop just before it is removed.
LEMMA BackwardLooked ==
  ASSUME TypeInv, Looked, Restore \/ Remove \/ PutBack
  PROVE  Looked'
<1>0. pos \in Path /\ live \in [Path -> Bytes]
  BY DEF Restore, Remove, PutBack, TypeInv, TypeOK
<1>1. CASE Throw
  BY <1>1, ThrowLooked
<1>2. CASE RestoreNext
  BY <1>2 DEF RestoreNext, Looked, Writing
<1>3. CASE Restore /\ Goto(pc') /\ pc' \in {"remove", "putBack"} /\ live' = live
           /\ (HoldsNew(plan, pos) \/ live[pos] = Absent)
  <2>1. live'[pos'] # Foreign
    BY <1>0, <1>3, PlanHasNoForeign DEF Goto, HoldsNew
  <2> QED BY <1>3, <2>1 DEF Looked, Writing, InWindow
<1>4. CASE Remove /\ Goto("putBack")
  <2>1. live'[pos'] # Foreign
    BY <1>0, <1>4, PlanHasNoForeign DEF Remove, Goto
  <2> QED BY <1>4, <2>1 DEF Goto, Looked, Writing, InWindow
<1> QED
  BY <1>1, <1>2, <1>3, <1>4 DEF Restore, Remove, PutBack, Goto, disk, CanRemove, CanPutBack

\* Who edits in a window is in it.
LEMMA EditLooked ==
  ASSUME TypeInv, Looked,
         \/ \E i \in Path, bytes \in {Foreign, Absent} : EditLive(i, bytes)
         \/ \E i \in Path : EditStaged(i)
  PROVE  Looked'
<1>0. PICK k \in Path : (\E bytes \in {Foreign, Absent} : EditLive(k, bytes)) \/ EditStaged(k)
  OBVIOUS
<1>1. /\ UNCHANGED memory /\ editedAt' = [editedAt EXCEPT ![k] = [pc |-> pc, txn |-> txn]]
      /\ editedAt \in [Path -> Moment \cup {Never}] /\ live \in [Path -> Bytes]
      /\ \A i \in Path \ {k} : live'[i] = live[i]
  BY <1>0 DEF EditLive, EditStaged, TypeInv, TypeOK
<1>2. editedAt'[k].pc = pc /\ editedAt'[k].txn = txn /\ \A i \in Path \ {k} : editedAt'[i] = editedAt[i]
  BY <1>1
<1>3. ASSUME NEW at \in Pc, pc \in SinceLook(at), NEW i \in Path, InWindow(i, at)
      PROVE  InWindow(i, at)'
  BY <1>1, <1>2, <1>3 DEF InWindow, SinceLook, memory
<1>4. Writing("prepared") \/ Writing("publishing") => \A i \in Path : InWindow(i, "forward")'
  BY <1>3 DEF Looked, Writing, SinceLook, Pc
<1>5. pc \in {"forward", "place"} => \A i \in Path : i >= pos => InWindow(i, "forward")'
  BY <1>3 DEF Looked, SinceLook, Pc
<1>6. pc \in {"remove", "putBack"} => InWindow(pos, pc)'
  <2> SUFFICES ASSUME pc \in {"remove", "putBack"} PROVE InWindow(pos, pc)'
    OBVIOUS
  <2>1. pos \in Path /\ pc \in SinceLook(pc) /\ pc' = pc /\ pos' = pos /\ txn' = txn
    BY <1>1 DEF SinceLook, memory, TypeInv, TypeOK
  <2>2. CASE pos = k
    BY <1>2, <2>1, <2>2 DEF InWindow
  <2>3. CASE pos # k
    BY <1>1, <1>2, <2>1, <2>3 DEF InWindow, Looked
  <2> QED BY <2>2, <2>3
<1> QED BY <1>1, <1>4, <1>5, <1>6 DEF Looked, Writing, memory

LEMMA LookedStep ==
  ASSUME TypeInv, Looked, [Next]_vars
  PROVE  Looked'
<1>1. CASE Throw
  BY <1>1, ThrowLooked
<1>2. CASE Verify \/ JournalWrite \/ JournalRename \/ Forward \/ Place
  BY <1>2, ForwardLooked
<1>3. CASE Restore \/ Remove \/ PutBack
  BY <1>3, BackwardLooked
<1>4. CASE \/ \E i \in Path, bytes \in {Foreign, Absent} : EditLive(i, bytes)
           \/ \E i \in Path : EditStaged(i)
  BY <1>4, EditLooked
<1>5. CASE UNCHANGED vars
  BY <1>5 DEF vars, disk, memory, history, Looked, Writing, InWindow
<1>6. CASE DropWork /\ UNCHANGED memory
  BY <1>6 DEF DropWork, memory, history, Looked, Writing, InWindow
<1>7. CASE ReclaimLock /\ UNCHANGED memory
  BY <1>7 DEF ReclaimLock, memory, history, Looked, Writing, InWindow
<1>8. CASE \E p \in Plans : Publish(p)
  BY <1>8 DEF Publish, memory, Looked, Writing, InWindow
<1>9. ASSUME \/ pc' \in {"idle", "lockWrite", "verify", "restore", "dropTmp", "dropWork", "dropLock", "dropJournal"}
             \/ pc' = "journalWrite" /\ target' \in {"committed", "rolling-back"}
      PROVE  Looked'
  BY <1>9 DEF Looked, Writing
<1>10. CASE \/ CreateLock \/ WriteLock \/ AssertPrior \/ \E admitted \in BOOLEAN : Admit(admitted)
            \/ DropTmp \/ DropLock \/ DropJournal \/ Crash \/ FaultAfter
  <2>1. \/ Throw
        \/ pc' \in {"idle", "lockWrite", "verify", "dropWork", "dropLock", "dropJournal"}
        \/ pc' = "journalWrite" /\ target' = "committed"
    BY <1>10 DEF CreateLock, WriteLock, AssertPrior, Admit, DropTmp, DropLock, DropJournal, Crash,
                 FaultAfter, Return, Goto, Persist
  <2> QED BY <1>1, <1>9, <2>1
<1>11. CASE StartRecovery
  BY <1>9, <1>11 DEF StartRecovery, RecoverOrphan, RecoverJournalOnly, Recover, Refuse, Return, Unwind,
                     FirstCleanup
<1>12. CASE DropWork /\ ~UNCHANGED memory
  BY <1>9, <1>12 DEF DropWork, Goto
<1>13. CASE ReclaimLock /\ ~UNCHANGED memory
  BY <1>1, <1>13 DEF ReclaimLock
<1> QED
  BY <1>1, <1>2, <1>3, <1>4, <1>5, <1>6, <1>7, <1>8, <1>10, <1>11, <1>12, <1>13
     DEF Next, Operation, Fault

\* Outside bytes on a live path are overwritten, moved or removed only by the
\* operation at that path, and only if they came after the last look at it: the
\* check under the lock (publisher.ts:282) for the forward loop, the reads of the
\* same transition (recovery.ts:123-128) for the backward loop.
THEOREM OutsideBytesSurvive == Spec => OutsideBytesOnlyLostInWindow
<1>1. TypeInv /\ Looked /\ [Next]_vars =>
        [\A i \in Path : live[i] = Foreign /\ live'[i] # Foreign =>
           pos = i /\ editedAt[i].txn = txn /\ editedAt[i].pc \in SinceLook(pc)]_vars
  <2> SUFFICES ASSUME TypeInv, Looked, Next, NEW i \in Path, live[i] = Foreign, live'[i] # Foreign
               PROVE  pos = i /\ editedAt[i].txn = txn /\ editedAt[i].pc \in SinceLook(pc)
    OBVIOUS
  <2>0. live \in [Path -> Bytes] /\ pos \in Int
    BY LastAssumption DEF TypeInv, TypeOK
  <2>1. CASE Operation
    <3>1. \/ Forward /\ live' = [live EXCEPT ![pos] = Absent]
          \/ Place /\ live' = [live EXCEPT ![pos] = staged[pos]]
          \/ Remove /\ live' = [live EXCEPT ![pos] = Absent]
          \/ PutBack /\ live' = [live EXCEPT ![pos] = backup[pos]]
      BY <2>1 DEF Operation, CreateLock, WriteLock, ReclaimLock, Verify, Forward, Place, Admit,
                  JournalWrite, JournalRename, Restore, Remove, PutBack, AssertPrior, DropTmp,
                  DropWork, DropLock, DropJournal, Throw, disk
    <3>2. i = pos
      BY <2>0, <3>1
    <3>3. InWindow(i, pc)
      <4>1. pc \in {"forward", "place"} => InWindow(i, "forward")
        BY <2>0, <3>2 DEF Looked
      <4>2. pc \in {"forward", "place"} => InWindow(i, pc)
        BY <4>1 DEF InWindow, SinceLook
      <4>3. pc \in {"remove", "putBack"} => InWindow(i, pc)
        BY <3>2 DEF Looked
      <4> QED BY <3>1, <4>2, <4>3 DEF Forward, Place, Remove, PutBack
    <3> QED BY <3>2, <3>3 DEF InWindow
  <2>2. CASE ~Operation
    <3>1. UNCHANGED live \/ \E j \in Path, bytes \in {Foreign, Absent} : EditLive(j, bytes)
      BY <2>2 DEF Next, Publish, StartRecovery, RecoverOrphan, RecoverJournalOnly, Recover, Refuse,
                  Crash, Fault, FaultAfter, EditStaged, Throw, disk
    <3> QED BY <2>0, <3>1 DEF EditLive
  <2> QED BY <2>1, <2>2
<1>2. TypeInv /\ Looked /\ [Next]_vars => Looked'
  BY LookedStep
<1> QED
  BY <1>1, <1>2, TypeInit, TypeStep, LookedInit, PTL DEF Spec, OutsideBytesOnlyLostInWindow

-----------------------------------------------------------------------------
(* Answers.                                                                *)

\* A call that throws has put the old tree back, or left the journal that says
\* how to, or stopped before it undid anything of a committed tree.
LEMMA ThrowAnswers ==
  ASSUME TypeInv, SafetyInv, OutsideInv, Throw, pc # "idle", pc' = "idle", Edited' = {},
         cleanupThrew => cleanupThrew'
  PROVE  /\ outcome' \in {"failed", "refused"}
         /\ outcome' = "failed" =>
              \/ \A i \in Path : live'[i] = plan.prior[i]
              \/ Uncommitted'
              \/ cleanupThrew' /\ \A i \in Path : live'[i] = plan.next[i]
<1> USE DEF SafetyInv, Places, OutsideInv
<1>0. Edited = {} /\ Clean = Path /\ UNCHANGED live
  BY DEF Throw, Return, Unwind, disk, Edited, Clean
<1>1. /\ pc \in {"idle", "lock"} \/ Preparing \/ Working
      /\ pc \in {"lock", "lockWrite", "verify"} \/ Writing("prepared") =>
           \A i \in Path : live[i] = plan.prior[i]
  BY <1>0 DEF TypeInv, TypeOK, Pc, Phase, Preparing, Working, Writing, Forwards, Backwards,
     Finishing,
              Cleaning, Cleanup, Outcomes, InWork
<1>2. Unwind("unwind") => pc' # "idle"
  BY DEF Unwind
<1>3. CASE task = "publish" /\ pc \in {"lock", "lockWrite"}
  BY <1>0, <1>1, <1>3, <1>2 DEF Throw, Return, Control, Preparing
<1>4. CASE task = "publish" /\ pc \notin {"lock", "lockWrite"} /\ ~prepared
  <2>1. ~Working
    BY <1>4 DEF Control
  <2>2. \A i \in Path : live[i] = plan.prior[i]
    BY <1>1, <1>4, <2>1 DEF Preparing
  <2> QED BY <1>0, <1>4, <2>2 DEF Throw, Return
<1>5. CASE task = "publish" /\ prepared
  <2>1. Working /\ journal # NoJournal
    BY <1>1, <1>5 DEF Control
  <2>2. pc \notin {"lock", "lockWrite"}
    BY <1>5 DEF Control, Preparing
  <2> QED BY <1>2, <1>5, <2>1, <2>2 DEF Throw
<1>6. CASE task # "publish"
  <2>1. Backwards \/ Finishing \/ Cleaning
    BY <1>1, <1>6 DEF Control, Working
  <2>2. Return(IF task = "unwind" THEN "failed" ELSE "refused") /\ UNCHANGED journal
    BY <1>6 DEF Throw
  <2>3. Finishing \/ (Backwards /\ journal.phase # "committed") => Uncommitted'
    BY <2>2 DEF Control, Working, Uncommitted
  <2>4. task = "unwind" /\ Cleaning => \A i \in Path : live'[i] = plan.prior[i]
    BY <1>0 DEF InWork
  <2>5. Backwards /\ journal.phase = "committed" =>
          cleanupThrew' /\ \A i \in Path : live'[i] = plan.next[i]
    <3>1. Backwards /\ journal.phase = "committed" => cleanupThrew /\ Writing("rolling-back")
      BY DEF Control, Backwards
    <3> QED BY <1>0, <3>1 DEF InWork, IsNew, IsBare
  <2> QED BY <2>1, <2>2, <2>3, <2>4, <2>5 DEF Return
<1> QED BY <1>3, <1>4, <1>5, <1>6

\* What a caller is told is what it finds: the new tree after "published" and
\* "committed", the old one after "rolled-back", and after "failed" the old one,
\* or the journal of a rollback that was cut short, or, only if it was the
\* cleanup after the commit that threw, the new one.
THEOREM AnswersAreTrue == Spec => AnswerMatchesTree
<1> DEFINE Answered ==
      pc # "idle" /\ pc' = "idle" /\ Edited' = {} =>
        /\ outcome' \in {"published", "committed"} => \A i \in Path : live'[i] = plan.next[i]
        /\ outcome' = "rolled-back" => \A i \in Path : live'[i] = plan.prior[i]
        /\ outcome' = "failed" =>
             \/ \A i \in Path : live'[i] = plan.prior[i]
             \/ Uncommitted'
             \/ cleanupThrew' /\ \A i \in Path : live'[i] = plan.next[i]
<1>1. TypeInv /\ SafetyInv /\ OutsideInv /\ [Next]_vars => [Answered]_vars
  <2> SUFFICES ASSUME TypeInv, SafetyInv, OutsideInv, Next, pc # "idle", pc' = "idle", Edited' = {}
               PROVE  Answered
    OBVIOUS
  <2>1. CASE Throw /\ (cleanupThrew => cleanupThrew')
    BY <2>1, ThrowAnswers
  <2>2. pc \in Cleanup /\ UNCHANGED <<live, editedAt>> =>
          IF task \in {"publish", "commit"} THEN \A i \in Path : live'[i] = plan.next[i]
                                            ELSE \A i \in Path : live'[i] = plan.prior[i]
    BY DEF SafetyInv, Places, InWork, Cleaning, Clean, Edited
  <2>8. CASE DropJournal
    <3>1. pc \in Cleanup /\ UNCHANGED <<live, editedAt>>
      BY <2>8 DEF DropJournal, Return, Cleanup
    <3>3. outcome' = Answer(task) /\ task \in Task
      BY <2>8 DEF DropJournal, Return, TypeInv, TypeOK
    <3> QED BY <2>2, <3>1, <3>3 DEF Answer, Task
  <2>3. CASE FaultAfter
    <3>1. CASE pc = "lockWrite" /\ Return("failed")
      <4>1. \A i \in Path : live'[i] = plan.prior[i]
        BY <2>3, <3>1 DEF FaultAfter, Return, OutsideInv, Outcomes, Clean, Edited
      <4> QED BY <3>1, <4>1 DEF Return
    <3>2. CASE journal' = [txn |-> txn, phase |-> "prepared", plan |-> plan] /\ Return("failed")
      <4>1. Uncommitted'
        BY <3>2, NewJournalIsRecord DEF Uncommitted, Phase
      <4> QED BY <3>2, <4>1 DEF Return
    <3>3. CASE pc = "dropJournal" /\ cleanupThrew' = (cleanupThrew \/ task = "publish")
               /\ Return(IF task \in {"publish", "unwind"} THEN "failed" ELSE "refused")
      <4>1. pc \in Cleanup /\ UNCHANGED <<live, editedAt>>
        BY <2>3, <3>3 DEF FaultAfter, Return, Cleanup
      <4> QED BY <2>2, <3>3, <4>1 DEF Return
    <3> QED BY <2>3, <3>1, <3>2, <3>3 DEF FaultAfter
  <2>4. CASE Crash
    BY <2>4 DEF Crash
  <2>5. CASE Operation /\ ~Throw /\ ~DropJournal
    BY <2>5 DEF Operation, CreateLock, WriteLock, ReclaimLock, Verify, Forward, Place, Admit,
       JournalWrite,
                JournalRename, Restore, Remove, PutBack, AssertPrior, DropTmp, DropWork, DropLock, Goto,
                PublishNext, RestoreNext, Persist, memory, AfterPhase, FirstCleanup, TypeInv, TypeOK, Phase
  <2>6. CASE Operation /\ Throw /\ ~DropJournal
    <3>1. CASE JournalRename
      BY <3>1 DEF JournalRename, AfterPhase, FirstCleanup, TypeInv, TypeOK, Phase
    <3>2. ~JournalRename => UNCHANGED cleanupThrew
      BY <2>6 DEF Operation, CreateLock, WriteLock, ReclaimLock, Verify, Forward, Place, Admit,
                  JournalWrite, Restore, Remove, PutBack, AssertPrior, DropTmp, DropWork, DropLock,
                  history
    <3> QED BY <2>1, <2>6, <3>1, <3>2
  <2>7. CASE ~Operation /\ ~Crash /\ ~FaultAfter
    <3>1. CASE Fault
      BY <2>1, <3>1 DEF Fault
    <3>2. CASE \E i \in Path : EditStaged(i) \/ \E bytes \in {Foreign, Absent} : EditLive(i, bytes)
      BY <3>2 DEF EditStaged, EditLive, memory
    <3>3. pc = "idle" \/ Fault \/ \E i \in Path : EditStaged(i) \/ \E bytes \in {Foreign, Absent} : EditLive(i, bytes)
      BY <2>7 DEF Next, Publish, StartRecovery, RecoverOrphan, RecoverJournalOnly, Recover
    <3> QED BY <3>1, <3>2, <3>3
  <2> QED BY <2>8, <2>3, <2>4, <2>5, <2>6, <2>7
<1> QED BY <1>1, OutsideInvariant, PTL DEF Spec, AnswerMatchesTree
=============================================================================
