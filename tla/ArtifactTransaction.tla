------------------------- MODULE ArtifactTransaction -------------------------
(***************************************************************************)
(* The durable artifact transition of tooling/src/artifacts: publisher.ts  *)
(* moves one authorized set of files into place, recovery.ts finishes or   *)
(* undoes what a stopped process left.                                     *)
(*                                                                         *)
(* One process works on a project at a time (a development session holds   *)
(* its lifetime lock around every call), but it may stop between any two   *)
(* durable file operations, any of those may throw, and an outside writer  *)
(* that knows nothing of the protocol may edit live or staged files.       *)
(* Every action below is one durable operation, or one look at the files   *)
(* that decides what comes next.  LifetimeLock models several processes    *)
(* that claim one lock.                                                    *)
(***************************************************************************)
EXTENDS Integers

CONSTANTS
  Last,          \* number of transitions of a plan; the last is the commit marker
  Content,       \* exact file states: digest, size and mode together
  Absent,        \* the state of a path that has no file
  Foreign,       \* bytes an outside writer put somewhere
  Plans,         \* the plans a host may authorize
  InitialTree,   \* the live tree before the first transaction
  MaxTxns,       \* bound: calls of publishArtifacts that reach the lock
  MaxCrashes,    \* bound: process deaths
  MaxFaults,     \* bound: file operations that throw
  MaxEdits       \* bound: outside edits

Path   == 1..Last
Marker == Last
State  == Content \cup {Absent}
Bytes  == State \cup {Foreign}
Tree   == [Path -> State]
Plan   == [prior : Tree, next : Tree]

ASSUME LastAssumption    == Last \in Nat \ {0}
ASSUME ContentAssumption == Absent \notin Content /\ Foreign \notin State
\* validatePublicationPlan refuses a plan whose commit marker does not change.
ASSUME PlansAssumption   == Plans \subseteq {p \in Plan : p.prior[Marker] # p.next[Marker]}
ASSUME TreeAssumption    == InitialTree \in Tree
ASSUME BoundsAssumption  ==
  MaxTxns \in Nat /\ MaxCrashes \in Nat /\ MaxFaults \in Nat /\ MaxEdits \in Nat

Phase    == {"prepared", "publishing", "published", "rolling-back", "committed"}
Journal  == [txn : 0..MaxTxns, phase : Phase, plan : Plans]
NoJournal == [txn |-> 0, phase |-> "none"]
Lock     == [txn : 0..MaxTxns, pid : 0..MaxCrashes]
NoLock   == [txn |-> 0, pid |-> -1]
TornLock == [txn |-> 0, pid |-> -2]   \* created, its bytes not yet written

VARIABLES
  live,      \* the public files
  backup,    \* work/backup: the old files that were moved aside
  staged,    \* the private files of the current call
  lock,      \* the lock file
  journal,   \* journal.json
  tmp,       \* whether journal.json.tmp exists
  pid,       \* the running process; a process that died never has this number
  pc,        \* the next operation of that process
  task,      \* what it is doing: publish, unwind, commit or restore
  prepared,  \* publisher.ts journalPrepared
  plan,      \* the plan in memory
  txn,       \* the transaction id in memory
  pos,       \* the transition the loop is at
  target,    \* the phase being persisted
  txns,      \* transaction ids handed out so far
  faults,    \* operations that threw so far
  edits,     \* outside edits so far
  editedAt,  \* history: when an outside writer last touched a path
  outcome,   \* history: how the last call ended
  cleanupThrew  \* history: after the commit of the last transaction that has,
                \* or had, a journal, the cleanup of publishArtifacts threw

disk    == <<live, backup, staged, lock, journal, tmp>>
memory  == <<pid, pc, task, prepared, plan, txn, pos, target>>
history == <<txns, faults, edits, editedAt, outcome, cleanupThrew>>
vars    == <<disk, memory, history>>

Pc == {"idle", "lock", "lockWrite", "verify", "journalWrite", "journalRename",
       "forward", "place", "admit", "restore", "remove", "putBack", "assertPrior",
       "dropTmp", "dropWork", "dropLock", "dropJournal"}
Cleanup == {"dropTmp", "dropWork", "dropLock", "dropJournal"}
Task    == {"publish", "unwind", "commit", "restore"}
Outcome == {"none", "unchanged", "failed", "published", "refused", "committed",
            "rolled-back", "stopped"}
Moment  == [pc : Pc, txn : 0..MaxTxns]
Never   == [pc |-> "never", txn |-> 0]
NoPlan  == [prior |-> InitialTree, next |-> InitialTree]

AllPrior(p) == \A i \in Path : live[i] = p.prior[i]
\* Mutant: one path enough.
SomeNext(p) == \E i \in Path : live[i] = p.next[i]
AllNext(p)  == \A i \in Path : live[i] = p.next[i]
Changes(p, i) == p.prior[i] # p.next[i]

\* The private stage of a plan: one file for each transition that writes one.
StageOf(p) == [i \in Path |-> IF Changes(p, i) THEN p.next[i] ELSE Absent]

\* The paths an outside writer touched.
Edited == {i \in Path : editedAt[i] # Never}

Uncommitted == journal # NoJournal /\ journal.phase # "committed"

\* The loops over the transitions: forward in plan order, marker last; back
\* from the marker.
SkipsMarker    == Last - 1   \* mutant
FirstPublished  == 1
LastPublished   == Last
FirstRolledBack == Last
LastRolledBack  == 1

\* publishTransition moves the old file aside before it places the new one.
BacksUpRemovals(p, i) == p.next[i] = Absent   \* mutant: an update overwrites
NeedsBackup(p, i) == p.prior[i] # Absent

\* What rollbackTransition finds at a path: it is as before, its new file can
\* be removed, or its old file can be put back, after the new one is removed if
\* it is there.  Anything else is ambiguous.
TakesAnyFile(p, i) == live[i] # Absent        \* mutant
BackupOverNew(p, i) ==                        \* mutant: forgets the absent file
  /\ Changes(p, i) /\ p.prior[i] # Absent
  /\ backup[i] = p.prior[i] /\ live[i] = p.next[i] /\ p.next[i] # Absent
Untouched(p, i) == live[i] = p.prior[i] /\ backup[i] = Absent
HoldsNew(p, i)  == live[i] = p.next[i] /\ p.next[i] # Absent
IsRestored(p, i) == IF Changes(p, i) THEN Untouched(p, i) ELSE live[i] = p.prior[i]
CanRemove(p, i) ==
  Changes(p, i) /\ p.prior[i] = Absent /\ backup[i] = Absent /\ HoldsNew(p, i)
CanPutBack(p, i) ==
  /\ Changes(p, i) /\ p.prior[i] # Absent /\ ~Untouched(p, i)
  /\ backup[i] = p.prior[i]
  /\ HoldsNew(p, i) \/ live[i] = Absent
Resolvable(p, i) == IsRestored(p, i) \/ CanRemove(p, i) \/ CanPutBack(p, i)

\* The order of the cleanup, and what a finished call answers.
SwallowsError(of) == IF of = "restore" THEN "rolled-back" ELSE "published"  \* mutant
FirstCleanup == "dropTmp"
Answer(of) == CASE of = "publish" -> "published"
                [] of = "unwind"  -> "failed"
                [] of = "commit"  -> "committed"
                [] of = "restore" -> "rolled-back"

Init ==
  /\ live = InitialTree
  /\ backup = [i \in Path |-> Absent]
  /\ staged = [i \in Path |-> Absent]
  /\ lock = NoLock /\ journal = NoJournal /\ tmp = FALSE
  /\ pid = 0 /\ pc = "idle" /\ task = "publish" /\ prepared = FALSE
  /\ plan = NoPlan /\ txn = 0 /\ pos = 0 /\ target = "prepared"
  /\ txns = 0 /\ faults = 0 /\ edits = 0
  /\ editedAt = [i \in Path |-> Never] /\ outcome = "none" /\ cleanupThrew = FALSE

-----------------------------------------------------------------------------
(* Ways a call ends or turns back.                                         *)

\* The call returns or throws; what is on disk stays there.
Return(result) ==
  /\ pc' = "idle" /\ outcome' = result
  /\ task' = "publish" /\ prepared' = FALSE /\ plan' = NoPlan
  /\ txn' = 0 /\ pos' = 0 /\ target' = "prepared"
  /\ staged' = [i \in Path |-> Absent]
  /\ UNCHANGED <<pid, txns, edits, editedAt>>

Goto(next) == pc' = next /\ UNCHANGED <<pid, task, prepared, plan, txn, pos, target>>

\* Begin to write a phase: the next two operations create journal.json.tmp and
\* rename it over journal.json.
Persist(phase) ==
  /\ pc' = "journalWrite" /\ target' = phase
  /\ UNCHANGED <<pid, task, prepared, plan, txn, pos>>

\* rollbackTransaction: marker first, then the artifacts from the last back.
Unwind(why) ==
  /\ task' = why /\ plan' = journal.plan /\ txn' = journal.txn /\ pos' = FirstRolledBack
  /\ IF journal.phase = "rolling-back"
     THEN pc' = "restore" /\ UNCHANGED target
     ELSE pc' = "journalWrite" /\ target' = "rolling-back"
  /\ UNCHANGED <<pid, prepared>>

\* An exception: publishArtifacts gives the lock back if it had written no
\* journal, else rolls back; inside a rollback or a recovery it propagates.
Throw ==
  \/ /\ task = "publish" /\ pc \in {"lock", "lockWrite"}
     /\ Return("failed")
     /\ UNCHANGED <<live, backup, lock, journal, tmp>>
  \/ /\ task = "publish" /\ pc \notin {"lock", "lockWrite"} /\ ~prepared
     /\ lock' = NoLock
     /\ Return("failed")
     /\ UNCHANGED <<live, backup, journal, tmp>>
  \/ /\ task = "publish" /\ prepared
     /\ IF journal = NoJournal
        THEN Return("failed") /\ UNCHANGED <<live, backup, lock, journal, tmp>>
        ELSE Unwind("unwind") /\ UNCHANGED <<disk, txns, edits, editedAt, outcome>>
  \/ /\ task # "publish"
     /\ Return(IF task = "unwind" THEN "failed" ELSE "refused")
     /\ UNCHANGED <<live, backup, lock, journal, tmp>>

-----------------------------------------------------------------------------
(* publishArtifacts.                                                       *)

\* The preflight: nothing to do, a conflict, or on to the lock.
Publish(p) ==
  /\ pc = "idle" /\ txns < MaxTxns
  /\ \/ /\ AllPrior(p)
        /\ pc' = "lock" /\ plan' = p /\ staged' = StageOf(p)
        /\ txns' = txns + 1 /\ txn' = txns + 1
        /\ UNCHANGED <<pid, task, prepared, pos, target, outcome>>
     \/ /\ ~AllPrior(p)
        /\ outcome' = IF AllNext(p) THEN "unchanged" ELSE "failed"
        /\ UNCHANGED <<memory, staged, txns>>
  /\ UNCHANGED <<live, backup, lock, journal, tmp, faults, edits, editedAt, cleanupThrew>>

\* acquireLock finds no lock and creates the file.
CreateLock ==
  /\ pc = "lock" /\ lock = NoLock
  /\ lock' = TornLock
  /\ Goto("lockWrite")
  /\ UNCHANGED <<live, backup, staged, journal, tmp, history>>

WriteLock ==
  /\ pc = "lockWrite"
  /\ lock' = [txn |-> txn, pid |-> pid]
  /\ Goto("verify")
  /\ UNCHANGED <<live, backup, staged, journal, tmp, history>>

\* acquireLock finds a lock: it removes one whose process is dead and whose
\* journal is absent, and refuses every other.
ReclaimLock ==
  /\ pc = "lock" /\ lock # NoLock
  /\ IF lock # TornLock /\ journal = NoJournal /\ lock.pid # pid
     THEN /\ lock' = NoLock
          /\ UNCHANGED <<live, backup, staged, journal, tmp, memory, history>>
     ELSE Throw /\ UNCHANGED <<faults, cleanupThrew>>

\* The second check of stage and live files, under the lock.
Verify ==
  /\ pc = "verify"
  /\ IF staged = StageOf(plan) /\ AllPrior(plan)
     THEN Persist("prepared") /\ UNCHANGED <<disk, history>>
     ELSE Throw /\ UNCHANGED <<faults, cleanupThrew>>

\* The loop moves on to the next transition, or is done.
PublishNext ==
  /\ IF pos = LastPublished
     THEN pc' = "journalWrite" /\ target' = "published" /\ UNCHANGED pos
     ELSE pc' = "forward" /\ pos' = pos + 1 /\ UNCHANGED target
  /\ UNCHANGED <<pid, task, prepared, plan, txn>>

\* One transition of the forward loop: leave it, or move the old file aside
\* (the rename fails if an outside writer removed it).
Forward ==
  /\ pc = "forward"
  /\ \/ /\ ~Changes(plan, pos)
        /\ PublishNext /\ UNCHANGED <<disk, history>>
     \/ /\ Changes(plan, pos) /\ ~NeedsBackup(plan, pos)
        /\ Goto("place") /\ UNCHANGED <<disk, history>>
     \/ /\ Changes(plan, pos) /\ NeedsBackup(plan, pos) /\ live[pos] # Absent
        /\ backup' = [backup EXCEPT ![pos] = live[pos]]
        /\ live' = [live EXCEPT ![pos] = Absent]
        /\ Goto("place") /\ UNCHANGED <<staged, lock, journal, tmp, history>>
     \/ /\ Changes(plan, pos) /\ NeedsBackup(plan, pos) /\ live[pos] = Absent
        /\ Throw /\ UNCHANGED <<faults, cleanupThrew>>

\* Move the staged file over the live path, whatever is there by now.
Place ==
  /\ pc = "place"
  /\ IF plan.next[pos] = Absent
     THEN UNCHANGED <<live, staged>>
     ELSE /\ live' = [live EXCEPT ![pos] = staged[pos]]
          /\ staged' = [staged EXCEPT ![pos] = Absent]
  /\ PublishNext
  /\ UNCHANGED <<backup, lock, journal, tmp, history>>

\* The host callback answers; every live file is read once more.
TrustsHost(admitted) == admitted   \* mutant: no second look
Accepted(admitted) == admitted /\ AllNext(plan)

Admit(admitted) ==
  /\ pc = "admit"
  /\ IF Accepted(admitted)
     THEN Persist("committed") /\ UNCHANGED <<disk, history>>
     ELSE Throw /\ UNCHANGED <<faults, cleanupThrew>>

-----------------------------------------------------------------------------
(* The journal: persistJournal, updateJournal and persistPhase.            *)

JournalWrite ==
  /\ pc = "journalWrite"
  /\ IF tmp \/ (target = "prepared" /\ journal # NoJournal)
     THEN Throw /\ UNCHANGED <<faults, cleanupThrew>>
     ELSE /\ tmp' = TRUE
          /\ Goto("journalRename")
          /\ UNCHANGED <<live, backup, staged, lock, journal, history>>

\* What the process does once a phase is durable.
AfterPhase(phase) ==
  CASE phase = "prepared"     -> [pc |-> "journalWrite", target |-> "publishing", pos |-> pos]
    [] phase = "publishing"   -> [pc |-> "forward", target |-> target, pos |-> FirstPublished]
    [] phase = "published"    -> [pc |-> "admit", target |-> target, pos |-> pos]
    [] phase = "rolling-back" -> [pc |-> "restore", target |-> target, pos |-> pos]
    [] phase = "committed"    -> [pc |-> FirstCleanup, target |-> target, pos |-> pos]

JournalRename ==
  /\ pc = "journalRename"
  /\ journal' = [txn |-> txn, phase |-> target, plan |-> plan]
  /\ tmp' = FALSE
  /\ prepared' = (prepared \/ target = "prepared")
  /\ pc' = AfterPhase(target).pc
  /\ target' = AfterPhase(target).target
  /\ pos' = AfterPhase(target).pos
  /\ cleanupThrew' = (cleanupThrew /\ target # "prepared")
  /\ UNCHANGED <<pid, task, plan, txn, live, backup, staged, lock>>
  /\ UNCHANGED <<txns, faults, edits, editedAt, outcome>>

-----------------------------------------------------------------------------
(* rollbackTransaction.                                                    *)

RestoreNext ==
  /\ IF pos = LastRolledBack
     THEN pc' = "assertPrior" /\ UNCHANGED pos
     ELSE pc' = "restore" /\ pos' = pos - 1
  /\ UNCHANGED <<pid, task, prepared, plan, txn, target>>

\* One transition of the backward loop: the look at the live file and the backup.
Restore ==
  /\ pc = "restore"
  /\ \/ /\ IsRestored(plan, pos)
        /\ RestoreNext
        /\ UNCHANGED <<disk, history>>
     \/ /\ CanRemove(plan, pos) \/ (CanPutBack(plan, pos) /\ live[pos] # Absent)
        /\ Goto("remove")
        /\ UNCHANGED <<disk, history>>
     \/ /\ CanPutBack(plan, pos) /\ live[pos] = Absent
        /\ Goto("putBack")
        /\ UNCHANGED <<disk, history>>
     \/ /\ ~Resolvable(plan, pos)
        /\ Throw /\ UNCHANGED <<faults, cleanupThrew>>

\* The removal, of whatever is there by now.
Remove ==
  /\ pc = "remove"
  /\ live' = [live EXCEPT ![pos] = Absent]
  /\ IF plan.prior[pos] = Absent THEN RestoreNext ELSE Goto("putBack")
  /\ UNCHANGED <<backup, staged, lock, journal, tmp, history>>

\* The old file moves back, over whatever is there by now.
PutBack ==
  /\ pc = "putBack"
  /\ live' = [live EXCEPT ![pos] = backup[pos]]
  /\ backup' = [backup EXCEPT ![pos] = Absent]
  /\ RestoreNext
  /\ UNCHANGED <<staged, lock, journal, tmp, history>>

AssertPrior ==
  /\ pc = "assertPrior"
  /\ IF AllPrior(plan)
     THEN Persist("committed") /\ UNCHANGED <<disk, history>>
     ELSE Throw /\ UNCHANGED <<faults, cleanupThrew>>

-----------------------------------------------------------------------------
(* The cleanup both publisher.ts and cleanupTerminal perform.              *)

DropTmp ==
  /\ pc = "dropTmp"
  /\ tmp' = FALSE
  /\ Goto("dropWork")
  /\ UNCHANGED <<live, backup, staged, lock, journal, history>>

\* A recursive removal: backups go one by one, then the directory.
DropWork ==
  /\ pc = "dropWork"
  /\ \/ \E i \in Path : /\ backup[i] # Absent
                        /\ backup' = [backup EXCEPT ![i] = Absent]
                        /\ UNCHANGED memory
     \/ /\ \A i \in Path : backup[i] = Absent
        /\ Goto("dropLock")
        /\ UNCHANGED backup
  /\ UNCHANGED <<live, staged, lock, journal, tmp, history>>

\* cleanupTerminal compares the lock first, and throws if it is gone; the call
\* that wrote the lock takes its absence for done.
DropLock ==
  /\ pc = "dropLock"
  /\ IF lock = NoLock /\ task # "publish"
     THEN Throw /\ UNCHANGED <<faults, cleanupThrew>>
     ELSE /\ lock' = NoLock
          /\ Goto("dropJournal")
          /\ UNCHANGED <<live, backup, staged, journal, tmp, history>>

DropJournal ==
  /\ pc = "dropJournal"
  /\ journal' = NoJournal
  /\ Return(Answer(task))
  /\ UNCHANGED <<live, backup, lock, tmp, faults, cleanupThrew>>

-----------------------------------------------------------------------------
(* recoverArtifacts: one action per shape of lock and journal it may find. *)
(* admitPlan and admitIntended are the host's answers.                     *)

Refuse ==
  Return("refused") /\ UNCHANGED <<live, backup, lock, journal, tmp, faults, cleanupThrew>>

\* Control files that do not belong together.
RecoverOrphan ==
  /\ pc = "idle"
  /\ \/ journal = NoJournal /\ lock # NoLock
     \/ Uncommitted /\ lock = NoLock
     \/ journal # NoJournal /\ lock # NoLock /\ lock.txn # journal.txn
  /\ Refuse

\* A committed journal whose lock is gone: only the journal is left to remove.
RecoverJournalOnly(admitPlan) ==
  /\ pc = "idle" /\ lock = NoLock
  /\ journal # NoJournal /\ journal.phase = "committed"
  /\ IF admitPlan /\ (AllPrior(journal.plan) \/ AllNext(journal.plan))
     THEN /\ journal' = NoJournal
          /\ Return(IF AllNext(journal.plan) THEN "committed" ELSE "rolled-back")
          /\ UNCHANGED <<live, backup, lock, tmp, faults, cleanupThrew>>
     ELSE Refuse

\* Lock and journal of one stopped transaction.
Recover(admitPlan, admitIntended) ==
  LET p == journal.plan IN
  /\ pc = "idle" /\ journal # NoJournal /\ lock # NoLock /\ lock.txn = journal.txn
  /\ \/ /\ ~admitPlan
        /\ Refuse
     \/ /\ admitPlan /\ journal.phase = "committed"
        /\ IF AllPrior(p) \/ AllNext(p)
           THEN /\ pc' = FirstCleanup
                /\ task' = IF AllNext(p) THEN "commit" ELSE "restore"
                /\ plan' = p /\ txn' = journal.txn
                /\ UNCHANGED <<pid, prepared, pos, target, disk, history>>
           ELSE Refuse
     \/ /\ admitPlan /\ Uncommitted
        /\ IF AllNext(p) /\ admitIntended
           THEN /\ pc' = "journalWrite" /\ target' = "committed" /\ task' = "commit"
                /\ plan' = p /\ txn' = journal.txn
                /\ UNCHANGED <<pid, prepared, pos, disk, history>>
           ELSE Unwind("restore") /\ UNCHANGED <<disk, history>>

-----------------------------------------------------------------------------
(* The environment.                                                        *)

\* The process dies; a later one has another pid and remembers nothing.
Crash ==
  /\ pid < MaxCrashes
  /\ pid' = pid + 1
  /\ pc' = "idle" /\ outcome' = "stopped"
  /\ task' = "publish" /\ prepared' = FALSE /\ plan' = NoPlan
  /\ txn' = 0 /\ pos' = 0 /\ target' = "prepared"
  /\ staged' = [i \in Path |-> Absent]
  /\ UNCHANGED <<live, backup, lock, journal, tmp, txns, faults, edits, editedAt, cleanupThrew>>

\* An operation throws before it took effect.  The cleanup of publishArtifacts is
\* inside its try: what throws there rolls a committed transaction back.
Fault ==
  /\ faults < MaxFaults
  /\ pc # "idle"
  /\ faults' = faults + 1
  /\ cleanupThrew' = (cleanupThrew \/ (task = "publish" /\ pc \in Cleanup))
  /\ Throw

\* An operation takes effect, then the sync of its directory throws.  Most of the
\* time this is the fault of the operation that comes next; not when that one
\* would have been caught differently.
FaultAfter ==
  /\ faults < MaxFaults
  /\ faults' = faults + 1
  /\ \/ /\ pc = "lockWrite"
        /\ lock' = [txn |-> txn, pid |-> pid]
        /\ Return("failed")
        /\ UNCHANGED <<journal, tmp, cleanupThrew>>
     \* the first journal is in place although journalPrepared was never set
     \/ /\ pc = "journalRename" /\ target = "prepared"
        /\ journal' = [txn |-> txn, phase |-> target, plan |-> plan]
        /\ tmp' = FALSE /\ lock' = NoLock /\ cleanupThrew' = FALSE
        /\ Return("failed")
     \* everything is done, and there is no journal to roll back
     \/ /\ pc = "dropJournal"
        /\ journal' = NoJournal
        /\ cleanupThrew' = (cleanupThrew \/ task = "publish")
        /\ Return(IF task \in {"publish", "unwind"} THEN "failed" ELSE "refused")
        /\ UNCHANGED <<lock, tmp>>
  /\ UNCHANGED <<live, backup>>

\* The outside writer replaces, creates or deletes a file; its own it keeps.
EditLive(i, bytes) ==
  /\ edits < MaxEdits /\ live[i] # Foreign /\ live[i] # bytes
  /\ edits' = edits + 1
  /\ live' = [live EXCEPT ![i] = bytes]
  /\ editedAt' = [editedAt EXCEPT ![i] = [pc |-> pc, txn |-> txn]]
  /\ UNCHANGED <<backup, staged, lock, journal, tmp, memory, txns, faults, outcome,
                 cleanupThrew>>

EditStaged(i) ==
  /\ edits < MaxEdits
  /\ staged[i] # Absent
  /\ edits' = edits + 1
  /\ staged' = [staged EXCEPT ![i] = Foreign]
  /\ editedAt' = [editedAt EXCEPT ![i] = [pc |-> pc, txn |-> txn]]
  /\ UNCHANGED <<live, backup, lock, journal, tmp, memory, txns, faults, outcome,
                 cleanupThrew>>

-----------------------------------------------------------------------------
Operation ==
  \/ CreateLock \/ WriteLock \/ ReclaimLock \/ Verify \/ Forward \/ Place
  \/ \E admitted \in BOOLEAN : Admit(admitted)
  \/ JournalWrite \/ JournalRename
  \/ Restore \/ Remove \/ PutBack \/ AssertPrior
  \/ DropTmp \/ DropWork \/ DropLock \/ DropJournal

StartRecovery ==
  \/ RecoverOrphan
  \/ \E admitPlan \in BOOLEAN : RecoverJournalOnly(admitPlan)
  \/ \E admitPlan, admitIntended \in BOOLEAN : Recover(admitPlan, admitIntended)

Next ==
  \/ \E p \in Plans : Publish(p)
  \/ Operation
  \/ StartRecovery
  \/ Crash \/ Fault \/ FaultAfter
  \/ \E i \in Path, bytes \in {Foreign, Absent} : EditLive(i, bytes)
  \/ \E i \in Path : EditStaged(i)

Spec == Init /\ [][Next]_vars

\* A process keeps working, and some process runs the recovery the session
\* starts with (runtime.ts #recover), with a host that admits its own plan.
WillingRecovery ==
  RecoverOrphan \/ RecoverJournalOnly(TRUE) \/ Recover(TRUE, TRUE)

Fairness == WF_vars(Operation) /\ WF_vars(WillingRecovery)

FairSpec == Spec /\ Fairness

-----------------------------------------------------------------------------
(* Properties.                                                             *)

\* Every variable keeps its type, and a loop over transitions stays inside
\* the plan.
TypeOK ==
  /\ live \in [Path -> Bytes] /\ backup \in [Path -> Bytes] /\ staged \in [Path -> Bytes]
  /\ lock \in Lock \cup {NoLock, TornLock}
  /\ journal \in Journal \cup {NoJournal}
  /\ tmp \in BOOLEAN
  /\ pid \in 0..MaxCrashes /\ pc \in Pc /\ task \in Task /\ prepared \in BOOLEAN
  /\ plan \in Plans \cup {NoPlan} /\ txn \in 0..MaxTxns
  /\ pos \in 0..Last /\ target \in Phase
  /\ pc \in {"forward", "place", "restore", "remove", "putBack"} => pos \in Path
  /\ txns \in 0..MaxTxns /\ faults \in 0..MaxFaults /\ edits \in 0..MaxEdits
  /\ editedAt \in [Path -> Moment \cup {Never}] /\ outcome \in Outcome
  /\ cleanupThrew \in BOOLEAN

\* While a transaction is undecided no old file is lost: each is still in its
\* place or in the backup directory, wherever the process stops.  Only what a
\* throwing cleanup had committed before may be without an old file, and then its
\* new one is in place.
PriorRecoverable ==
  Uncommitted =>
    \A i \in Path \ Edited :
      \/ live[i] = journal.plan.prior[i]
      \/ backup[i] = journal.plan.prior[i]
      \/ cleanupThrew /\ live[i] = journal.plan.next[i]

\* A journal that says "committed" stands beside one whole tree, old or new:
\* recovery then cleans up and may no longer need a backup.
CommittedIsUniform ==
  journal # NoJournal /\ journal.phase = "committed" /\ Edited = {} =>
    \/ \A i \in Path : live[i] = journal.plan.prior[i]
    \/ \A i \in Path : live[i] = journal.plan.next[i]

\* The commit marker goes in last and comes out first: a reader that finds the
\* new marker finds every new file, also in the middle of a rollback.
MarkerNamesCompleteTree ==
  Uncommitted /\ Marker \notin Edited /\ live[Marker] = journal.plan.next[Marker] =>
    \A i \in Path \ Edited : live[i] = journal.plan.next[i]

\* Old files are only ever set aside under a journal and a lock that tell a
\* later process where they belong.
NoBackupWithoutJournal ==
  journal = NoJournal \/ lock = NoLock => \A i \in Path : backup[i] = Absent

\* A caller that is told of success has the new tree; one that is told of
\* failure has the old one, unless the rollback itself was cut short, and then
\* the journal still says what to undo, or unless it was the cleanup after the
\* commit that threw, and then the whole new tree may stand.
AnswerMatchesTree ==
  [][ pc # "idle" /\ pc' = "idle" /\ Edited' = {} =>
        /\ outcome' \in {"published", "committed"} => \A i \in Path : live'[i] = plan.next[i]
        /\ outcome' = "rolled-back" => \A i \in Path : live'[i] = plan.prior[i]
        /\ outcome' = "failed" =>
             \/ \A i \in Path : live'[i] = plan.prior[i]
             \/ Uncommitted'
             \/ cleanupThrew' /\ \A i \in Path : live'[i] = plan.next[i]
    ]_vars

\* The reader's view: while a journal is undecided the tree is still the old
\* one; a transaction whose cleanup threw has no such view.  Without outside
\* edits the protocol implements AtomicTree.
ReadersTree == IF Uncommitted /\ ~cleanupThrew THEN journal.plan.prior ELSE live
Atomic == INSTANCE AtomicTree WITH tree <- ReadersTree,
                                   failing <- cleanupThrew /\ journal # NoJournal
ImplementsAtomicTree == Atomic!Spec

\* An outside edit made while the host callback looks at the new tree is never
\* accepted with it: the transaction does not commit forward.
LateEditNotAccepted ==
  task = "publish" /\ journal # NoJournal /\ journal.phase = "committed" =>
    \A i \in Path : editedAt[i] # [pc |-> "admit", txn |-> txn]

\* No step that moves or removes a public file takes outside bytes that were there
\* at the last look at that path: before the forward loop that is the look under
\* the lock, in the backward loop the look at the transition itself.
SinceLook(at) ==
  CASE at \in {"forward", "place"} -> {"journalWrite", "journalRename", "forward", "place"}
    [] at = "remove"  -> {"remove"}
    [] at = "putBack" -> {"putBack"}
    [] OTHER -> {}
OutsideBytesOnlyLostInWindow ==
  [][ \A i \in Path : live[i] = Foreign /\ live'[i] # Foreign =>
        pos = i /\ editedAt[i].txn = txn /\ editedAt[i].pc \in SinceLook(pc) ]_vars

\* The states in which no later recovery can make progress although the host
\* admits everything: a lock without its journal, a journal without its lock,
\* a pair of two transactions, a temporary journal left beside an undecided one;
\* and one that only the host's admission of the whole new tree can end, the
\* rollback of a committed transaction that no longer has its backups.
Wedged ==
  \/ journal = NoJournal /\ lock # NoLock
  \/ Uncommitted /\ lock = NoLock
  \/ journal # NoJournal /\ lock # NoLock /\ lock.txn # journal.txn
  \/ Uncommitted /\ tmp /\ pc = "idle"
  \/ Uncommitted /\ cleanupThrew /\ \E i \in Path : ~Resolvable(journal.plan, i)

\* Once processes stop dying, a journal is resolved (or one of the five wedges
\* above is reached).
JournalResolves == journal # NoJournal ~> journal = NoJournal \/ Wedged

(* What the documents and comments of the repository say, and the code does   *)
(* not do.                                                                    *)

\* "A process may stop after any step.  The next start checks the exact bytes
\* and continues safely" (development-session/v1/README.md): death alone, with
\* no fault and no edit, never leaves a state the next start cannot resolve.
NextStartContinues ==
  pc = "idle" /\ faults = 0 /\ edits = 0 => ~Wedged

\* "Publication or rollback already reached its durable final state before this
\* phase was recorded" (recovery.ts): a committed journal is never undone.
CommittedStaysCommitted ==
  [][ journal # NoJournal /\ journal.phase = "committed" =>
        journal' = NoJournal \/ journal'.phase = "committed" ]_vars

\* "refuse without mutation when live, stage, backup, lock, or journal state is
\* ambiguous" (artifact-transactions/v1/README.md): recovery touches a file only
\* when no path that was edited before it started is ambiguous.
RefusesWithoutMutation ==
  [][ task = "restore" /\ live' # live /\ edits' = edits =>
        \A i \in Path : editedAt[i].pc = "idle" => Resolvable(plan, i) ]_vars
==============================================================================
