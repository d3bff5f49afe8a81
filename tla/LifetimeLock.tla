---------------------------- MODULE LifetimeLock ----------------------------
(***************************************************************************)
(* The lifetime locks of tooling/src/session/session-lock.ts: the files    *)
(* that keep two development sessions, in two processes, from working on   *)
(* one project.  A session claims several lock files in a fixed order (the *)
(* project, its output root, its entry), keeps them while it lives and     *)
(* gives them back in the opposite order.                                  *)
(*                                                                         *)
(* Each action is one system call of one process.  A process may die       *)
(* between any two; the write of a lock file may throw.  A process is one  *)
(* call of acquireSessionLock with a nonce of its own, so the bytes of a   *)
(* lock file are the process that wrote them.                              *)
(***************************************************************************)
EXTENDS Integers, Sequences

CONSTANTS
  Proc,        \* processes that open a session, one each
  LockPath,    \* lock files of the project
  Claims,      \* the lock files of each process, in the order it claims them
  Nobody,
  MaxCrashes,  \* bound: processes that die
  MaxFaults    \* bound: writes that throw

ASSUME NobodyAssumption == Nobody \notin Proc
ASSUME ClaimsAssumption ==
  /\ Claims \in [Proc -> Seq(LockPath)]
  /\ \A p \in Proc :
       /\ Claims[p] # <<>>
       /\ \A i, j \in 1..Len(Claims[p]) : Claims[p][i] = Claims[p][j] => i = j
ASSUME BoundsAssumption == MaxCrashes \in Nat /\ MaxFaults \in Nat

File   == [owner : Proc \cup {Nobody}, whole : BOOLEAN]
NoFile == [owner |-> Nobody, whole |-> FALSE]

VARIABLES
  file,     \* what each lock path holds; not whole: created, bytes not written
  pc,       \* the next system call of each process
  step,     \* the lock it is at, counted in Claims
  seen,     \* the process it read in a lock file it did not create
  refused,  \* whether acquireSessionLock is throwing
  raced,    \* history: whether one started while another was still claiming
  crashes, faults

vars == <<file, pc, step, seen, refused, raced, crashes, faults>>

\* The calls before a lock file exists that names the process.
Claiming  == {"create", "inspect", "probe", "compare", "unlink"}
Releasing == {"check", "remove"}
Pc == {"ready", "write", "own", "ended", "dead"} \cup Claiming \cup Releasing

Lock(p)  == Claims[p][step[p]]
Busy(p)  == pc[p] \in Claiming \cup {"write"}

\* process.kill(pid, 0); mutant: a process counts as dead once it stopped
\* claiming.
Forgetful(q) == Busy(q)
IsLive(q)    == pc[q] # "dead"

\* How many of its locks a process has and still relies on.
Held(p) ==
  IF pc[p] \in {"ready", "ended", "dead"} THEN 0
  ELSE IF pc[p] \in Claiming THEN step[p] - 1 ELSE step[p]
HeldPaths(p) == {Claims[p][i] : i \in 1..Held(p)}

Init ==
  /\ file = [k \in LockPath |-> NoFile]
  /\ pc = [p \in Proc |-> "ready"]
  /\ step = [p \in Proc |-> 1]
  /\ seen = [p \in Proc |-> Nobody]
  /\ refused = [p \in Proc |-> FALSE]
  /\ raced = FALSE /\ crashes = 0 /\ faults = 0

Goto(p, next) == pc' = [pc EXCEPT ![p] = next]

\* acquireSessionLock: a process starts.
Start(p) ==
  /\ pc[p] = "ready"
  /\ raced' = (raced \/ \E q \in Proc : Busy(q))
  /\ Goto(p, "create")
  /\ UNCHANGED <<file, step, seen, refused, crashes, faults>>

\* Give back the lock before this one, or finish.
ReleasePrevious(p) ==
  IF step[p] = 1
  THEN Goto(p, "ended") /\ UNCHANGED step
  ELSE Goto(p, "check") /\ step' = [step EXCEPT ![p] = step[p] - 1]

\* The claim throws: the locks claimed before are given back.
TriesAgain(p) == refused' = refused /\ Goto(p, "create") /\ UNCHANGED step   \* mutant
Refuse(p) ==
  /\ refused' = [refused EXCEPT ![p] = TRUE]
  /\ ReleasePrevious(p)

\* openSync(path, "wx"): create the file, or look at the one that is there.
Create(p) ==
  /\ pc[p] = "create"
  /\ IF file[Lock(p)] = NoFile
     THEN /\ file' = [file EXCEPT ![Lock(p)] = [owner |-> p, whole |-> FALSE]]
          /\ Goto(p, "write")
     ELSE Goto(p, "inspect") /\ UNCHANGED file
  /\ UNCHANGED <<step, seen, refused, raced, crashes, faults>>

AtLastLock(p) == step[p] = Len(Claims[p])

\* The bytes go to the file that was created, wherever its path leads now.
Write(p) ==
  /\ pc[p] = "write"
  /\ IF file[Lock(p)].owner = p
     THEN file' = [file EXCEPT ![Lock(p)].whole = TRUE]
     ELSE UNCHANGED file
  /\ IF AtLastLock(p)
     THEN Goto(p, "own") /\ UNCHANGED step
     ELSE Goto(p, "create") /\ step' = [step EXCEPT ![p] = step[p] + 1]
  /\ UNCHANGED <<seen, refused, raced, crashes, faults>>

\* The write throws; the file stays behind.
WriteFails(p) ==
  /\ pc[p] = "write" /\ faults < MaxFaults
  /\ faults' = faults + 1
  /\ Refuse(p)
  /\ UNCHANGED <<file, seen, raced, crashes>>

\* Read the other's record.  A file that is gone or has no whole record throws.
Inspect(p) ==
  /\ pc[p] = "inspect"
  /\ IF file[Lock(p)].whole
     THEN /\ seen' = [seen EXCEPT ![p] = file[Lock(p)].owner]
          /\ Goto(p, "probe") /\ UNCHANGED <<step, refused>>
     ELSE Refuse(p) /\ UNCHANGED seen
  /\ UNCHANGED <<file, raced, crashes, faults>>

Probe(p) ==
  /\ pc[p] = "probe"
  /\ IF IsLive(seen[p])
     THEN Refuse(p)
     ELSE Goto(p, "compare") /\ UNCHANGED <<step, refused>>
  /\ UNCHANGED <<file, seen, raced, crashes, faults>>

\* The file is read again.
IsSame(p) == file[Lock(p)] = [owner |-> seen[p], whole |-> TRUE]

Compare(p) ==
  /\ pc[p] = "compare"
  /\ IF IsSame(p)
     THEN Goto(p, "unlink") /\ UNCHANGED <<step, refused>>
     ELSE Refuse(p)
  /\ UNCHANGED <<file, seen, raced, crashes, faults>>

\* Remove the dead process's file (ENOENT throws) and claim again.
Unlink(p) ==
  /\ pc[p] = "unlink"
  /\ IF file[Lock(p)] = NoFile
     THEN Refuse(p) /\ UNCHANGED file
     ELSE /\ file' = [file EXCEPT ![Lock(p)] = NoFile]
          /\ Goto(p, "create") /\ UNCHANGED <<step, refused>>
  /\ UNCHANGED <<seen, raced, crashes, faults>>

\* SessionLock.release: entry, root, project.
Release(p) ==
  /\ pc[p] = "own"
  /\ Goto(p, "check")
  /\ UNCHANGED <<file, step, seen, refused, raced, crashes, faults>>

\* Only a file with the process's own bytes is removed.
IsOwn(p) == file[Lock(p)] = [owner |-> p, whole |-> TRUE]

Check(p) ==
  /\ pc[p] = "check"
  /\ IF IsOwn(p) THEN Goto(p, "remove") /\ UNCHANGED step ELSE ReleasePrevious(p)
  /\ UNCHANGED <<file, seen, refused, raced, crashes, faults>>

Remove(p) ==
  /\ pc[p] = "remove"
  /\ file' = [file EXCEPT ![Lock(p)] = NoFile]
  /\ ReleasePrevious(p)
  /\ UNCHANGED <<seen, refused, raced, crashes, faults>>

Die(p) ==
  /\ crashes < MaxCrashes
  /\ pc[p] \notin {"ready", "ended", "dead"}
  /\ crashes' = crashes + 1
  /\ Goto(p, "dead")
  /\ UNCHANGED <<file, step, seen, refused, raced, faults>>

Acquire(p) ==
  \/ Create(p) \/ Write(p) \/ Inspect(p) \/ Probe(p) \/ Compare(p) \/ Unlink(p)

GiveBack(p) == Check(p) \/ Remove(p)

Next ==
  \E p \in Proc :
    \/ Start(p) \/ Acquire(p) \/ WriteFails(p)
    \/ Release(p) \/ GiveBack(p)
    \/ Die(p)

Spec == Init /\ [][Next]_vars

\* A process that runs makes its system calls; nothing makes it start, end its
\* session or die.
FairSpec == Spec /\ \A p \in Proc : WF_vars(Acquire(p) \/ GiveBack(p))

-----------------------------------------------------------------------------
(* Properties.                                                             *)

TypeOK ==
  /\ file \in [LockPath -> File]
  /\ pc \in [Proc -> Pc]
  /\ step \in [Proc -> Nat] /\ \A p \in Proc : step[p] \in 1..Len(Claims[p])
  /\ seen \in [Proc -> Proc \cup {Nobody}]
  /\ refused \in [Proc -> BOOLEAN] /\ raced \in BOOLEAN
  /\ crashes \in 0..MaxCrashes /\ faults \in 0..MaxFaults

\* No two living processes rely on one lock at the same time: one session
\* works on a project, an output root or an entry.
OneSessionPerLock ==
  \A p, q \in Proc : p # q => HeldPaths(p) \cap HeldPaths(q) = {}

\* What compare-then-unlink can rely on: one process after the other claims,
\* or there is no dead lock to reclaim.
Orderly == ~raced \/ crashes = 0

\* Sharing takes a death and claims that overlap: overlapping claims alone keep
\* the sessions apart, and so do deaths and restarts alone.
SharedOnlyAfterRace == Orderly => OneSessionPerLock

\* A lock that a living process relies on names it on disk, so that every
\* later process can see whom to ask.
HeldLockIsOnDisk ==
  Orderly => \A p \in Proc : \A k \in HeldPaths(p) : file[k].owner = p

\* "Exact bytes are the release authority; never remove a replacement"
\* (session-lock.ts): giving a lock back removes the process's own file only.
ReleaseKeepsReplacement ==
  [][ Orderly => \A p \in Proc : pc[p] \in Releasing =>
        \A k \in LockPath : (pc'[p] # pc[p] \/ step'[p] # step[p]) /\ file'[k] # file[k]
          => file[k].owner = p ]_vars

\* The file a process is about to unlink is still the one it compared, of a
\* process that is dead: a living session's lock is never reclaimed.
OnlyDeadLocksAreReclaimed ==
  Orderly => \A p \in Proc : pc[p] = "unlink" => IsSame(p) /\ pc[seen[p]] = "dead"

\* A session that ended leaves no lock behind.
EndedLeavesNoLock ==
  \A p \in Proc : pc[p] = "ended" =>
    \A k \in LockPath : file[k].owner = p => ~file[k].whole

\* Every start is answered: it owns its locks or is refused, also when it
\* reclaims the locks of one dead process after another.
EveryStartIsAnswered ==
  \A p \in Proc : pc[p] = "create" ~> pc[p] \in {"own", "ended", "dead"}
=============================================================================
