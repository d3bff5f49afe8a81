-------------------------- MODULE LifetimeLockProofs --------------------------
(***************************************************************************)
(* The lifetime locks for every set of processes, of lock files and of     *)
(* claims: one session per lock, as long as no two processes have claimed  *)
(* at the same time, or no process has died.  (Otherwise it is false: see  *)
(* the run lock_doc_second_writer.)                                        *)
(***************************************************************************)
EXTENDS LifetimeLock, TLAPS

\* A file that is there names a process.
FileShape == \A k \in LockPath : file[k].owner = Nobody => ~file[k].whole

HeldOnDisk ==
  \A p \in Proc : \A i \in 1..Held(p) : file[Claims[p][i]].owner = p

\* A process that is about to remove its lock looks at its own bytes.
RemovesOwn == \A p \in Proc : pc[p] = "remove" => IsOwn(p)

\* A process that reclaims found a dead one, and the file is still that one's.
ReclaimsDead ==
  \A p \in Proc :
    /\ pc[p] = "probe" => seen[p] \in Proc
    /\ pc[p] \in {"compare", "unlink"} => seen[p] \in Proc /\ pc[seen[p]] = "dead"
    /\ pc[p] = "unlink" => IsSame(p)

\* At most one process claims at a time.
Alone == ~raced => \A p, q \in Proc : Busy(p) /\ Busy(q) => p = q

NobodyDied == crashes = 0 => \A p \in Proc : pc[p] # "dead"

\* A process starts with its first lock.
StartsFirst == \A p \in Proc : pc[p] = "ready" => step[p] = 1

LockInv ==
  /\ FileShape /\ HeldOnDisk /\ RemovesOwn /\ ReclaimsDead
  /\ Alone /\ NobodyDied /\ StartsFirst

-----------------------------------------------------------------------------
\* The lock a process is at is one of its own.
LEMMA LockOfIsPath ==
  ASSUME TypeOK, NEW p \in Proc
  PROVE  /\ Claims[p] \in Seq(LockPath)
         /\ step[p] \in 1..Len(Claims[p])
         /\ Lock(p) \in LockPath
BY ClaimsAssumption DEF TypeOK, Lock

\* The initial state is well typed.
LEMMA LockTypeInit == Init => TypeOK
<1> SUFFICES ASSUME Init PROVE TypeOK
  OBVIOUS
<1>1. file \in [LockPath -> File]
  BY DEF Init, File, NoFile
<1>2. pc \in [Proc -> Pc] /\ refused \in [Proc -> BOOLEAN] /\ seen \in [Proc -> Proc \cup {Nobody}]
  BY DEF Init, Pc
<1>3. step \in [Proc -> Nat] /\ \A p \in Proc : step[p] \in 1..Len(Claims[p])
  <2> SUFFICES ASSUME NEW p \in Proc PROVE 1 \in 1..Len(Claims[p])
    BY DEF Init
  <2>1. Claims[p] \in Seq(LockPath) /\ Claims[p] # <<>>
    BY ClaimsAssumption
  <2> QED BY <2>1
<1>4. crashes \in 0..MaxCrashes /\ faults \in 0..MaxFaults
  BY BoundsAssumption DEF Init
<1>5. raced \in BOOLEAN
  BY DEF Init
<1> QED BY <1>1, <1>2, <1>3, <1>4, <1>5 DEF TypeOK

\* A jump to a known system call keeps the type of pc.
LEMMA GotoType ==
  ASSUME TypeOK, NEW p \in Proc, NEW next \in Pc, Goto(p, next)
  PROVE  pc' \in [Proc -> Pc]
BY DEF Goto, TypeOK

\* The names of the system calls.
LEMMA PcMembers ==
  {"ready", "write", "own", "ended", "dead", "create", "inspect", "probe", "compare",
   "unlink", "check", "remove"} \subseteq Pc
BY DEF Pc, Claiming, Releasing

\* Refuse and ReleasePrevious keep the types of what they change.
LEMMA ReleaseTypes ==
  ASSUME TypeOK, NEW p \in Proc, ReleasePrevious(p)
  PROVE  /\ pc' \in [Proc -> Pc] /\ step' \in [Proc -> Nat]
         /\ \A q \in Proc : step'[q] \in 1..Len(Claims[q])
<1>1. pc' \in [Proc -> Pc]
  BY GotoType, PcMembers DEF ReleasePrevious
<1>2. step \in [Proc -> Nat] /\ \A q \in Proc : step[q] \in 1..Len(Claims[q])
  BY DEF TypeOK
<1>3. Len(Claims[p]) \in Nat
  BY LockOfIsPath
<1>4. CASE step[p] = 1
  BY <1>1, <1>2, <1>4 DEF ReleasePrevious
<1>5. CASE step[p] # 1
  <2>1. step' = [step EXCEPT ![p] = step[p] - 1]
    BY <1>5 DEF ReleasePrevious
  <2>2. step[p] - 1 \in Nat /\ step[p] - 1 \in 1..Len(Claims[p])
    BY <1>2, <1>3, <1>5
  <2> QED BY <1>1, <1>2, <2>1, <2>2
<1> QED BY <1>4, <1>5

\* Every system call keeps the types.
LEMMA LockTypeStep == TypeOK /\ [Next]_vars => TypeOK'
<1> SUFFICES ASSUME TypeOK, [Next]_vars PROVE TypeOK'
  OBVIOUS
<1>1. ASSUME NEW p \in Proc, Start(p) PROVE TypeOK'
  BY <1>1, GotoType, PcMembers DEF Start, TypeOK
<1>2. ASSUME NEW p \in Proc, Create(p) PROVE TypeOK'
  <2>1. pc' \in [Proc -> Pc]
    BY <1>2, GotoType, PcMembers DEF Create
  <2>2. file' \in [LockPath -> File]
    <3>1. [owner |-> p, whole |-> FALSE] \in File
      BY DEF File
    <3> QED BY <1>2, <3>1 DEF Create, TypeOK
  <2> QED BY <1>2, <2>1, <2>2 DEF Create, TypeOK
<1>3. ASSUME NEW p \in Proc, Write(p) PROVE TypeOK'
  <2>1. file' \in [LockPath -> File]
    <3>1. \A f \in File : [f EXCEPT !.whole = TRUE] \in File
      BY DEF File
    <3>2. CASE file[Lock(p)].owner = p
      <4>1. file' = [file EXCEPT ![Lock(p)] = [file[Lock(p)] EXCEPT !.whole = TRUE]]
        BY <1>3, <3>2 DEF Write
      <4>2. file[Lock(p)] \in File
        BY LockOfIsPath DEF TypeOK
      <4> QED BY <3>1, <4>1, <4>2 DEF TypeOK
    <3>3. CASE file[Lock(p)].owner # p
      BY <1>3, <3>3 DEF Write, TypeOK
    <3> QED BY <3>2, <3>3
  <2>2. /\ pc' \in [Proc -> Pc] /\ step' \in [Proc -> Nat]
        /\ \A q \in Proc : step'[q] \in 1..Len(Claims[q])
    <3>1. pc' \in [Proc -> Pc]
      BY <1>3, GotoType, PcMembers DEF Write
    <3>2. step \in [Proc -> Nat] /\ \A q \in Proc : step[q] \in 1..Len(Claims[q])
      BY DEF TypeOK
    <3>3. Len(Claims[p]) \in Nat
      BY LockOfIsPath
    <3>4. CASE AtLastLock(p)
      BY <1>3, <3>1, <3>2, <3>4 DEF Write
    <3>5. CASE ~AtLastLock(p)
      <4>1. step' = [step EXCEPT ![p] = step[p] + 1]
        BY <1>3, <3>5 DEF Write
      <4>2. step[p] + 1 \in Nat /\ step[p] + 1 \in 1..Len(Claims[p])
        BY <3>2, <3>3, <3>5 DEF AtLastLock
      <4> QED BY <3>1, <3>2, <4>1, <4>2
    <3> QED BY <3>4, <3>5
  <2> QED BY <1>3, <2>1, <2>2 DEF Write, TypeOK
<1>4. ASSUME NEW p \in Proc, WriteFails(p) PROVE TypeOK'
  BY <1>4, ReleaseTypes, BoundsAssumption DEF WriteFails, Refuse, TypeOK
<1>5. ASSUME NEW p \in Proc, Inspect(p) PROVE TypeOK'
  <2>1. CASE file[Lock(p)].whole
    BY <1>5, <2>1, LockOfIsPath DEF Inspect, Goto, TypeOK, Pc, Claiming, File
  <2>2. CASE ~file[Lock(p)].whole
    BY <1>5, <2>2, ReleaseTypes DEF Inspect, Refuse, TypeOK
  <2> QED BY <2>1, <2>2
<1>6. ASSUME NEW p \in Proc, Probe(p) PROVE TypeOK'
  <2>1. CASE IsLive(seen[p])
    BY <1>6, <2>1, ReleaseTypes DEF Probe, Refuse, TypeOK
  <2>2. CASE ~IsLive(seen[p])
    BY <1>6, <2>2 DEF Probe, Goto, TypeOK, Pc, Claiming
  <2> QED BY <2>1, <2>2
<1>7. ASSUME NEW p \in Proc, Compare(p) PROVE TypeOK'
  <2>1. CASE IsSame(p)
    BY <1>7, <2>1 DEF Compare, Goto, TypeOK, Pc, Claiming
  <2>2. CASE ~IsSame(p)
    BY <1>7, <2>2, ReleaseTypes DEF Compare, Refuse, TypeOK
  <2> QED BY <2>1, <2>2
<1>8. ASSUME NEW p \in Proc, Unlink(p) PROVE TypeOK'
  <2>1. CASE file[Lock(p)] = NoFile
    BY <1>8, <2>1, ReleaseTypes DEF Unlink, Refuse, TypeOK
  <2>2. CASE file[Lock(p)] # NoFile
    <3>1. NoFile \in File
      BY DEF File, NoFile
    <3>2. file' = [file EXCEPT ![Lock(p)] = NoFile] /\ Goto(p, "create")
      BY <1>8, <2>2 DEF Unlink
    <3> QED BY <1>8, <2>2, <3>1, <3>2, GotoType, PcMembers DEF Unlink, TypeOK
  <2> QED BY <2>1, <2>2
<1>9. ASSUME NEW p \in Proc, Release(p) PROVE TypeOK'
  BY <1>9 DEF Release, Goto, TypeOK, Pc, Releasing
<1>10. ASSUME NEW p \in Proc, Check(p) PROVE TypeOK'
  <2>1. CASE IsOwn(p)
    BY <1>10, <2>1 DEF Check, Goto, TypeOK, Pc, Releasing
  <2>2. CASE ~IsOwn(p)
    BY <1>10, <2>2, ReleaseTypes DEF Check, TypeOK
  <2> QED BY <2>1, <2>2
<1>11. ASSUME NEW p \in Proc, Remove(p) PROVE TypeOK'
  <2>1. file' \in [LockPath -> File]
    BY <1>11 DEF Remove, TypeOK, File, NoFile
  <2> QED BY <1>11, <2>1, ReleaseTypes DEF Remove, TypeOK
<1>12. ASSUME NEW p \in Proc, Die(p) PROVE TypeOK'
  BY <1>12, BoundsAssumption DEF Die, Goto, TypeOK, Pc
<1>13. CASE UNCHANGED vars
  BY <1>13 DEF vars, TypeOK
<1> QED BY <1>1, <1>2, <1>3, <1>4, <1>5, <1>6, <1>7, <1>8, <1>9, <1>10, <1>11, <1>12, <1>13
        DEF Next, Acquire, GiveBack

\* Every variable of the locks keeps its type, and no process claims more
\* locks than it has (claimLifetimeLock, acquireSessionLock).
THEOREM LockTypeCorrect == Spec => []TypeOK
BY LockTypeInit, LockTypeStep, PTL DEF Spec

-----------------------------------------------------------------------------
(* The invariant.                                                          *)

\* Without lock files and processes the invariant holds.
LEMMA LockInvInit == Init => LockInv
BY DEF Init, LockInv, FileShape, HeldOnDisk, RemovesOwn, ReclaimsDead, Alone, NobodyDied,
       StartsFirst, NoFile, Held, Busy, Claiming

\* What the two comparisons of bytes establish.
LEMMA SameFile ==
  ASSUME NEW p \in Proc
  PROVE  /\ IsSame(p) => file[Lock(p)].owner = seen[p] /\ file[Lock(p)].whole
         /\ IsOwn(p) => file[Lock(p)].owner = p /\ file[Lock(p)].whole
BY DEF IsSame, IsOwn

\* Two positions of one process's claims are two lock files.
LEMMA ClaimsDiffer ==
  ASSUME NEW p \in Proc, NEW i \in 1..Len(Claims[p]), NEW j \in 1..Len(Claims[p]), i # j
  PROVE  Claims[p][i] # Claims[p][j]
BY ClaimsAssumption

\* What a process holds is among its claims.
LEMMA HeldIsClaimed ==
  ASSUME TypeOK, NEW p \in Proc, NEW i \in 1..Held(p)
  PROVE  i \in 1..Len(Claims[p]) /\ Claims[p][i] \in LockPath
BY LockOfIsPath DEF Held, TypeOK

\* Without a file change, nobody relies on more than before.
LEMMA HeldShrinks ==
  ASSUME LockInv, UNCHANGED file, \A q \in Proc : Held(q)' <= Held(q) /\ Held(q) \in Nat
                                                     /\ Held(q)' \in Int
  PROVE  FileShape' /\ HeldOnDisk'
BY DEF LockInv, FileShape, HeldOnDisk

\* A process holds a number of locks.
LEMMA HeldIsNat ==
  ASSUME TypeOK
  PROVE  \A q \in Proc : Held(q) \in Nat
BY LockOfIsPath DEF Held, TypeOK

\* The histories only grow.
Forward == (raced => raced') /\ (crashes' = 0 => crashes = 0)

\* No step takes a race or a death back.
LEMMA HistoryStep ==
  ASSUME TypeOK, [Next]_vars
  PROVE  Forward
BY BoundsAssumption DEF TypeOK, Forward, Next, vars, Acquire, GiveBack, Start, Create, Write,
   WriteFails, Inspect, Probe, Compare, Unlink, Release, Check, Remove, Die

\* A call that throws gives back the lock before its own, if it has one.
LEMMA RefuseStep ==
  ASSUME TypeOK, LockInv, Forward, NEW p \in Proc, UNCHANGED <<file, seen>>,
         pc[p] \in Claiming \cup {"write"} \cup {"check"}, ReleasePrevious(p)
  PROVE  LockInv'
<1>1. /\ \A q \in Proc \ {p} : pc'[q] = pc[q] /\ step'[q] = step[q]
      /\ pc'[p] \in {"ended", "check"}
      /\ pc'[p] = "check" => step'[p] = step[p] - 1
  BY DEF ReleasePrevious, Goto, TypeOK
<1>2. FileShape' /\ HeldOnDisk'
  <2>1. \A q \in Proc : Held(q) \in Nat
    BY HeldIsNat
  <2>2. \A q \in Proc : Held(q)' \in Int /\ Held(q)' <= Held(q)
    BY <1>1, <2>1 DEF Held, TypeOK, Claiming
  <2> QED BY <2>1, <2>2, HeldShrinks
<1>3. RemovesOwn' /\ ReclaimsDead' /\ Alone' /\ NobodyDied' /\ StartsFirst'
  BY <1>1 DEF Forward, LockInv, RemovesOwn, ReclaimsDead, Alone, NobodyDied, StartsFirst,
     IsOwn, IsSame, Lock, Busy, Claiming
<1> QED BY <1>2, <1>3 DEF LockInv

\* A call that only moves its process on, and does not make it busy.
LEMMA MoveStep ==
  ASSUME TypeOK, LockInv, Forward, NEW p \in Proc, NEW next \in Pc, Goto(p, next),
         UNCHANGED <<file, step, seen>>,
         pc[p] \notin {"dead", "ready"}, next # "ready", next # "dead",
         Held(p)' <= Held(p), Busy(p)' => Busy(p),
         next = "remove" => IsOwn(p),
         next = "probe" => seen[p] \in Proc,
         next \in {"compare", "unlink"} => seen[p] \in Proc /\ pc[seen[p]] = "dead",
         next = "unlink" => IsSame(p)
  PROVE  LockInv'
<1>1. pc'[p] = next /\ \A q \in Proc \ {p} : pc'[q] = pc[q]
  BY DEF Goto, TypeOK
<1>2. FileShape' /\ HeldOnDisk'
  <2>1. \A q \in Proc : Held(q) \in Nat
    BY HeldIsNat
  <2>2. \A q \in Proc : Held(q)' \in Int /\ Held(q)' <= Held(q)
    BY <1>1, <2>1 DEF Held, TypeOK
  <2> QED BY <2>1, <2>2, HeldShrinks
<1>3. RemovesOwn'
  BY <1>1 DEF LockInv, RemovesOwn, IsOwn, Lock
<1>4. ReclaimsDead'
  BY <1>1 DEF LockInv, ReclaimsDead, IsSame, Lock
<1>5. Alone'
  BY <1>1 DEF Forward, LockInv, Alone, Busy
<1>6. NobodyDied' /\ StartsFirst'
  BY <1>1 DEF Forward, LockInv, NobodyDied, StartsFirst
<1> QED BY <1>2, <1>3, <1>4, <1>5, <1>6 DEF LockInv

\* Every system call keeps the invariant of an orderly history.
LEMMA LockInvStep == TypeOK /\ Orderly /\ LockInv /\ [Next]_vars => LockInv'
<1> SUFFICES ASSUME TypeOK, Orderly, LockInv, [Next]_vars PROVE LockInv'
  OBVIOUS
<1>0. Forward
  BY HistoryStep
<1>1. ASSUME NEW p \in Proc, Start(p) PROVE LockInv'
  <2>1. pc'[p] = "create" /\ \A q \in Proc \ {p} : pc'[q] = pc[q]
    BY <1>1 DEF Start, Goto, TypeOK
  <2>2. FileShape' /\ HeldOnDisk'
    <3>1. \A q \in Proc : Held(q) \in Nat
      BY HeldIsNat
    <3>2. \A q \in Proc : Held(q)' \in Int /\ Held(q)' <= Held(q)
      BY <1>1, <2>1, <3>1 DEF Start, Held, TypeOK, Claiming, LockInv, StartsFirst
    <3> QED BY <1>1, <3>1, <3>2, HeldShrinks DEF Start
  <2>3. RemovesOwn' /\ ReclaimsDead' /\ NobodyDied' /\ StartsFirst'
    BY <1>0, <1>1, <2>1 DEF Forward, Start, LockInv, RemovesOwn, ReclaimsDead, NobodyDied,
       StartsFirst,
       IsOwn, IsSame, Lock
  <2>4. Alone'
    BY <1>0, <1>1, <2>1 DEF Forward, Start, LockInv, Alone, Busy
  <2> QED BY <2>2, <2>3, <2>4 DEF LockInv
<1>2. ASSUME NEW p \in Proc, Create(p) PROVE LockInv'
  <2>1. CASE file[Lock(p)] = NoFile
    <3>1. /\ pc'[p] = "write" /\ \A q \in Proc \ {p} : pc'[q] = pc[q]
          /\ file' = [file EXCEPT ![Lock(p)] = [owner |-> p, whole |-> FALSE]]
          /\ UNCHANGED <<step, seen>> /\ pc[p] = "create"
      BY <1>2, <2>1 DEF Create, Goto, TypeOK
    <3>2. Lock(p) \in LockPath
      BY LockOfIsPath
    <3>3. FileShape'
      BY <3>1, <3>2, NobodyAssumption DEF LockInv, FileShape, TypeOK
    <3>4. HeldOnDisk'
      <4> SUFFICES ASSUME NEW q \in Proc, NEW i \in 1..Held(q)'
                   PROVE  file'[Claims[q][i]].owner = q
        BY DEF HeldOnDisk
      <4>1. CASE q = p /\ i = step[p]
        BY <3>1, <3>2, <4>1 DEF Lock, TypeOK
      <4>2. CASE ~(q = p /\ i = step[p])
        <5>1. i \in 1..Held(q)
          BY <3>1, <4>2 DEF Held, Claiming, TypeOK
        <5>2. file[Claims[q][i]].owner = q /\ Claims[q][i] \in LockPath
          BY <5>1, HeldIsClaimed DEF LockInv, HeldOnDisk
        <5>3. Claims[q][i] # Lock(p)
          BY <2>1, <5>2, NobodyAssumption DEF NoFile
        <5> QED BY <3>1, <5>2, <5>3 DEF TypeOK
      <4> QED BY <4>1, <4>2
    <3>5. \A q \in Proc \ {p} : file[Lock(q)].whole => file'[Lock(q)] = file[Lock(q)]
      BY <2>1, <3>1, <3>2, LockOfIsPath DEF NoFile, TypeOK
    <3>6. RemovesOwn' /\ ReclaimsDead' /\ NobodyDied' /\ StartsFirst'
      BY <1>0, <3>1, <3>5 DEF Forward, LockInv, RemovesOwn, ReclaimsDead, NobodyDied, StartsFirst,
         IsOwn, IsSame, Lock
    <3>7. Alone'
      BY <1>0, <3>1 DEF Forward, LockInv, Alone, Busy, Claiming
    <3> QED BY <3>3, <3>4, <3>6, <3>7 DEF LockInv
  <2>2. CASE file[Lock(p)] # NoFile
    <3>1. Goto(p, "inspect") /\ pc[p] = "create" /\ UNCHANGED <<file, step, seen>>
      BY <1>2, <2>2 DEF Create
    <3>2. Held(p)' <= Held(p) /\ (Busy(p)' => Busy(p))
      BY <3>1 DEF Held, Busy, Goto, TypeOK, Claiming
    <3> QED BY <1>0, <3>1, <3>2, MoveStep, PcMembers
  <2> QED BY <2>1, <2>2
<1>3. ASSUME NEW p \in Proc, Write(p) PROVE LockInv'
  <2>1. /\ pc[p] = "write" /\ pc'[p] \in {"own", "create"}
        /\ pc'[p] = "own" => step'[p] = step[p]
        /\ pc'[p] = "create" => step'[p] = step[p] + 1
        /\ \A q \in Proc \ {p} : pc'[q] = pc[q] /\ step'[q] = step[q]
        /\ UNCHANGED seen
    BY <1>3 DEF Write, Goto, TypeOK
  <2>2. file[Lock(p)].owner = p /\ Lock(p) \in LockPath
    <3>1. Held(p) = step[p]
      BY <2>1 DEF Held, Claiming
    <3>2. step[p] \in 1..Held(p)
      BY <3>1, LockOfIsPath DEF TypeOK
    <3> QED BY <3>2, LockOfIsPath DEF LockInv, HeldOnDisk, Lock
  <2>3. /\ \A k \in LockPath : file'[k].owner = file[k].owner
        /\ \A k \in LockPath : file[k].whole => file'[k] = file[k]
        /\ \A k \in LockPath : k # Lock(p) => file'[k] = file[k]
    <3>1. file' = [file EXCEPT ![Lock(p)] = [file[Lock(p)] EXCEPT !.whole = TRUE]]
      BY <1>3, <2>2 DEF Write
    <3>2. file[Lock(p)] \in File
      BY <2>2 DEF TypeOK
    <3>3. file[Lock(p)].whole => [file[Lock(p)] EXCEPT !.whole = TRUE] = file[Lock(p)]
      BY <3>2 DEF File
    <3>4. [file[Lock(p)] EXCEPT !.whole = TRUE].owner = file[Lock(p)].owner
      BY <3>2 DEF File
    <3> QED BY <2>2, <3>1, <3>3, <3>4 DEF TypeOK
  <2>4. FileShape'
    BY <2>2, <2>3, NobodyAssumption DEF LockInv, FileShape
  <2>5. HeldOnDisk'
    <3> SUFFICES ASSUME NEW q \in Proc, NEW i \in 1..Held(q)'
                 PROVE  file'[Claims[q][i]].owner = q
      BY DEF HeldOnDisk
    <3>1. i \in 1..Held(q)
      BY <2>1 DEF Held, Claiming, TypeOK
    <3> QED BY <2>3, <3>1, HeldIsClaimed DEF LockInv, HeldOnDisk
  <2>6. RemovesOwn'
    BY <2>1, <2>3, LockOfIsPath DEF LockInv, RemovesOwn, IsOwn, Lock
  <2>7. ReclaimsDead'
    <3> SUFFICES ASSUME NEW q \in Proc
                 PROVE  /\ pc'[q] = "probe" => seen[q] \in Proc
                        /\ pc'[q] \in {"compare", "unlink"} =>
                              seen[q] \in Proc /\ pc'[seen[q]] = "dead"
                        /\ pc'[q] = "unlink" => IsSame(q)'
      BY <2>1 DEF ReclaimsDead
    <3>1. pc'[q] = "unlink" => q # p /\ IsSame(q) /\ file[Lock(q)].whole
      BY <2>1, SameFile DEF LockInv, ReclaimsDead
    <3>2. pc'[q] = "unlink" => IsSame(q)'
      BY <2>1, <2>3, <3>1, LockOfIsPath DEF IsSame, Lock
    <3> QED BY <2>1, <3>2 DEF LockInv, ReclaimsDead
  <2>8. Alone' /\ NobodyDied' /\ StartsFirst'
    BY <1>0, <2>1 DEF Forward, LockInv, Alone, NobodyDied, StartsFirst, Busy, Claiming
  <2> QED BY <2>4, <2>5, <2>6, <2>7, <2>8 DEF LockInv
<1>4. ASSUME NEW p \in Proc, WriteFails(p) PROVE LockInv'
  BY <1>0, <1>4, RefuseStep DEF WriteFails, Refuse
<1>5. ASSUME NEW p \in Proc, Inspect(p) PROVE LockInv'
  <2>1. CASE file[Lock(p)].whole
    <3>1. /\ pc[p] = "inspect" /\ Goto(p, "probe") /\ UNCHANGED <<file, step>>
          /\ seen' = [seen EXCEPT ![p] = file[Lock(p)].owner]
      BY <1>5, <2>1 DEF Inspect
    <3>2. file[Lock(p)].owner \in Proc
      BY <2>1, LockOfIsPath DEF LockInv, FileShape, TypeOK, File
    <3>3. /\ pc'[p] = "probe" /\ seen'[p] \in Proc
          /\ \A q \in Proc \ {p} : pc'[q] = pc[q] /\ seen'[q] = seen[q]
      BY <3>1, <3>2 DEF Goto, TypeOK
    <3>4. FileShape' /\ HeldOnDisk'
      <4>1. \A q \in Proc : Held(q) \in Nat
        BY HeldIsNat
      <4>2. \A q \in Proc : Held(q)' \in Int /\ Held(q)' <= Held(q)
        BY <3>1, <3>3, <4>1 DEF Held, TypeOK, Claiming
      <4> QED BY <3>1, <4>1, <4>2, HeldShrinks
    <3>5. RemovesOwn'
      BY <3>1, <3>3 DEF LockInv, RemovesOwn, IsOwn, Lock
    <3>6. ReclaimsDead'
      <4>1. \A q \in Proc : IsSame(q)' <=> file[Lock(q)] = [owner |-> seen'[q], whole |-> TRUE]
        BY <3>1 DEF IsSame, Lock
      <4>2. \A q \in Proc \ {p} : IsSame(q) => IsSame(q)'
        BY <3>3, <4>1 DEF IsSame
      <4>3. \A q \in Proc : pc[q] = "dead" => pc'[q] = "dead"
        BY <3>1, <3>3
      <4> QED BY <3>3, <4>2, <4>3 DEF LockInv, ReclaimsDead
    <3>7. Alone' /\ NobodyDied' /\ StartsFirst'
      BY <1>0, <3>1, <3>3 DEF Forward, LockInv, Alone, NobodyDied, StartsFirst, Busy, Claiming
    <3> QED BY <3>4, <3>5, <3>6, <3>7 DEF LockInv
  <2>2. CASE ~file[Lock(p)].whole
    BY <1>0, <1>5, <2>2, RefuseStep DEF Inspect, Refuse, Claiming
  <2> QED BY <2>1, <2>2
<1>6. ASSUME NEW p \in Proc, Probe(p) PROVE LockInv'
  <2>1. CASE IsLive(seen[p])
    BY <1>0, <1>6, <2>1, RefuseStep DEF Probe, Refuse, Claiming
  <2>2. CASE ~IsLive(seen[p])
    <3>1. Goto(p, "compare") /\ pc[p] = "probe" /\ UNCHANGED <<file, step, seen>>
      BY <1>6, <2>2 DEF Probe
    <3>2. Held(p)' <= Held(p) /\ (Busy(p)' => Busy(p))
      BY <3>1 DEF Held, Busy, Goto, TypeOK, Claiming
    <3>3. seen[p] \in Proc /\ pc[seen[p]] = "dead"
      BY <2>2, <3>1 DEF LockInv, ReclaimsDead, IsLive
    <3> QED BY <1>0, <3>1, <3>2, <3>3, MoveStep, PcMembers
  <2> QED BY <2>1, <2>2
<1>7. ASSUME NEW p \in Proc, Compare(p) PROVE LockInv'
  <2>1. CASE IsSame(p)
    <3>1. Goto(p, "unlink") /\ pc[p] = "compare" /\ UNCHANGED <<file, step, seen>>
      BY <1>7, <2>1 DEF Compare
    <3>2. Held(p)' <= Held(p) /\ (Busy(p)' => Busy(p))
      BY <3>1 DEF Held, Busy, Goto, TypeOK, Claiming
    <3>3. seen[p] \in Proc /\ pc[seen[p]] = "dead"
      BY <3>1 DEF LockInv, ReclaimsDead
    <3> QED BY <1>0, <2>1, <3>1, <3>2, <3>3, MoveStep, PcMembers
  <2>2. CASE ~IsSame(p)
    BY <1>0, <1>7, <2>2, RefuseStep DEF Compare, Refuse, Claiming
  <2> QED BY <2>1, <2>2
<1>8. ASSUME NEW p \in Proc, Unlink(p) PROVE LockInv'
  <2>1. CASE file[Lock(p)] = NoFile
    BY <1>0, <1>8, <2>1, RefuseStep DEF Unlink, Refuse, Claiming
  <2>2. CASE file[Lock(p)] # NoFile
    <3>1. /\ pc[p] = "unlink" /\ pc'[p] = "create" /\ UNCHANGED <<step, seen>>
          /\ \A q \in Proc \ {p} : pc'[q] = pc[q]
          /\ file' = [file EXCEPT ![Lock(p)] = NoFile]
      BY <1>8, <2>2 DEF Unlink, Goto, TypeOK
    <3>2. seen[p] \in Proc /\ pc[seen[p]] = "dead" /\ file[Lock(p)].owner = seen[p]
      BY <3>1, SameFile DEF LockInv, ReclaimsDead
    <3>3. \A q \in Proc \ {p} : ~Busy(q)
      BY <3>1, <3>2 DEF Orderly, LockInv, NobodyDied, Alone, Busy, Claiming
    <3>4. \A k \in LockPath : file'[k] = IF k = Lock(p) THEN NoFile ELSE file[k]
      BY <3>1 DEF TypeOK
    <3>5. FileShape'
      BY <3>4 DEF LockInv, FileShape, NoFile
    <3>6. HeldOnDisk'
      <4> SUFFICES ASSUME NEW q \in Proc, NEW i \in 1..Held(q)'
                   PROVE  file'[Claims[q][i]].owner = q
        BY DEF HeldOnDisk
      <4>1. i \in 1..Held(q)
        BY <3>1 DEF Held, Claiming, TypeOK
      <4>2. file[Claims[q][i]].owner = q /\ Claims[q][i] \in LockPath
        BY <4>1, HeldIsClaimed DEF LockInv, HeldOnDisk
      <4>3. q # seen[p]
        BY <3>2, <4>1 DEF Held
      <4> QED BY <3>2, <3>4, <4>2, <4>3
    <3>7. RemovesOwn'
      <4> SUFFICES ASSUME NEW q \in Proc, pc'[q] = "remove" PROVE IsOwn(q)'
        BY DEF RemovesOwn
      <4>1. pc[q] = "remove" /\ IsOwn(q) /\ q # seen[p]
        BY <3>1, <3>2 DEF LockInv, RemovesOwn
      <4>2. Lock(q) # Lock(p)
        BY <3>2, <4>1 DEF IsOwn
      <4> QED BY <3>1, <3>4, <4>1, <4>2, LockOfIsPath DEF IsOwn, Lock
    <3>8. ReclaimsDead'
      BY <3>1, <3>3 DEF LockInv, ReclaimsDead, Busy, Claiming
    <3>9. Alone' /\ NobodyDied' /\ StartsFirst'
      BY <1>0, <3>1 DEF Forward, LockInv, Alone, NobodyDied, StartsFirst, Busy, Claiming
    <3> QED BY <3>5, <3>6, <3>7, <3>8, <3>9 DEF LockInv
  <2> QED BY <2>1, <2>2
<1>9. ASSUME NEW p \in Proc, Release(p) PROVE LockInv'
  <2>1. Goto(p, "check") /\ pc[p] = "own" /\ UNCHANGED <<file, step, seen>>
    BY <1>9 DEF Release
  <2>2. Held(p)' <= Held(p) /\ (Busy(p)' => Busy(p))
    BY <2>1 DEF Held, Busy, Goto, TypeOK, Claiming
  <2> QED BY <1>0, <2>1, <2>2, MoveStep, PcMembers
<1>10. ASSUME NEW p \in Proc, Check(p) PROVE LockInv'
  <2>1. CASE IsOwn(p)
    <3>1. Goto(p, "remove") /\ pc[p] = "check" /\ UNCHANGED <<file, step, seen>>
      BY <1>10, <2>1 DEF Check
    <3>2. Held(p)' <= Held(p) /\ (Busy(p)' => Busy(p))
      BY <3>1 DEF Held, Busy, Goto, TypeOK, Claiming
    <3> QED BY <1>0, <2>1, <3>1, <3>2, MoveStep, PcMembers
  <2>2. CASE ~IsOwn(p)
    BY <1>0, <1>10, <2>2, RefuseStep DEF Check
  <2> QED BY <2>1, <2>2
<1>11. ASSUME NEW p \in Proc, Remove(p) PROVE LockInv'
  <2>1. /\ pc[p] = "remove" /\ pc'[p] \in {"ended", "check"} /\ UNCHANGED seen
        /\ pc'[p] = "check" => step'[p] = step[p] - 1
        /\ \A q \in Proc \ {p} : pc'[q] = pc[q] /\ step'[q] = step[q]
    BY <1>11 DEF Remove, ReleasePrevious, Goto, TypeOK
  <2>2. file[Lock(p)].owner = p
    BY <2>1, SameFile DEF LockInv, RemovesOwn
  <2>3. \A k \in LockPath : file'[k] = IF k = Lock(p) THEN NoFile ELSE file[k]
    BY <1>11 DEF Remove, TypeOK
  <2>4. FileShape'
    BY <2>3 DEF LockInv, FileShape, NoFile
  <2>5. HeldOnDisk'
    <3> SUFFICES ASSUME NEW q \in Proc, NEW i \in 1..Held(q)'
                 PROVE  file'[Claims[q][i]].owner = q
      BY DEF HeldOnDisk
    <3>1. i \in 1..Held(q) /\ (q = p => i # step[p])
      BY <2>1 DEF Held, Claiming, TypeOK
    <3>2. file[Claims[q][i]].owner = q /\ Claims[q][i] \in LockPath /\ i \in 1..Len(Claims[q])
      BY <3>1, HeldIsClaimed DEF LockInv, HeldOnDisk
    <3>3. Claims[q][i] # Lock(p)
      BY <2>2, <3>1, <3>2, ClaimsDiffer, LockOfIsPath DEF Lock
    <3> QED BY <2>3, <3>2, <3>3
  <2>6. RemovesOwn'
    <3> SUFFICES ASSUME NEW q \in Proc, pc'[q] = "remove" PROVE IsOwn(q)'
      BY DEF RemovesOwn
    <3>1. q # p /\ IsOwn(q)
      BY <2>1 DEF LockInv, RemovesOwn
    <3>2. Lock(q) # Lock(p)
      BY <2>2, <3>1 DEF IsOwn
    <3> QED BY <2>1, <2>3, <3>1, <3>2, LockOfIsPath DEF IsOwn, Lock
  <2>7. ReclaimsDead'
    <3>1. \A q \in Proc : pc[q] = "unlink" => Lock(q) # Lock(p)
      BY <2>1, <2>2, SameFile DEF LockInv, ReclaimsDead
    <3> SUFFICES ASSUME NEW q \in Proc
                 PROVE  /\ pc'[q] = "probe" => seen[q] \in Proc
                        /\ pc'[q] \in {"compare", "unlink"} =>
                              seen[q] \in Proc /\ pc'[seen[q]] = "dead"
                        /\ pc'[q] = "unlink" => IsSame(q)'
      BY <2>1 DEF ReclaimsDead
    <3>2. pc'[q] = "unlink" => q # p /\ pc[q] = "unlink" /\ IsSame(q)
      BY <2>1 DEF LockInv, ReclaimsDead
    <3>3. pc'[q] = "unlink" => IsSame(q)'
      BY <2>1, <2>3, <3>1, <3>2, LockOfIsPath DEF IsSame, Lock
    <3> QED BY <2>1, <3>3 DEF LockInv, ReclaimsDead
  <2>8. Alone' /\ NobodyDied' /\ StartsFirst'
    BY <1>0, <2>1 DEF Forward, LockInv, Alone, NobodyDied, StartsFirst, Busy, Claiming
  <2> QED BY <2>4, <2>5, <2>6, <2>7, <2>8 DEF LockInv
<1>12. ASSUME NEW p \in Proc, Die(p) PROVE LockInv'
  <2>1. /\ pc'[p] = "dead" /\ \A q \in Proc \ {p} : pc'[q] = pc[q]
        /\ UNCHANGED <<file, step, seen>> /\ crashes' # 0
    BY <1>12, BoundsAssumption DEF Die, Goto, TypeOK
  <2>2. FileShape' /\ HeldOnDisk'
    <3>1. \A q \in Proc : Held(q) \in Nat
      BY HeldIsNat
    <3>2. \A q \in Proc : Held(q)' \in Int /\ Held(q)' <= Held(q)
      BY <2>1, <3>1 DEF Held, TypeOK
    <3> QED BY <2>1, <3>1, <3>2, HeldShrinks
  <2>3. RemovesOwn' /\ ReclaimsDead' /\ Alone' /\ NobodyDied' /\ StartsFirst'
    BY <1>0, <2>1 DEF Forward, LockInv, RemovesOwn, ReclaimsDead, Alone, NobodyDied, StartsFirst,
       IsOwn, IsSame,
       Lock, Busy, Claiming
  <2> QED BY <2>2, <2>3 DEF LockInv
<1>13. CASE UNCHANGED vars
  BY <1>13 DEF vars, LockInv, FileShape, HeldOnDisk, RemovesOwn, ReclaimsDead, Alone, NobodyDied,
     StartsFirst, Held, IsOwn, IsSame, Lock, Busy
<1> QED BY <1>1, <1>2, <1>3, <1>4, <1>5, <1>6, <1>7, <1>8, <1>9, <1>10, <1>11, <1>12, <1>13
        DEF Next, Acquire, GiveBack

\* The invariant of every behaviour: it holds as long as the history is
\* orderly, and a disorderly history stays so.
LEMMA LockInvariant == Spec => [](TypeOK /\ (Orderly => LockInv))
<1>1. TypeOK /\ (Orderly => LockInv) /\ [Next]_vars => (Orderly => LockInv)'
  <2> SUFFICES ASSUME TypeOK, Orderly => LockInv, [Next]_vars, Orderly' PROVE LockInv'
    OBVIOUS
  <2>1. Orderly
    BY HistoryStep DEF Forward, Orderly
  <2> QED BY <2>1, LockInvStep
<1> QED BY <1>1, LockTypeInit, LockTypeStep, LockInvInit, PTL DEF Spec

\* A lock a living process relies on names it on disk.
THEOREM HeldLocksAreOnDisk == Spec => []HeldLockIsOnDisk
<1>1. TypeOK /\ (Orderly => LockInv) => HeldLockIsOnDisk
  BY DEF LockInv, HeldOnDisk, HeldLockIsOnDisk, HeldPaths
<1> QED BY <1>1, LockInvariant, PTL

\* One session works on a project, an output root or an entry, unless a process
\* died and two processes claimed at the same time (acquireSessionLock).
THEOREM SessionsExcludeEachOther == Spec => []SharedOnlyAfterRace
<1>1. TypeOK /\ (Orderly => LockInv) => SharedOnlyAfterRace
  BY DEF LockInv, HeldOnDisk, SharedOnlyAfterRace, OneSessionPerLock, HeldPaths
<1> QED BY <1>1, LockInvariant, PTL

\* Under the same condition no living session's lock is ever reclaimed.
THEOREM ReclaimTakesDeadLocks == Spec => []OnlyDeadLocksAreReclaimed
<1>1. TypeOK /\ (Orderly => LockInv) => OnlyDeadLocksAreReclaimed
  BY DEF LockInv, ReclaimsDead, OnlyDeadLocksAreReclaimed
<1> QED BY <1>1, LockInvariant, PTL

\* Under the same condition giving a lock back never removes another process's
\* file (claimLifetimeLock, release).
THEOREM ReleaseRemovesOwn == Spec => ReleaseKeepsReplacement
<1> DEFINE Kept ==
      Orderly => \A p \in Proc : pc[p] \in Releasing =>
        \A k \in LockPath : (pc'[p] # pc[p] \/ step'[p] # step[p]) /\ file'[k] # file[k]
          => file[k].owner = p
<1>1. ASSUME TypeOK, Orderly => LockInv, [Next]_vars PROVE Kept
  <2> SUFFICES ASSUME Orderly, NEW p \in Proc, pc[p] \in Releasing, NEW k \in LockPath,
                      pc'[p] # pc[p] \/ step'[p] # step[p], file'[k] # file[k]
               PROVE  file[k].owner = p
    OBVIOUS
  <2>1. PICK q \in Proc : Start(q) \/ Acquire(q) \/ WriteFails(q) \/ Release(q) \/ GiveBack(q)
                         \/ Die(q)
    BY <1>1 DEF Next, vars
  <2>2. Create(q) \/ Write(q) \/ Unlink(q) \/ Remove(q)
    BY <2>1 DEF Start, Acquire, WriteFails, Release, GiveBack, Die, Inspect, Probe, Compare, Check
  <2>3. q = p
    BY <1>1, <2>2 DEF Create, Write, Unlink, Remove, Refuse, ReleasePrevious, Goto, TypeOK
  <2>4. Remove(p)
    BY <2>2, <2>3 DEF Create, Write, Unlink, Releasing
  <2>5. IsOwn(p) /\ k = Lock(p)
    BY <1>1, <2>4, LockOfIsPath DEF Remove, LockInv, RemovesOwn, TypeOK
  <2> QED BY <2>5 DEF IsOwn
<1>2. TypeOK /\ (Orderly => LockInv) /\ [Next]_vars => [Kept]_vars
  BY <1>1
<1> QED BY <1>2, LockInvariant, PTL DEF Spec, ReleaseKeepsReplacement

-----------------------------------------------------------------------------
(* What a session leaves behind.  This part needs no orderly history.      *)

\* The whole lock files of a living process are among those it holds.
OwnIsHeld ==
  \A p \in Proc, k \in LockPath :
    pc[p] # "dead" /\ file[k].owner = p /\ file[k].whole => \E i \in 1..Held(p) : Claims[p][i] = k

\* A file that is about to be written has no bytes yet.
Unwritten ==
  \A p \in Proc : pc[p] = "write" /\ file[Lock(p)].owner = p => ~file[Lock(p)].whole

Leftover == OwnIsHeld /\ Unwritten

\* A step of one process keeps this, if that process still holds the whole
\* files that name it and writes only the one it is at.
LEMMA LeftoverKeeps ==
  ASSUME TypeOK, Leftover, NEW p \in Proc,
         \A q \in Proc \ {p} : pc'[q] = pc[q] /\ step'[q] = step[q],
         \A k \in LockPath : file'[k].whole => file'[k] = file[k] \/ file'[k].owner = p,
         pc'[p] # "dead" =>
           \A k \in LockPath : file'[k].owner = p /\ file'[k].whole
             => \E i \in 1..Held(p)' : Claims[p][i] = k,
         pc'[p] = "write" /\ file'[Lock(p)'].owner = p => ~file'[Lock(p)'].whole
  PROVE  Leftover'
<1>1. OwnIsHeld'
  <2> SUFFICES ASSUME NEW q \in Proc, NEW k \in LockPath, q # p,
                      pc'[q] # "dead", file'[k].owner = q, file'[k].whole
               PROVE  \E i \in 1..Held(q)' : Claims[q][i] = k
    BY DEF OwnIsHeld
  <2>1. file'[k] = file[k] /\ pc'[q] = pc[q] /\ Held(q)' = Held(q)
    BY DEF Held
  <2> QED BY <2>1 DEF Leftover, OwnIsHeld
<1>2. Unwritten'
  <2> SUFFICES ASSUME NEW q \in Proc, q # p, pc'[q] = "write", file'[Lock(q)'].owner = q
               PROVE  ~file'[Lock(q)'].whole
    BY DEF Unwritten
  <2>1. pc[q] = "write" /\ Lock(q)' = Lock(q) /\ Lock(q) \in LockPath
    BY LockOfIsPath DEF Lock
  <2> QED BY <2>1 DEF Leftover, Unwritten
<1> QED BY <1>1, <1>2 DEF Leftover

\* Giving up the lock a process is at, which is not a whole file of its own.
LEMMA LeftoverRelease ==
  ASSUME TypeOK, Leftover, NEW p \in Proc, ReleasePrevious(p),
         pc[p] \notin {"ready", "ended", "dead"},
         \A k \in LockPath : file'[k].whole => file'[k] = file[k],
         ~(file'[Lock(p)].owner = p /\ file'[Lock(p)].whole)
  PROVE  Leftover'
<1>1. /\ \A q \in Proc \ {p} : pc'[q] = pc[q] /\ step'[q] = step[q]
      /\ pc'[p] \in {"ended", "check"}
  BY DEF ReleasePrevious, Goto, TypeOK
<1>2. ASSUME NEW k \in LockPath, file'[k].owner = p, file'[k].whole
      PROVE  \E i \in 1..Held(p)' : Claims[p][i] = k
  <2>1. PICK i \in 1..Held(p) : Claims[p][i] = k
    BY <1>2 DEF Leftover, OwnIsHeld
  <2>2. step[p] \in Nat /\ i \in 1..step[p] - 1
    BY <1>2, <2>1 DEF Held, Lock, TypeOK
  <2>3. i \in 1..Held(p)'
    BY <2>2 DEF ReleasePrevious, Goto, Held, TypeOK, Claiming
  <2> QED BY <2>1, <2>3
<1> QED BY <1>1, <1>2, LeftoverKeeps

\* No process has a file at the start.
LEMMA LeftoverInit == Init => Leftover
BY NobodyAssumption DEF Init, Leftover, OwnIsHeld, Unwritten, NoFile

\* Every system call keeps it.
LEMMA LeftoverStep == TypeOK /\ Leftover /\ [Next]_vars => Leftover'
<1> SUFFICES ASSUME TypeOK, Leftover, [Next]_vars PROVE Leftover'
  OBVIOUS
<1> DEFINE Quiet(p) == /\ UNCHANGED file
                       /\ \A q \in Proc \ {p} : pc'[q] = pc[q] /\ step'[q] = step[q]
<1>1. ASSUME NEW p \in Proc, Quiet(p), pc'[p] # "write",
             pc'[p] = "dead" \/ (pc[p] # "dead" /\ Held(p)' = Held(p))
      PROVE  Leftover'
  <2>1. pc'[p] # "dead" =>
          \A k \in LockPath : file'[k].owner = p /\ file'[k].whole
            => \E i \in 1..Held(p)' : Claims[p][i] = k
    BY <1>1 DEF Leftover, OwnIsHeld
  <2> QED BY <1>1, <2>1, LeftoverKeeps
<1>2. ASSUME NEW p \in Proc, Start(p) \/ Release(p) \/ Die(p) PROVE Leftover'
  <2>1. Quiet(p) /\ pc'[p] # "write"
    BY <1>2 DEF Start, Release, Die, Goto, TypeOK
  <2>2. CASE Die(p)
    <3>1. pc'[p] = "dead"
      BY <2>2 DEF Die, Goto, TypeOK
    <3>2. \A k \in LockPath : file'[k].whole => file'[k] = file[k]
      BY <2>1
    <3> QED BY <2>1, <3>1, <3>2, LeftoverKeeps
  <2>3. CASE Release(p)
    <3>1. pc[p] # "dead" /\ Held(p)' = Held(p)
      BY <2>3 DEF Release, Goto, Held, Claiming, TypeOK
    <3> QED BY <1>1, <2>1, <3>1
  <2>4. CASE Start(p)
    <3>1. \A k \in LockPath : file'[k] = file[k] /\ ~(file[k].owner = p /\ file[k].whole)
      BY <2>4 DEF Start, Leftover, OwnIsHeld, Held
    <3> QED BY <2>1, <3>1, LeftoverKeeps
  <2> QED BY <1>2, <2>2, <2>3, <2>4
<1>3. ASSUME NEW p \in Proc, Create(p) PROVE Leftover'
  <2>1. CASE file[Lock(p)] = NoFile
    <3>1. /\ \A k \in LockPath : file'[k] = IF k = Lock(p) THEN [owner |-> p, whole |-> FALSE]
                                                          ELSE file[k]
          /\ pc[p] = "create" /\ pc'[p] = "write" /\ UNCHANGED step
          /\ \A q \in Proc \ {p} : pc'[q] = pc[q]
      BY <1>3, <2>1 DEF Create, Goto, TypeOK
    <3>2. step[p] \in Nat /\ Held(p) = step[p] - 1 /\ Held(p)' = step[p]
      BY <3>1 DEF Held, Claiming, TypeOK
    <3>3. ASSUME NEW k \in LockPath, file'[k].owner = p, file'[k].whole
          PROVE  \E i \in 1..Held(p)' : Claims[p][i] = k
      <4>1. file[k].owner = p /\ file[k].whole
        BY <3>1, <3>3
      <4>2. PICK i \in 1..Held(p) : Claims[p][i] = k
        BY <3>1, <4>1 DEF Leftover, OwnIsHeld
      <4> QED BY <3>2, <4>2
    <3>4. Lock(p)' = Lock(p) /\ Lock(p) \in LockPath
      BY <3>1, LockOfIsPath DEF Lock
    <3> QED BY <3>1, <3>3, <3>4, LeftoverKeeps
  <2>2. CASE file[Lock(p)] # NoFile
    BY <1>1, <1>3, <2>2 DEF Create, Goto, Held, Claiming, TypeOK
  <2> QED BY <2>1, <2>2
<1>4. ASSUME NEW p \in Proc, Write(p) PROVE Leftover'
  <2>1. /\ \A q \in Proc \ {p} : pc'[q] = pc[q] /\ step'[q] = step[q]
        /\ pc[p] = "write" /\ pc'[p] \in {"own", "create"}
    BY <1>4 DEF Write, Goto, TypeOK
  <2>2. step[p] \in Nat /\ Held(p) = step[p] /\ Held(p)' = step[p]
    <3>1. IF AtLastLock(p)
          THEN Goto(p, "own") /\ UNCHANGED step
          ELSE Goto(p, "create") /\ step' = [step EXCEPT ![p] = step[p] + 1]
      BY <1>4 DEF Write
    <3>2. step[p] \in Nat /\ step'[p] = IF pc'[p] = "create" THEN step[p] + 1 ELSE step[p]
      BY <3>1 DEF Goto, TypeOK
    <3> QED BY <2>1, <3>2 DEF Held, Claiming
  <2>3. \A k \in LockPath : k # Lock(p) => file'[k] = file[k]
    BY <1>4 DEF Write, TypeOK
  <2>4. file[Lock(p)].owner # p => file'[Lock(p)] = file[Lock(p)]
    BY <1>4 DEF Write
  <2>5. file'[Lock(p)].owner = file[Lock(p)].owner
    <3>1. file[Lock(p)] \in File
      BY LockOfIsPath DEF TypeOK
    <3>2. file[Lock(p)].owner = p => file' = [file EXCEPT ![Lock(p)] = [owner |-> p, whole |-> TRUE]]
      BY <1>4, <3>1 DEF Write, File
    <3> QED BY <2>4, <3>2, LockOfIsPath DEF TypeOK
  <2>6. ASSUME NEW k \in LockPath, file'[k].owner = p, file'[k].whole
        PROVE  \E i \in 1..Held(p)' : Claims[p][i] = k
    <3>1. CASE k = Lock(p)
      <4>1. step[p] \in 1..Held(p)' /\ Claims[p][step[p]] = k
        BY <2>2, <3>1 DEF Lock, TypeOK
      <4> QED BY <4>1
    <3>2. CASE k # Lock(p)
      BY <2>1, <2>2, <2>3, <2>6, <3>2 DEF Leftover, OwnIsHeld
    <3> QED BY <3>1, <3>2
  <2> QED BY <2>1, <2>3, <2>4, <2>5, <2>6, LeftoverKeeps
<1>5. ASSUME NEW p \in Proc, WriteFails(p) PROVE Leftover'
  BY <1>5, LeftoverRelease DEF WriteFails, Refuse, Leftover, Unwritten
<1>6. ASSUME NEW p \in Proc, pc[p] \in Claiming, Refuse(p), UNCHANGED file
      PROVE  Leftover'
  <2>1. ~(file[Lock(p)].owner = p /\ file[Lock(p)].whole)
    <3> SUFFICES ASSUME file[Lock(p)].owner = p, file[Lock(p)].whole PROVE FALSE
      OBVIOUS
    <3>1. PICK i \in 1..Held(p) : Claims[p][i] = Lock(p)
      BY <1>6, LockOfIsPath DEF Leftover, OwnIsHeld, Claiming
    <3>2. i \in 1..Len(Claims[p]) /\ i # step[p] /\ step[p] \in 1..Len(Claims[p])
      BY <1>6, <3>1, LockOfIsPath DEF Held, Claiming, TypeOK
    <3> QED BY <3>1, <3>2, ClaimsDiffer DEF Lock
  <2> QED BY <1>6, <2>1, LeftoverRelease DEF Refuse, Claiming
<1>7. ASSUME NEW p \in Proc, Inspect(p) \/ Probe(p) \/ Compare(p) PROVE Leftover'
  <2>1. pc[p] \in Claiming /\ UNCHANGED file
    BY <1>7 DEF Inspect, Probe, Compare, Claiming
  <2>2. CASE Refuse(p)
    BY <1>6, <2>1, <2>2
  <2>3. CASE ~Refuse(p)
    <3>1. /\ UNCHANGED step /\ \E next \in {"probe", "compare", "unlink"} : Goto(p, next)
      BY <1>7, <2>3 DEF Inspect, Probe, Compare
    <3>2. Quiet(p) /\ pc'[p] # "write" /\ pc[p] # "dead" /\ Held(p)' = Held(p)
      BY <2>1, <3>1 DEF Goto, Held, Claiming, TypeOK
    <3> QED BY <1>1, <3>2
  <2> QED BY <2>2, <2>3
<1>8. ASSUME NEW p \in Proc, Unlink(p) PROVE Leftover'
  <2>1. CASE file[Lock(p)] = NoFile
    BY <1>6, <1>8, <2>1 DEF Unlink, Claiming
  <2>2. CASE file[Lock(p)] # NoFile
    <3>1. /\ \A k \in LockPath : file'[k] = IF k = Lock(p) THEN NoFile ELSE file[k]
          /\ pc[p] = "unlink" /\ pc'[p] = "create" /\ UNCHANGED step
          /\ \A q \in Proc \ {p} : pc'[q] = pc[q]
      BY <1>8, <2>2 DEF Unlink, Goto, TypeOK
    <3>2. Held(p)' = Held(p)
      BY <3>1 DEF Held, Claiming
    <3> QED BY <3>1, <3>2, LeftoverKeeps, NobodyAssumption DEF Leftover, OwnIsHeld, NoFile
  <2> QED BY <2>1, <2>2
<1>9. ASSUME NEW p \in Proc, Check(p) PROVE Leftover'
  <2>1. CASE IsOwn(p)
    <3>1. Quiet(p) /\ pc'[p] # "write" /\ pc[p] # "dead" /\ Held(p)' = Held(p)
      BY <1>9, <2>1 DEF Check, Goto, Held, Claiming, TypeOK
    <3> QED BY <1>1, <3>1
  <2>2. CASE ~IsOwn(p)
    <3>1. file[Lock(p)] \in File /\ ~(file[Lock(p)].owner = p /\ file[Lock(p)].whole)
      BY <2>2, LockOfIsPath DEF IsOwn, File, TypeOK
    <3> QED BY <1>9, <2>2, <3>1, LeftoverRelease DEF Check
  <2> QED BY <2>1, <2>2
<1>10. ASSUME NEW p \in Proc, Remove(p) PROVE Leftover'
  <2>1. \A k \in LockPath : file'[k] = IF k = Lock(p) THEN NoFile ELSE file[k]
    BY <1>10 DEF Remove, TypeOK
  <2>2. ~file'[Lock(p)].whole /\ \A k \in LockPath : file'[k].whole => file'[k] = file[k]
    BY <2>1, LockOfIsPath DEF NoFile
  <2> QED BY <1>10, <2>2, LeftoverRelease DEF Remove
<1>11. CASE UNCHANGED vars
  BY <1>11 DEF vars, Leftover, OwnIsHeld, Unwritten, Held, Lock
<1> QED BY <1>2, <1>3, <1>4, <1>5, <1>7, <1>8, <1>9, <1>10, <1>11 DEF Next, Acquire, GiveBack

\* A session that ended leaves no lock file that names it, whatever the others
\* did meanwhile (SessionLock.release, and the throws of acquireSessionLock).
THEOREM EndedSessionsLeaveNothing == Spec => []EndedLeavesNoLock
<1>1. TypeOK /\ Leftover => EndedLeavesNoLock
  BY DEF Leftover, OwnIsHeld, EndedLeavesNoLock, Held
<1> QED BY <1>1, LockTypeInit, LockTypeStep, LeftoverInit, LeftoverStep, PTL DEF Spec
=============================================================================
