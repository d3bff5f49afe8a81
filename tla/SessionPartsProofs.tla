------------------------- MODULE SessionPartsProofs -------------------------
(***************************************************************************)
(* Proofs about the parts a session runs beside its locks and its gate:    *)
(* SerializedDirtyLoop, for every set of requests and clients and every    *)
(* debounce time, ReconciledWatch, for any inputs and directories and any  *)
(* number of edits and errors, and OwnedHaxeWaitServer, for any number of  *)
(* hosts, servers and faults.                                              *)
(***************************************************************************)
EXTENDS SerializedDirtyLoop, ReconciledWatch, OwnedHaxeWaitServer, TLAPS

-----------------------------------------------------------------------------
(* SerializedDirtyLoop.                                                    *)

\* What each state of the loop says about its timer, its run and its request.
StateShape ==
  /\ state = "idle" => ~hasPending /\ timer = NoTimer /\ active = "none"
  /\ state = "debouncing" => hasPending /\ timer # NoTimer /\ active = "none"
  /\ state = "running" => timer = NoTimer /\ active # "none"
  /\ state = "closed" => ~hasPending /\ timer = NoTimer

\* The timer measures the debounce time from the last request.
TimerIsRemainder == timer # NoTimer => timer + quiet = Debounce

\* A client in close, or back from it, found the loop closed.
CloseShape ==
  \A k \in Client : /\ at[k] = "closing" => state = "closed"
                    /\ at[k] = "closed" => state = "closed" /\ active = "none"

LoopInv == TypeOK /\ StateShape /\ TimerIsRemainder /\ CloseShape /\ EveryRequestAccounted

-----------------------------------------------------------------------------
\* A new loop satisfies the invariant.
LEMMA LoopInit == Init => LoopInv
<1> SUFFICES ASSUME Init PROVE LoopInv
  OBVIOUS
<1>1. TypeOK
  <2>1. quiet \in 0..Debounce /\ timer \in 0..Debounce \cup {NoTimer}
    BY DebounceAssumption DEF Init
  <2>2. at \in [Client -> At]
    BY DEF Init, At
  <2>3. /\ pending \subseteq Request /\ cause \subseteq Request
        /\ accepted \subseteq Request /\ begun \subseteq Request
    BY DEF Init
  <2>4. state \in State /\ active \in Active /\ hasPending \in BOOLEAN
    BY DEF Init, State, Active
  <2> QED BY <2>1, <2>2, <2>3, <2>4 DEF TypeOK
<1>2. StateShape /\ TimerIsRemainder /\ CloseShape
  BY DEF Init, StateShape, TimerIsRemainder, CloseShape, NoTimer
<1>3. EveryRequestAccounted
  BY DEF Init, EveryRequestAccounted
<1> QED BY <1>1, <1>2, <1>3 DEF LoopInv

\* Every call, timer and job keeps the invariant.
LEMMA LoopStep == LoopInv /\ [Next]_vars => LoopInv'
<1> SUFFICES ASSUME LoopInv, [Next]_vars PROVE LoopInv'
  OBVIOUS
<1> USE DebounceAssumption
<1>1. ASSUME NEW r \in Request, Ask(r) PROVE LoopInv'
  <2>1. TypeOK'
    BY <1>1 DEF Ask, LoopInv, TypeOK, State, Active, At, NoTimer, Merged, NextTimer
  <2>2. StateShape' /\ TimerIsRemainder' /\ CloseShape'
    BY <1>1 DEF Ask, LoopInv, TypeOK, StateShape, TimerIsRemainder, CloseShape,
       State, Active, At, NoTimer, NextTimer
  <2>3. EveryRequestAccounted'
    BY <1>1 DEF Ask, LoopInv, TypeOK, EveryRequestAccounted, Merged
  <2> QED BY <2>1, <2>2, <2>3 DEF LoopInv
<1>2. CASE Tick
  BY <1>2 DEF Tick, LoopInv, TypeOK, StateShape, TimerIsRemainder, CloseShape,
     EveryRequestAccounted, NoTimer
<1>3. CASE Fire
  <2>1. TypeOK'
    BY <1>3 DEF Fire, LoopInv, TypeOK, State, Active, At, NoTimer, ResolveIdle
  <2>2. StateShape' /\ TimerIsRemainder' /\ CloseShape'
    BY <1>3 DEF Fire, LoopInv, TypeOK, StateShape, TimerIsRemainder, CloseShape,
       State, Active, At, NoTimer, ResolveIdle
  <2>3. EveryRequestAccounted'
    BY <1>3 DEF Fire, LoopInv, TypeOK, StateShape, EveryRequestAccounted, State, Active, NoTimer
  <2> QED BY <2>1, <2>2, <2>3 DEF LoopInv
<1>4. CASE RunBegins
  BY <1>4 DEF RunBegins, LoopInv, TypeOK, StateShape, TimerIsRemainder, CloseShape,
     EveryRequestAccounted, Active
<1>5. CASE RunEnds
  <2>1. TypeOK'
    BY <1>5 DEF RunEnds, LoopInv, TypeOK, State, Active, At, NoTimer, ResolveIdle, Remaining
  <2>2. StateShape' /\ TimerIsRemainder' /\ CloseShape'
    BY <1>5 DEF RunEnds, LoopInv, TypeOK, StateShape, TimerIsRemainder, CloseShape,
       State, Active, At, NoTimer, ResolveIdle, Remaining, NothingToDo
  <2>3. EveryRequestAccounted'
    BY <1>5 DEF RunEnds, LoopInv, TypeOK, EveryRequestAccounted, State
  <2> QED BY <2>1, <2>2, <2>3 DEF LoopInv
<1>6. ASSUME NEW k \in Client, WaitForIdle(k) PROVE LoopInv'
  BY <1>6 DEF WaitForIdle, LoopInv, TypeOK, StateShape, TimerIsRemainder, CloseShape,
     EveryRequestAccounted, At
<1>7. ASSUME NEW k \in Client, Close(k) PROVE LoopInv'
  <2>1. TypeOK'
    BY <1>7 DEF Close, LoopInv, TypeOK, State, At, NoTimer, ResolveIdle
  <2>2. StateShape' /\ TimerIsRemainder' /\ CloseShape'
    BY <1>7 DEF Close, LoopInv, TypeOK, StateShape, TimerIsRemainder, CloseShape,
       State, Active, At, NoTimer, ResolveIdle, MustAwait
  <2>3. EveryRequestAccounted'
    BY <1>7 DEF Close, LoopInv, TypeOK, EveryRequestAccounted
  <2> QED BY <2>1, <2>2, <2>3 DEF LoopInv
<1>8. ASSUME NEW k \in Client, CloseReturns(k) PROVE LoopInv'
  BY <1>8 DEF CloseReturns, LoopInv, TypeOK, StateShape, TimerIsRemainder, CloseShape,
     EveryRequestAccounted, At, ResolveIdle
<1>9. CASE UNCHANGED vars
  BY <1>9 DEF vars, LoopInv, TypeOK, StateShape, TimerIsRemainder, CloseShape,
     EveryRequestAccounted
<1> QED BY <1>1, <1>2, <1>3, <1>4, <1>5, <1>6, <1>7, <1>8, <1>9 DEF Next

\* The invariant of every behaviour.
LEMMA LoopInvariant == Spec => []LoopInv
BY LoopInit, LoopStep, PTL DEF Spec

\* Every variable of the loop keeps its type.
THEOREM LoopTypeCorrect == Spec => []TypeOK
<1>1. LoopInv => TypeOK
  BY DEF LoopInv
<1> QED BY <1>1, LoopInvariant, PTL

\* The loop loses no request and runs none twice (request and #start).
THEOREM RequestsAreAccounted == Spec => []EveryRequestAccounted
<1>1. LoopInv => EveryRequestAccounted
  BY DEF LoopInv
<1> QED BY <1>1, LoopInvariant, PTL

\* A request that waits has a timer or a run that will start it (#schedule).
THEOREM WaitingRequestHasStarter == Spec => []TimerMeansWork
<1>1. LoopInv => TimerMeansWork
  BY DEF LoopInv, TypeOK, StateShape, TimerMeansWork, State
<1> QED BY <1>1, LoopInvariant, PTL

\* After close has returned nothing runs (close awaits #active).
THEOREM CloseIsFinal == Spec => []ClosedMeansQuiet
<1>1. LoopInv => ClosedMeansQuiet
  BY DEF LoopInv, StateShape, CloseShape, ClosedMeansQuiet
<1> QED BY <1>1, LoopInvariant, PTL

\* A run starts only after the debounce time without any request.
THEOREM RunsFollowQuiet == Spec => RunFollowsQuiet
<1>1. LoopInv /\ [Next]_vars => [active = "none" /\ active' # "none" => quiet = Debounce]_vars
  <2> SUFFICES ASSUME LoopInv, Next, active = "none", active' # "none"
               PROVE  quiet = Debounce
    BY DEF vars
  <2>1. CASE Fire
    BY <2>1, DebounceAssumption DEF Fire, LoopInv, TypeOK, TimerIsRemainder, NoTimer
  <2>2. ~(Tick \/ RunBegins \/ RunEnds \/ \E r \in Request : Ask(r))
    BY DEF Tick, RunBegins, RunEnds, Ask
  <2>3. ~(\E k \in Client : WaitForIdle(k) \/ Close(k) \/ CloseReturns(k))
    BY DEF WaitForIdle, Close, CloseReturns
  <2> QED BY <2>1, <2>2, <2>3 DEF Next
<1> QED BY <1>1, LoopInvariant, PTL DEF Spec, RunFollowsQuiet

\* waitForIdle returns only to an idle or a closed loop without a run.
THEOREM IdleCallersSeeIdle == Spec => IdleMeansIdle
<1> DEFINE Returns == \A k \in Client : at[k] = "waiting" /\ at'[k] = "idle" =>
                                          active' = "none" /\ ~hasPending'
<1>1. LoopInv /\ [Next]_vars => [Returns]_vars
  <2> SUFFICES ASSUME LoopInv, Next PROVE Returns
    BY DEF vars
  <2>1. CASE Fire
    BY <2>1 DEF Fire, LoopInv, StateShape, TypeOK, State, Active, NoTimer, ResolveIdle
  <2>2. CASE RunEnds
    BY <2>2 DEF RunEnds, LoopInv, StateShape, NothingToDo
  <2>3. CASE Tick \/ RunBegins \/ \E r \in Request : Ask(r)
    BY <2>3 DEF Tick, RunBegins, Ask
  <2>4. ASSUME NEW k \in Client, WaitForIdle(k) PROVE Returns
    BY <2>4 DEF WaitForIdle, LoopInv, TypeOK, At
  <2>5. ASSUME NEW k \in Client, Close(k) PROVE Returns
    BY <2>5 DEF Close, LoopInv, TypeOK, MustAwait, Active
  <2>6. ASSUME NEW k \in Client, CloseReturns(k) PROVE Returns
    BY <2>6 DEF CloseReturns, LoopInv, TypeOK, StateShape, CloseShape
  <2> QED BY <2>1, <2>2, <2>3, <2>4, <2>5, <2>6 DEF Next
<1> QED BY <1>1, LoopInvariant, PTL DEF Spec, IdleMeansIdle

-----------------------------------------------------------------------------
(* ReconciledWatch.  What an answered reconcile() promises is not          *)
(* inductive: the answer is given before the host is called, and the       *)
(* inputs change meanwhile.  WatchInv says for each part of a comparison   *)
(* which of the three copies of an input - on disk, in the snapshot, with  *)
(* the host - may differ.                                                  *)

\* What the parts of a job leave behind.
Shape ==
  /\ pc \in Pc /\ round \in Round
  /\ answer \in {"none", "asked", "unchanged", "changed", "failed"}
  /\ DOMAIN seen \subseteq Path /\ seen \in [DOMAIN seen -> Fingerprint]
  /\ told \in [Path -> Fingerprint] /\ disk \in [Path -> Fingerprint] /\ snapshot \in [Path -> Fingerprint]
  /\ pc = "idle" => round = "open"
  /\ round # "open" => answer = "none"
  /\ pc = "baseline" => round = "start"
  /\ pc \in {"baseline", "capture"} => answer \in {"none", "asked"}
  /\ pc \notin {"baseline", "capture"} => answer # "asked"
  /\ pc # "report" => report = {}
  /\ edits \in 0..MaxEdits

\* What was read is on disk unless it was written since.
ReadIsCurrent == \A p \in DOMAIN seen : seen[p] = disk[p] \/ p \in stale

\* An answer stands for a snapshot of all inputs.
AnswerIsSnapshot ==
  answer \in {"unchanged", "changed"} => \A p \in Path : snapshot[p] = disk[p] \/ p \in stale

WatchInv == Shape /\ ReadIsCurrent /\ AnswerIsSnapshot /\ SnapshotIsTold

-----------------------------------------------------------------------------
\* The inputs that do not exist are the baseline of an empty comparison.
LEMMA WatchStarts == WatchInit => WatchInv
BY InputsAssumption DEF WatchInit, WatchInv, Shape, ReadIsCurrent, AnswerIsSnapshot, SnapshotIsTold,
   Pc, Round, Fingerprint, Missing

\* A step of a job or of the host that reads and writes no input.
LEMMA QuietStep ==
  ASSUME WatchInv, UNCHANGED <<disk, snapshot, seen, told, lost, stale, edits, report>>,
         round' \in Round, pc' \in Pc \ {"baseline"},
         pc = "report" => report = {},
         pc' = "idle" => round' = "open", round # "open" \/ round' = "open",
         \/ answer' = answer /\ (pc' = "capture" => answer \in {"none", "asked"})
                             /\ (answer = "asked" => pc' = "capture")
         \/ answer' = "none" \/ (answer' = "failed" /\ pc' # "capture" /\ round = "open")
         \/ answer' = "asked" /\ pc' = "capture" /\ round = "open"
  PROVE  WatchInv'
BY DEF WatchInv, Shape, ReadIsCurrent, AnswerIsSnapshot, SnapshotIsTold, Pc, Round, Fingerprint

\* Every step of the watch, of the host and of other programs keeps it.
LEMMA WatchStep == WatchInv /\ [WatchNext]_watchVars => WatchInv'
<1> SUFFICES ASSUME WatchInv, [WatchNext]_watchVars PROVE WatchInv'
  OBVIOUS
<1> USE DEF Pc, Round
<1>1. ASSUME NEW p \in Path, Edit(p) PROVE WatchInv'
  <2>1. Shape'
    BY <1>1, InputsAssumption DEF Edit, WatchInv, Shape, Fingerprint, Missing
  <2>2. /\ UNCHANGED <<snapshot, seen, told, report, lost, answer>>
        /\ \A q \in Path : q \in stale' \/ (disk'[q] = disk[q] /\ stale' = stale \cup {p})
    BY <1>1 DEF Edit, WatchInv, Shape
  <2> QED BY <2>1, <2>2, <1>1 DEF Edit, WatchInv, Shape, ReadIsCurrent, AnswerIsSnapshot,
             SnapshotIsTold
<1>2. CASE CaptureRead
  <2>1. PICK p \in Unread :
          /\ seen' = [q \in DOMAIN seen \cup {p} |-> IF q = p THEN disk[p] ELSE seen[q]]
          /\ stale' = stale \ {p}
    BY <1>2 DEF CaptureRead
  <2> QED
    BY <1>2, <2>1 DEF CaptureRead, Unread, WatchInv, Shape, ReadIsCurrent, AnswerIsSnapshot,
       SnapshotIsTold
<1>3. CASE CaptureFails
  BY <1>3 DEF CaptureFails, KeepsSnapshot, Complain, CloseHere, WatchInv, Shape, ReadIsCurrent,
     AnswerIsSnapshot, SnapshotIsTold
<1>4. CASE TakeBaseline
  <2>1. DOMAIN seen = Path /\ seen \in [Path -> Fingerprint]
    BY <1>4 DEF TakeBaseline, Unread, WatchInv, Shape
  <2> QED
    BY <1>4, <2>1 DEF TakeBaseline, WatchInv, Shape, ReadIsCurrent, AnswerIsSnapshot, SnapshotIsTold
<1>5. CASE Compare
  <2>1. DOMAIN seen = Path /\ seen \in [Path -> Fingerprint]
    BY <1>5 DEF Compare, Unread, WatchInv, Shape
  <2> QED
    BY <1>5, <2>1 DEF Compare, Changed, WatchInv, Shape, ReadIsCurrent, AnswerIsSnapshot,
       SnapshotIsTold
<1>6. CASE Report
  <2>1. PICK p \in report : LET rest == report \ {p} IN
          /\ told' = [told EXCEPT ![p] = snapshot[p]]
          /\ \/ report' = rest /\ lost' = lost \ {p} /\ UNCHANGED <<answer, pc>>
             \/ /\ report' = {} /\ lost' = (lost \ {p}) \cup rest /\ pc' = "subscribe"
                /\ answer' = IF answer = "changed" THEN "failed" ELSE answer
    BY <1>6 DEF Report
  <2> QED
    BY <1>6, <2>1 DEF Report, WatchInv, Shape, ReadIsCurrent, AnswerIsSnapshot, SnapshotIsTold
<1>7. CASE ReportDone
  BY <1>7, QuietStep DEF ReportDone, WatchInv, Shape
<1>8. CASE Subscribe
  BY <1>8, QuietStep DEF Subscribe, ReturnFrom, WatchInv, Shape
<1>9. ASSUME NEW d \in Dir \cup {Root}, Open(d) PROVE WatchInv'
  BY <1>9, QuietStep DEF Open, WatchInv, Shape
<1>10. CASE Opened
  BY <1>10, QuietStep DEF Opened, ReturnFrom, WatchInv, Shape
<1>11. CASE Poll \/ Native \/ Reconcile
  BY <1>11, QuietStep DEF Poll, Native, Reconcile, StartRound, WatchInv, Shape
<1>12. CASE CloseWatch \/ \E d \in Dir \cup {Root} : WatcherFails(d)
  BY <1>12, QuietStep DEF CloseWatch, WatcherFails, WatchInv, Shape
<1>13. CASE UNCHANGED watchVars
  BY <1>13 DEF watchVars, WatchInv, Shape, ReadIsCurrent, AnswerIsSnapshot, SnapshotIsTold
<1> QED
  BY <1>1, <1>2, <1>3, <1>4, <1>5, <1>6, <1>7, <1>8, <1>9, <1>10, <1>11, <1>12, <1>13
     DEF WatchNext, Work

\* The inductive invariant of the watch.
THEOREM WatchInvariant == WatchSpec => []WatchInv
BY WatchStarts, WatchStep, PTL DEF WatchSpec

\* The snapshot never runs ahead of what emitReconciliation has handed to the
\* host, whatever fails, except where onChange threw.
THEOREM SnapshotNeverAhead == WatchSpec => []SnapshotIsTold
<1>1. WatchInv => SnapshotIsTold
  BY DEF WatchInv
<1> QED BY <1>1, WatchInvariant, PTL

\* An answered reconcile() has told the host of every input as it was read.
THEOREM AnswersAreCurrent == WatchSpec => []AnswerIsCurrent
<1>1. WatchInv => AnswerIsCurrent
  BY DEF WatchInv, Shape, AnswerIsSnapshot, SnapshotIsTold, AnswerIsCurrent
<1> QED BY <1>1, WatchInvariant, PTL

-----------------------------------------------------------------------------
(* OwnedHaxeWaitServer.  That a host has one child follows from what it    *)
(* knows at each step of its operation, which ServerShape says; that the   *)
(* lease names the warm server needs, besides, that a claim removes the    *)
(* lease of two dead processes only, and a host its own.                   *)

Claiming == {"inspect", "read", "judge", "compare", "unlink", "start"}

ServerShape(h) ==
  /\ host[h].pc \in Claiming => host[h].process = None /\ host[h].starts < MaxStarts[h]
  /\ Stopping(h) =>
       host[h].process # None /\ (host[h].after = "restart" => host[h].starts < MaxStarts[h])
  /\ host[h].pc \in {"create", "fill"} => host[h].process # None
  /\ host[h].pc \in {"judge", "compare", "unlink"} => host[h].seen \in Child
  /\ host[h].pc \in {"compare", "unlink"} => ~InUse(host[h].seen)
  /\ host[h].leaseBytes \in {None, host[h].process}

\* A child that was not given up is the one its host knows.
ChildrenAreKnown ==
  \A c \in alive \ survived : AtPlace(c.host, "dead") \/ c = host[c.host].process

ChildrenStarted == \A c \in alive \cup exited : c.n <= host[c.host].starts

ServerInv ==
  /\ ServerTypeOK /\ \A h \in Host : ServerShape(h)
  /\ exited \cap alive = {} /\ ChildrenStarted
  /\ ChildrenAreKnown /\ ServersAreDiscoverable

LEMMA ChildFields ==
  ASSUME NEW c \in Child
  PROVE  c.host \in Host /\ c.n \in Nat /\ c = [host |-> c.host, n |-> c.n] /\ c # None /\ c # Torn
<1>1. PICK h \in Host : c \in [host : {h}, n : 1..MaxStarts[h]]
  BY DEF Child
<1> QED BY <1>1, NoneAssumption

LEMMA ServerStarts == ServerInit => ServerInv
<1> SUFFICES ASSUME ServerInit PROVE ServerInv
  OBVIOUS
<1> DEFINE c == [host |-> Earlier, n |-> 1]
<1>1. c \in Child /\ Earlier \in Host /\ MaxStarts[Earlier] = 1
  <2>1. c \in [host : {Earlier}, n : 1..MaxStarts[Earlier]]
    BY BoundsAssumption
  <2> QED BY <2>1, BoundsAssumption DEF Child
<1>2. New \in Server /\ Died(1) \in Server /\ Died(1).pc = "dead" /\ Died(1).starts = 1
      /\ New.starts = 0 /\ New.pc = "idle" /\ New.leaseBytes = None /\ Died(1).leaseBytes = None
  BY DEF New, Died, Server, Place, Awaits, After
<1>3. /\ \A h \in Host : host[h] = IF h = Earlier THEN Died(1) ELSE New
      /\ host \in [Host -> Server]
  BY <1>2 DEF ServerInit
<1>4. ServerTypeOK
  <2>1. \A h \in Host : host[h].starts <= MaxStarts[h]
    BY <1>1, <1>2, <1>3, BoundsAssumption
  <2>2. lease \in Child \cup {None, Torn} /\ alive \subseteq Child
    BY <1>1 DEF ServerInit
  <2>3. served \subseteq alive /\ exited \subseteq Child /\ survived \subseteq Child /\ raced \in BOOLEAN
    BY DEF ServerInit
  <2>4. faults \in 0..MaxFaults
    BY BoundsAssumption DEF ServerInit
  <2> QED BY <1>3, <2>1, <2>2, <2>3, <2>4 DEF ServerTypeOK
<1>5. \A h \in Host : ServerShape(h)
  BY <1>2, <1>3 DEF ServerShape, Stopping, Claiming
<1>6. ChildrenStarted /\ ChildrenAreKnown
  <2>1. host[Earlier].starts = 1 /\ host[Earlier].pc = "dead"
    BY <1>1, <1>2, <1>3
  <2> QED BY <2>1 DEF ServerInit, ChildrenStarted, ChildrenAreKnown, AtPlace
<1> QED BY <1>4, <1>5, <1>6 DEF ServerInit, ServerInv, ServersAreDiscoverable

\* A step of one host that starts and ends no child: it forgets its child only
\* if that is no longer there or was given up.
LEMMA HostStep ==
  ASSUME ServerInv, NEW h \in Host, NEW s \in Server, Set(h, s),
         s.starts = host[h].starts, host[h].pc # "dead", s.pc # "dead",
         UNCHANGED <<alive, exited>>, survived \subseteq survived', survived' \subseteq Child,
         served' \subseteq alive,
         lease' \in Child \cup {None, Torn}, raced' \in BOOLEAN, faults' \in 0..MaxFaults,
         s.process = host[h].process \/ host[h].process \notin alive \ survived',
         ServerShape(h)', ServersAreDiscoverable'
  PROVE  ServerInv'
<1> USE DEF ServerInv
<1>1. host'[h] = s /\ \A k \in Host \ {h} : host'[k] = host[k]
  BY DEF Set, ServerTypeOK
<1>2. ServerTypeOK'
  BY <1>1 DEF Set, ServerTypeOK
<1>3. \A c \in Child : c.host \in Host
  BY ChildFields
<1>4. \A c \in Child : InUse(c)' <=> InUse(c)
  BY <1>1, <1>3 DEF InUse
<1>5. \A k \in Host \ {h} : ServerShape(k)'
  BY <1>1, <1>4 DEF ServerShape, Stopping
<1>6. ChildrenStarted' /\ ChildrenAreKnown'
  BY <1>1, <1>3 DEF ChildrenStarted, ChildrenAreKnown, AtPlace, ServerTypeOK
<1> QED BY <1>2, <1>5, <1>6

\* What stays true of the lease when nothing is served newly.
LEMMA LeaseKept ==
  ASSUME ServersAreDiscoverable, UNCHANGED <<served, raced>>,
         lease' = lease \/ lease \notin served
  PROVE  ServersAreDiscoverable'
BY DEF ServersAreDiscoverable

\* What the helpers of a host change of its record.
LEMMA AtFields ==
  ASSUME NEW s \in Server, NEW place \in Place
  PROVE  /\ [s EXCEPT !.pc = place] \in Server
         /\ [s EXCEPT !.pc = place].pc = place
         /\ [s EXCEPT !.pc = place].process = s.process
         /\ [s EXCEPT !.pc = place].starts = s.starts
         /\ [s EXCEPT !.pc = place].leaseBytes = s.leaseBytes
         /\ [s EXCEPT !.pc = place].seen = s.seen
         /\ [s EXCEPT !.pc = place].after = s.after
BY DEF Server

LEMMA ReturnedFields ==
  ASSUME NEW s \in Server
  PROVE  /\ Returned(s) \in Server /\ Returned(s).pc = "idle" /\ Returned(s).process = s.process
         /\ Returned(s).starts = s.starts /\ Returned(s).leaseBytes = s.leaseBytes
BY DEF Server, Place, Awaits, Returned

LEMMA FallsFields ==
  ASSUME NEW s \in Server
  PROVE  /\ FallsBack(s) \in Server /\ FallsBack(s).pc = "idle"
         /\ FallsBack(s).process = s.process /\ FallsBack(s).starts = s.starts
         /\ FallsBack(s).leaseBytes = s.leaseBytes
<1>1. s.want \in Digest \cup {None}
  BY DEF Server
<1>2. \A r \in Server :
        LET t == [r EXCEPT !.fallback = s.want]
        IN  /\ t \in Server /\ t.pc = r.pc /\ t.process = r.process /\ t.starts = r.starts
            /\ t.leaseBytes = r.leaseBytes
  BY <1>1 DEF Server
<1> QED BY <1>2, ReturnedFields DEF FallsBack

\* What stopOwned leaves to its caller.
LEMMA ContinueFields ==
  ASSUME NEW s \in Server, NEW after \in After, NEW t,
         t = Stopped(Continue(s, after)) \/ t = Stopped(Ended(s, after))
  PROVE  /\ t \in Server /\ t.process = None /\ t.leaseBytes = None /\ t.starts = s.starts
         /\ t.pc \in {"idle", "inspect"} /\ (t.pc = "inspect" => after = "restart")
<1> DEFINE inspects == [s EXCEPT !.pc = "inspect"]
           falls == FallsBack(s)
           idles == [s EXCEPT !.pc = "idle"]
<1>1. \A u \in {inspects, falls, idles} :
        /\ u \in Server /\ u.starts = s.starts
        /\ u.pc \in {"idle", "inspect"} /\ (u.pc = "inspect" => u = inspects)
  <2>0. "inspect" \in Place /\ "idle" \in Place
    BY DEF Place, Awaits
  <2>1. inspects \in Server /\ inspects.pc = "inspect" /\ inspects.starts = s.starts
    BY <2>0, AtFields
  <2>2. falls \in Server /\ falls.pc = "idle" /\ falls.starts = s.starts
    BY FallsFields
  <2>3. idles \in Server /\ idles.pc = "idle" /\ idles.starts = s.starts
    BY <2>0, AtFields
  <2> HIDE DEF inspects, falls, idles
  <2> QED BY <2>1, <2>2, <2>3
<1>2. \A u \in Server :
        /\ Stopped(u) \in Server /\ Stopped(u).starts = u.starts /\ Stopped(u).pc = u.pc
        /\ Stopped(u).process = None /\ Stopped(u).leaseBytes = None
  BY DEF Server, After, Stopped
<1>3. CASE after = "restart"
  <2>1. t = Stopped(inspects) \/ t = Stopped(falls)
    BY <1>3 DEF Continue, Ended
  <2> HIDE DEF inspects, falls, idles
  <2> QED BY <1>1, <1>2, <1>3, <2>1
<1>4. CASE after # "restart"
  <2>1. t = Stopped(falls) \/ t = Stopped(idles)
    BY <1>4 DEF Continue, Ended, After
  <2>2. falls.pc = "idle" /\ idles.pc = "idle"
    BY DEF FallsBack, Returned, Server
  <2> HIDE DEF inspects, falls, idles
  <2> QED BY <1>1, <1>2, <2>1, <2>2
<1> QED BY <1>3, <1>4

\* The child is stopped, or there is none.
LEMMA StopStep ==
  ASSUME ServerInv, NEW h \in Host, NEW s \in Server, NEW after \in {"fallback", "close"},
         Stop(h, after, s), s.starts = host[h].starts, s.process = host[h].process,
         s.leaseBytes = host[h].leaseBytes, host[h].pc # "dead",
         UNCHANGED <<alive, exited, served, survived, raced>>, faults' \in 0..MaxFaults
  PROVE  ServerInv'
<1>1. after \in After
  BY DEF After
<1>2. CASE s.process = None
  <2> DEFINE t == Stopped(Continue(s, after))
  <2>1. /\ t \in Server /\ t.process = None /\ t.leaseBytes = None /\ t.starts = s.starts
        /\ t.pc = "idle"
    <3>1. t = Stopped(Continue(s, after))
      OBVIOUS
    <3> HIDE DEF t
    <3> QED BY <1>1, <3>1, ContinueFields
  <2>2. Set(h, t) /\ lease' = CleanedLease(h)
    BY <1>2 DEF Stop
  <2> HIDE DEF t
  <2>3. host'[h] = t
    BY <2>2 DEF Set, ServerInv, ServerTypeOK
  <2>4. ServerShape(h)'
    BY <2>1, <2>3 DEF ServerShape, Stopping, Claiming
  <2>5. lease' = lease
    BY <1>2, <2>2 DEF CleanedLease, ServerInv, ServerShape
  <2>6. ServersAreDiscoverable'
    BY <2>5, LeaseKept DEF ServerInv
  <2> QED BY <1>2, <2>1, <2>2, <2>4, <2>5, <2>6, HostStep DEF ServerInv, ServerTypeOK
<1>3. CASE s.process # None
  <2> DEFINE t == [s EXCEPT !.pc = "term", !.after = after]
  <2>1. /\ t \in Server /\ t.process = s.process /\ t.leaseBytes = s.leaseBytes /\ t.starts = s.starts
        /\ t.pc = "term" /\ t.after = after
    BY <1>1 DEF Server, Place, Awaits
  <2>2. Set(h, t) /\ lease' = lease
    BY <1>3 DEF Stop
  <2> HIDE DEF t
  <2>3. host'[h] = t
    BY <2>2 DEF Set, ServerInv, ServerTypeOK
  <2>4. ServerShape(h)'
    BY <1>3, <2>1, <2>3 DEF ServerShape, Stopping, Claiming, ServerInv
  <2>6. ServersAreDiscoverable'
    BY <2>2, LeaseKept DEF ServerInv
  <2> QED BY <2>1, <2>2, <2>4, <2>6, HostStep DEF ServerInv, ServerTypeOK
<1> QED BY <1>2, <1>3

\* A step that only moves on, keeping its child, the lease and all children.
LEMMA GotoStep ==
  ASSUME ServerInv, NEW h \in Host, NEW s \in Server, Set(h, s),
         s.starts = host[h].starts, host[h].pc # "dead", s.pc # "dead",
         s.process = host[h].process, UNCHANGED <<alive, exited, served, survived, lease, raced>>,
         faults' \in 0..MaxFaults, host'[h] = s => ServerShape(h)'
  PROVE  ServerInv'
<1>1. host'[h] = s
  BY DEF Set, ServerInv, ServerTypeOK
<1>2. ServersAreDiscoverable'
  BY LeaseKept DEF ServerInv
<1> QED BY <1>1, <1>2, HostStep DEF ServerInv, ServerTypeOK

\* The steps of claimLease: a lease is removed only when both its processes
\* are gone, and a dead process does not come back.
LEMMA ClaimStep ==
  ASSUME ServerInv, NEW h \in Host,
         \/ \E d \in Asks[h] : Ensure(h, d)
         \/ Inspect(h) \/ ReadLease(h) \/ Judge(h) \/ CompareLease(h) \/ Unlink(h)
  PROVE  ServerInv'
<1> USE DEF ServerInv, AtPlace, children, files
<1>0. host[h] \in Server /\ host[h].starts \in Nat /\ ServerShape(h)
  BY DEF ServerTypeOK, Server
<1>1. UNCHANGED <<alive, exited, served, survived, faults>> /\ host[h].pc # "dead"
  BY DEF Ensure, Inspect, ReadLease, Judge, CompareLease, Unlink
<1>2. CASE \E d \in Asks[h] : Ensure(h, d)
  <2> PICK d \in Asks[h] : Ensure(h, d)
    BY <1>2
  <2>0. d \in Digest
    BY BoundsAssumption
  <2>1. CASE host[h].process = None
    <3> DEFINE t == [host[h] EXCEPT !.pc = "inspect", !.want = d]
    <3>1. t \in Server /\ t.pc = "inspect" /\ t.process = None /\ t.starts = host[h].starts
          /\ t.leaseBytes = host[h].leaseBytes
      BY <1>0, <2>0, <2>1 DEF Server, Place
    <3>2. Set(h, t)
      BY <2>1 DEF Ensure
    <3> HIDE DEF t
    <3> QED BY <1>0, <1>1, <2>1, <3>1, <3>2, GotoStep DEF Ensure, ServerShape, Stopping,
               ServerTypeOK
  <2>2. CASE host[h].process # None
    <3> DEFINE t == [host[h] EXCEPT !.pc = "term", !.after = "restart", !.want = d]
    <3>1. t \in Server /\ t.pc = "term" /\ t.process = host[h].process /\ t.starts = host[h].starts
          /\ t.leaseBytes = host[h].leaseBytes /\ t.after = "restart"
      BY <1>0, <2>0 DEF Server, Place, Awaits, After
    <3>2. Set(h, t)
      BY <2>2 DEF Ensure
    <3> HIDE DEF t
    <3> QED BY <1>0, <1>1, <2>2, <3>1, <3>2, GotoStep DEF Ensure, ServerShape, Stopping, Claiming,
               ServerTypeOK
  <2> QED BY <2>1, <2>2
<1> DEFINE goto(place) == [host[h] EXCEPT !.pc = place]
<1>3. \A place \in Place :
        /\ goto(place) \in Server /\ goto(place).pc = place /\ goto(place).process = host[h].process
        /\ goto(place).starts = host[h].starts /\ goto(place).leaseBytes = host[h].leaseBytes
        /\ goto(place).seen = host[h].seen
  BY <1>0, AtFields
<1> DEFINE f == [FallsBack(host[h]) EXCEPT !.seen = None]
<1>4. /\ f \in Server /\ f.pc = "idle" /\ f.process = host[h].process /\ f.starts = host[h].starts
      /\ f.leaseBytes = host[h].leaseBytes
  <2>1. \A r \in Server :
          LET t == [r EXCEPT !.seen = None]
          IN  /\ t \in Server /\ t.pc = r.pc /\ t.process = r.process /\ t.starts = r.starts
              /\ t.leaseBytes = r.leaseBytes
    BY DEF Server
  <2> QED BY <1>0, <2>1, FallsFields
<1> HIDE DEF goto, f
\* Every step of the claim may fall back instead.
<1>5. ASSUME Fallback(h), UNCHANGED <<lease, raced>> PROVE ServerInv'
  <2>1. Set(h, f)
    BY <1>5 DEF Fallback, f
  <2> QED BY <1>0, <1>1, <1>4, <1>5, <2>1, GotoStep DEF ServerShape, Stopping, Claiming,
             ServerTypeOK
<1>6. CASE Inspect(h)
  <2> PICK place \in {"start", "read"} : Set(h, goto(place))
    BY <1>6 DEF Inspect, Goto, goto
  <2>1. host[h].pc = "inspect" /\ UNCHANGED <<lease, raced>>
    BY <1>6 DEF Inspect
  <2> QED
    BY <1>0, <1>1, <1>3, <2>1, GotoStep DEF Place, Awaits, ServerShape, Stopping, Claiming,
       ServerTypeOK
<1>7. CASE ReadLease(h)
  <2>1. host[h].pc = "read" /\ UNCHANGED <<lease, raced>>
    BY <1>7 DEF ReadLease
  <2>2. CASE lease \in Child
    <3> DEFINE t == [host[h] EXCEPT !.pc = "judge", !.seen = lease]
    <3>1. t \in Server /\ t.pc = "judge" /\ t.process = host[h].process /\ t.starts = host[h].starts
          /\ t.leaseBytes = host[h].leaseBytes /\ t.seen = lease
      BY <1>0, <2>2 DEF Server, Place
    <3>2. Set(h, t)
      BY <1>7, <2>2 DEF ReadLease
    <3> HIDE DEF t
    <3> QED BY <1>0, <1>1, <2>1, <2>2, <3>1, <3>2, GotoStep DEF ServerShape, Stopping, Claiming,
               ServerTypeOK
  <2> QED BY <1>5, <1>7, <2>1, <2>2 DEF ReadLease
<1>8. CASE Judge(h)
  <2>1. host[h].pc = "judge" /\ UNCHANGED <<lease, raced>>
    BY <1>8 DEF Judge
  <2>2. CASE ~InUse(host[h].seen)
    <3>1. Set(h, goto("compare")) /\ host[h].seen \in Child
      BY <1>0, <1>8, <2>1, <2>2 DEF Judge, Goto, goto, ServerShape
    <3>2. host[h].seen \notin alive /\ host[host[h].seen.host].pc = "dead"
      BY <2>2 DEF InUse
    <3>3. host[h].seen.host \in Host \ {h}
      BY <1>1, <3>1, <3>2, ChildFields
    <3>4. host'[host[h].seen.host] = host[host[h].seen.host]
      BY <3>1, <3>3 DEF Set, ServerTypeOK
    <3> QED
      BY <1>0, <1>1, <1>3, <2>1, <3>1, <3>2, <3>4, GotoStep
         DEF Place, ServerShape, Stopping, Claiming, ServerTypeOK, InUse
  <2> QED BY <1>5, <1>8, <2>1, <2>2 DEF Judge
<1>9. CASE CompareLease(h)
  <2>1. host[h].pc = "compare" /\ UNCHANGED <<lease, raced>>
    BY <1>9 DEF CompareLease
  <2>2. CASE lease = host[h].seen
    <3>1. Set(h, goto("unlink")) /\ host[h].seen \in Child
      BY <1>0, <1>9, <2>1, <2>2 DEF CompareLease, Goto, goto, ServerShape
    <3>2. host[h].seen \notin alive /\ host[host[h].seen.host].pc = "dead"
      BY <1>0, <2>1 DEF InUse, ServerShape
    <3>3. host[h].seen.host \in Host \ {h}
      BY <1>1, <3>1, <3>2, ChildFields
    <3>4. host'[host[h].seen.host] = host[host[h].seen.host]
      BY <3>1, <3>3 DEF Set, ServerTypeOK
    <3> QED
      BY <1>0, <1>1, <1>3, <2>1, <3>1, <3>2, <3>4, GotoStep
         DEF Place, ServerShape, Stopping, Claiming, ServerTypeOK, InUse
  <2> QED BY <1>5, <1>9, <2>1, <2>2 DEF CompareLease
<1>10. CASE Unlink(h)
  <2>1. /\ host[h].pc = "unlink" /\ lease' = None /\ raced' = (raced \/ lease \notin {None, host[h].seen})
        /\ raced' \in BOOLEAN
    BY <1>10 DEF Unlink, ServerTypeOK
  <2>2. host[h].seen \notin served
    BY <1>0, <2>1 DEF ServerShape, InUse, ServerTypeOK
  <2>3. ServersAreDiscoverable'
    BY <1>1, <2>1, <2>2 DEF ServersAreDiscoverable
  <2> DEFINE claimed == [host[h] EXCEPT !.pc = "start", !.seen = None]
  <2>10. /\ claimed \in Server /\ claimed.pc = "start" /\ claimed.process = host[h].process
         /\ claimed.starts = host[h].starts /\ claimed.leaseBytes = host[h].leaseBytes
    BY <1>0 DEF Server, Place, Awaits
  <2>11. Set(h, IF lease = None THEN f ELSE claimed)
    BY <1>10 DEF Unlink, Fallback, f
  <2> HIDE DEF claimed
  <2> DEFINE t == IF lease = None THEN f ELSE claimed
  <2>4. /\ t \in Server /\ t.pc \in {"idle", "start"} /\ t.process = host[h].process
        /\ t.starts = host[h].starts /\ t.leaseBytes = host[h].leaseBytes
    BY <1>4, <2>10
  <2>5. Set(h, t)
    BY <2>11
  <2> HIDE DEF t
  <2>6. host'[h] = t
    BY <2>5 DEF Set, ServerTypeOK
  <2>7. ServerShape(h)'
    BY <1>0, <2>1, <2>4, <2>6 DEF ServerShape, Stopping, Claiming
  <2> QED BY <1>1, <2>1, <2>3, <2>4, <2>5, <2>7, HostStep DEF ServerTypeOK
<1> QED BY <1>2, <1>6, <1>7, <1>8, <1>9, <1>10
\* The steps of an operation around stopOwned, and of connected compilers.
LEMMA OperationStep ==
  ASSUME ServerInv, NEW h \in Host,
         \/ StopEnds(h) \/ Kill(h) \/ Abandon(h) \/ Ready(h) \/ NotReady(h)
         \/ \E d \in Asks[h] : Compile(h, d)
         \/ Compiled(h) \/ ConnectedFails(h) \/ Probed(h) \/ CloseServer(h)
  PROVE  ServerInv'
<1> USE DEF ServerInv, AtPlace, children, files
<1>0. host[h] \in Server /\ host[h].starts \in Nat /\ ServerShape(h)
  BY DEF ServerTypeOK, Server
<1>1. UNCHANGED <<alive, exited, served, raced, faults>> /\ host[h].pc # "dead"
  BY DEF StopEnds, Kill, Abandon, Ready, NotReady, Compile, Compiled, ConnectedFails, Probed,
         CloseServer, Stopping
<1> DEFINE goto(place) == [host[h] EXCEPT !.pc = place]
<1>2. \A place \in Place :
        /\ goto(place) \in Server /\ goto(place).pc = place /\ goto(place).process = host[h].process
        /\ goto(place).starts = host[h].starts /\ goto(place).leaseBytes = host[h].leaseBytes
        /\ goto(place).after = host[h].after
  BY <1>0, AtFields
<1> DEFINE back == Returned(host[h])
<1>3. /\ back \in Server /\ back.pc = "idle" /\ back.process = host[h].process
      /\ back.starts = host[h].starts /\ back.leaseBytes = host[h].leaseBytes
  BY <1>0, ReturnedFields
<1> HIDE DEF goto, back
<1>4. ASSUME Set(h, back), UNCHANGED <<survived, lease>> PROVE ServerInv'
  BY <1>0, <1>1, <1>3, <1>4, GotoStep DEF ServerShape, Stopping, Claiming, ServerTypeOK
<1>5. ASSUME Stop(h, "fallback", host[h]), UNCHANGED survived PROVE ServerInv'
  BY <1>0, <1>1, <1>5, StopStep DEF ServerTypeOK
<1>6. CASE StopEnds(h)
  <2> DEFINE t == Stopped(Continue(host[h], host[h].after))
  <2>1. host[h].after \in After
    BY <1>0 DEF Server
  <2>2. /\ t \in Server /\ t.process = None /\ t.leaseBytes = None /\ t.starts = host[h].starts
        /\ t.pc \in {"idle", "inspect"} /\ (t.pc = "inspect" => host[h].after = "restart")
    <3> PICK s \in Server, after \in After : s = host[h] /\ after = host[h].after
      BY <1>0, <2>1
    <3>1. t = Stopped(Continue(s, after))
      OBVIOUS
    <3> HIDE DEF t
    <3> QED BY <3>1, ContinueFields
  <2>3. Set(h, t) /\ lease' = CleanedLease(h) /\ Stopping(h) /\ host[h].process \in exited
        /\ UNCHANGED survived
    BY <1>6 DEF StopEnds
  <2> HIDE DEF t
  <2>4. host'[h] = t
    BY <2>3 DEF Set, ServerTypeOK
  <2>5. ServerShape(h)'
    BY <1>0, <2>2, <2>3, <2>4 DEF ServerShape, Stopping, Claiming
  <2>6. host[h].process \notin alive /\ host[h].process \notin served
    BY <2>3 DEF ServerTypeOK
  <2>7. lease' = lease \/ (lease = host[h].process /\ lease' = None)
    BY <1>0, <2>3 DEF CleanedLease, ServerShape
  <2>8. ServersAreDiscoverable'
    BY <1>1, <2>6, <2>7, LeaseKept
  <2> QED BY <1>0, <1>1, <2>2, <2>3, <2>5, <2>6, <2>7, <2>8, HostStep DEF ServerTypeOK
<1>7. CASE Kill(h)
  <2>1. Set(h, goto("kill")) /\ host[h].pc = "term" /\ UNCHANGED <<survived, lease>>
    BY <1>7 DEF Kill, Goto, goto
  <2>2. /\ goto("kill") \in Server /\ goto("kill").pc = "kill"
        /\ goto("kill").process = host[h].process /\ goto("kill").starts = host[h].starts
        /\ goto("kill").leaseBytes = host[h].leaseBytes /\ goto("kill").after = host[h].after
    BY <1>2 DEF Place, Awaits
  <2>3. host'[h] = goto("kill") => ServerShape(h)'
    BY <1>0, <2>1, <2>2 DEF ServerShape, Stopping, Claiming
  <2> QED BY <1>0, <1>1, <2>1, <2>2, <2>3, GotoStep DEF ServerTypeOK
<1>8. CASE Abandon(h)
  <2> DEFINE t == Stopped(Ended(host[h], host[h].after))
  <2>1. host[h].after \in After
    BY <1>0 DEF Server
  <2>2. /\ t \in Server /\ t.process = None /\ t.leaseBytes = None /\ t.starts = host[h].starts
        /\ t.pc \in {"idle", "inspect"} /\ (t.pc = "inspect" => host[h].after = "restart")
    <3> PICK s \in Server, after \in After : s = host[h] /\ after = host[h].after
      BY <1>0, <2>1
    <3>1. t = Stopped(Ended(s, after))
      OBVIOUS
    <3> HIDE DEF t
    <3> QED BY <3>1, ContinueFields
  <2>3. /\ Set(h, t) /\ Stopping(h) /\ survived' = survived \cup {host[h].process} /\ UNCHANGED lease
        /\ host[h].process \in Child
    BY <1>0, <1>8 DEF Abandon, Stopping, ServerShape, Server
  <2> HIDE DEF t
  <2>4. host'[h] = t
    BY <2>3 DEF Set, ServerTypeOK
  <2>5. ServerShape(h)'
    BY <1>0, <2>2, <2>3, <2>4 DEF ServerShape, Stopping, Claiming
  <2>6. survived \subseteq survived' /\ survived' \subseteq Child /\ host[h].process \notin alive \ survived'
    BY <2>3 DEF ServerTypeOK
  <2>7. ServersAreDiscoverable'
    BY <1>1, <2>3, LeaseKept
  <2> QED BY <1>0, <1>1, <2>2, <2>3, <2>5, <2>6, <2>7, HostStep DEF ServerTypeOK
<1>9. CASE Ready(h)
  <2>1. Set(h, goto("create")) /\ host[h].pc = "wait" /\ host[h].process # None /\ UNCHANGED <<survived, lease>>
    BY <1>9 DEF Ready, Goto, goto
  <2> QED BY <1>0, <1>1, <1>2, <2>1, GotoStep DEF Place, ServerShape, Stopping, Claiming,
             ServerTypeOK
<1>10. CASE \E d \in Asks[h] : Compile(h, d)
  <2> PICK d \in Asks[h] : Compile(h, d)
    BY <1>10
  <2> DEFINE t == [host[h] EXCEPT !.pc = "connected", !.want = d]
  <2>1. t \in Server /\ t.pc = "connected" /\ t.process = host[h].process /\ t.starts = host[h].starts
        /\ t.leaseBytes = host[h].leaseBytes
    BY <1>0, BoundsAssumption DEF Server, Place, Awaits
  <2>2. Set(h, t)
    BY DEF Compile
  <2> HIDE DEF t
  <2> QED BY <1>0, <1>1, <2>1, <2>2, GotoStep DEF Compile, ServerShape, Stopping, Claiming,
             ServerTypeOK
<1>11. CASE NotReady(h)
  BY <1>5, <1>11 DEF NotReady
<1>12. CASE Compiled(h)
  BY <1>4, <1>12 DEF Compiled, back
<1>13. CASE ConnectedFails(h)
  <2>1. CASE host[h].process # None
    <3>1. Set(h, goto("probe")) /\ UNCHANGED <<survived, lease>>
      BY <1>13, <2>1 DEF ConnectedFails, Goto, goto
    <3>2. /\ goto("probe") \in Server /\ goto("probe").pc = "probe"
          /\ goto("probe").process = host[h].process /\ goto("probe").starts = host[h].starts
          /\ goto("probe").leaseBytes = host[h].leaseBytes
      BY <1>2 DEF Place, Awaits
    <3>3. host'[h] = goto("probe") => ServerShape(h)'
      BY <1>0, <2>1, <3>2 DEF ServerShape, Stopping, Claiming
    <3>4. faults' \in 0..MaxFaults
      BY <1>1 DEF ServerTypeOK
    <3> HIDE DEF goto
    <3> QED BY <1>1, <3>1, <3>2, <3>3, <3>4, GotoStep
  <2>2. CASE host[h].process = None
    BY <1>5, <1>13, <2>2 DEF ConnectedFails
  <2> QED BY <2>1, <2>2
<1>14. CASE Probed(h)
  BY <1>4, <1>5, <1>14 DEF Probed, back
<1>15. CASE CloseServer(h)
  <2> DEFINE t == [host[h] EXCEPT !.closed = TRUE]
  <2>1. t \in Server /\ t.process = host[h].process /\ t.starts = host[h].starts
        /\ t.leaseBytes = host[h].leaseBytes
    BY <1>0 DEF Server
  <2>2. Stop(h, "close", t) /\ UNCHANGED survived
    BY <1>15 DEF CloseServer
  <2> HIDE DEF t
  <2> QED BY <1>0, <1>1, <2>1, <2>2, StopStep DEF ServerTypeOK
<1> QED BY <1>6, <1>7, <1>8, <1>9, <1>10, <1>11, <1>12, <1>13, <1>14, <1>15

\* Only now does the host learn of its child, and it had none: so a host that
\* forgot a living child gave it up.
LEMMA StartStep ==
  ASSUME ServerInv, NEW h \in Host, StartChild(h)
  PROVE  ServerInv'
<1> USE DEF ServerInv, AtPlace, children, files
<1>0. /\ host[h] \in Server /\ host[h].starts \in Nat /\ ServerShape(h) /\ host[h].pc = "start"
      /\ host[h].process = None /\ host[h].starts < MaxStarts[h] /\ MaxStarts[h] \in Nat
  BY BoundsAssumption DEF ServerTypeOK, Server, StartChild, ServerShape, Claiming
<1>1. UNCHANGED <<exited, served, survived, lease, raced>>
  BY DEF StartChild
<1>2. CASE Fallback(h) /\ Fault /\ UNCHANGED alive
  <2> DEFINE f == [FallsBack(host[h]) EXCEPT !.seen = None]
  <2>1. /\ f \in Server /\ f.pc = "idle" /\ f.process = host[h].process /\ f.starts = host[h].starts
        /\ f.leaseBytes = host[h].leaseBytes
    <3>1. host[h] \in Server
      BY <1>0
    <3> HIDE DEF ServerInv
    <3> QED BY <3>1 DEF Server, Place, Awaits, FallsBack, Returned
  <2>2. Set(h, f) /\ faults' \in 0..MaxFaults
    BY <1>2, BoundsAssumption DEF Fallback, Fault, ServerTypeOK
  <2> HIDE DEF f
  <2> QED BY <1>0, <1>1, <1>2, <2>1, <2>2, GotoStep DEF ServerShape, Stopping, Claiming
<1>3. CASE ~(Fallback(h) /\ Fault /\ UNCHANGED alive)
  <2> DEFINE c == [host |-> h, n |-> host[h].starts + 1]
             t == [host[h] EXCEPT !.pc = "wait", !.process = c, !.digest = host[h].want,
                                  !.starts = c.n]
  <2>1. alive' = alive \cup {c} /\ Set(h, t) /\ UNCHANGED faults
    BY <1>3 DEF StartChild
  <2>2. c \in Child /\ c.host = h /\ c.n = host[h].starts + 1
    <3>1. c \in [host : {h}, n : 1..MaxStarts[h]]
      BY <1>0
    <3> QED BY <3>1 DEF Child
  <2>3. /\ t \in Server /\ t.pc = "wait" /\ t.process = c /\ t.starts = host[h].starts + 1
        /\ t.leaseBytes = host[h].leaseBytes
    <3>1. host[h] \in Server /\ c \in Child /\ host[h].starts + 1 \in Nat /\ c.n = host[h].starts + 1
      BY <1>0, <2>2
    <3> HIDE DEF c, ServerInv
    <3> QED BY <3>1 DEF Server, Place, Awaits
  <2> HIDE DEF c, t
  <2>4. host'[h] = t /\ \A k \in Host \ {h} : host'[k] = host[k]
    BY <2>1 DEF Set, ServerTypeOK
  <2>5. \A d \in Child : d.host \in Host /\ d.n \in Nat
    BY ChildFields
  <2>6. c \notin alive \cup exited
    BY <1>0, <2>2 DEF ChildrenStarted
  <2>7. ServerTypeOK'
    BY <1>0, <1>1, <2>1, <2>2, <2>3, <2>4 DEF Set, ServerTypeOK
  <2>8. host[h].leaseBytes = None
    BY <1>0 DEF ServerShape
  <2>9. ServerShape(h)'
    BY <2>3, <2>4, <2>8 DEF ServerShape, Stopping, Claiming
  <2>10. \A k \in Host \ {h} : ServerShape(k)'
    <3>1. \A d \in Child : ~InUse(d) => ~InUse(d)'
      BY <1>0, <2>1, <2>2, <2>4, <2>5 DEF InUse
    <3>2. \A k \in Host \ {h} : ServerShape(k)
      OBVIOUS
    <3> QED BY <2>4, <3>1, <3>2 DEF ServerShape, Stopping
  <2>11. ChildrenStarted'
    BY <1>0, <1>1, <2>1, <2>2, <2>3, <2>4, <2>5 DEF ChildrenStarted, ServerTypeOK, Server
  <2>12. ChildrenAreKnown'
    <3>1. \A d \in Child : d # None
      BY NoneAssumption
    <3> QED BY <1>0, <1>1, <2>1, <2>2, <2>3, <2>4, <2>5, <3>1 DEF ChildrenAreKnown, ServerTypeOK
  <2>13. ServersAreDiscoverable'
    BY <1>1, LeaseKept
  <2> QED BY <1>1, <2>1, <2>6, <2>7, <2>9, <2>10, <2>11, <2>12, <2>13
<1> QED BY <1>2, <1>3

\* writeLease: the file is this host's from its creation, so no warm server is
\* forgotten by it.
LEMMA WriteStep ==
  ASSUME ServerInv, NEW h \in Host, CreateLease(h) \/ FillLease(h)
  PROVE  ServerInv'
<1> USE DEF ServerInv, AtPlace, children, files
<1>0. /\ host[h] \in Server /\ host[h].starts \in Nat /\ ServerShape(h)
      /\ host[h].pc \in {"create", "fill"} /\ host[h].process \in Child
  BY DEF ServerTypeOK, Server, CreateLease, FillLease, ServerShape
<1>1. UNCHANGED <<alive, exited, survived, raced>>
  BY DEF CreateLease, FillLease
<1>2. Fault => faults' \in 0..MaxFaults
  BY BoundsAssumption DEF Fault, ServerTypeOK
<1>3. ASSUME Stop(h, "fallback", host[h]), UNCHANGED served, Fault \/ UNCHANGED faults
      PROVE  ServerInv'
  <2>1. faults' \in 0..MaxFaults
    BY <1>2, <1>3 DEF ServerTypeOK
  <2> QED BY <1>0, <1>1, <1>3, <2>1, StopStep
<1>4. CASE CreateLease(h)
  <2>1. CASE lease = None /\ lease' = Torn /\ Goto(h, "fill") /\ UNCHANGED faults
    <3> DEFINE t == [host[h] EXCEPT !.pc = "fill"]
    <3>1. /\ t \in Server /\ t.pc = "fill" /\ t.process = host[h].process
          /\ t.starts = host[h].starts /\ t.leaseBytes = host[h].leaseBytes
      BY <1>0 DEF Server, Place
    <3>2. Set(h, t)
      BY <2>1 DEF Goto
    <3> HIDE DEF t
    <3>3. host'[h] = t
      BY <3>2 DEF Set, ServerTypeOK
    <3>4. ServerShape(h)'
      BY <1>0, <3>1, <3>3, NoneAssumption DEF ServerShape, Stopping, Claiming
    <3>5. served' = served
      BY <1>4 DEF CreateLease
    <3>6. ServersAreDiscoverable'
      BY <1>1, <2>1, <3>5, NoneAssumption DEF ServersAreDiscoverable, ServerTypeOK
    <3> QED BY <1>0, <1>1, <2>1, <3>1, <3>2, <3>4, <3>5, <3>6, HostStep DEF ServerTypeOK
  <2> QED BY <1>3, <1>4, <2>1 DEF CreateLease
<1>5. CASE FillLease(h)
  <2>1. CASE Fault /\ Stop(h, "fallback", host[h]) /\ UNCHANGED served
    BY <1>3, <2>1
  <2>2. CASE ~(Fault /\ Stop(h, "fallback", host[h]) /\ UNCHANGED served)
    <3> DEFINE t == [Returned(host[h]) EXCEPT !.ready = TRUE, !.fallback = None,
                                              !.leaseBytes = host[h].process]
    <3>1. /\ t \in Server /\ t.pc = "idle" /\ t.process = host[h].process
          /\ t.starts = host[h].starts /\ t.leaseBytes = host[h].process
      BY <1>0 DEF Server, Place, Awaits, Returned
    <3>2. /\ Set(h, t) /\ UNCHANGED faults
          /\ served' = served \cup ({host[h].process} \cap alive)
          /\ (lease = Torn /\ lease' = host[h].process) \/ (raced /\ UNCHANGED lease)
      BY <1>5, <2>2 DEF FillLease
    <3> HIDE DEF t
    <3>3. host'[h] = t
      BY <3>2 DEF Set, ServerTypeOK
    <3>4. ServerShape(h)'
      BY <1>0, <3>1, <3>3, NoneAssumption DEF ServerShape, Stopping, Claiming
    <3>5. ServersAreDiscoverable'
      BY <1>1, <3>2, NoneAssumption DEF ServersAreDiscoverable, ServerTypeOK
    <3> QED BY <1>0, <1>1, <3>1, <3>2, <3>4, <3>5, HostStep DEF ServerTypeOK
  <2> QED BY <2>1, <2>2
<1> QED BY <1>4, <1>5

\* A child exits, and its host hears of it or has died meanwhile.
LEMMA ProcessStep ==
  ASSUME ServerInv, \/ \E c \in Child : ChildExits(c) \/ ExitEvent(c)
                    \/ \E h \in Host : Crash(h)
  PROVE  ServerInv'
<1> USE DEF ServerInv, AtPlace, children, files
<1>1. CASE \E c \in Child : ChildExits(c)
  <2> PICK c \in Child : ChildExits(c)
    BY <1>1
  <2>1. /\ alive' = alive \ {c} /\ served' = served \ {c}
        /\ UNCHANGED <<exited, survived, lease, raced, host, faults>>
    BY DEF ChildExits
  <2>2. ServerTypeOK'
    BY <2>1 DEF ServerTypeOK
  <2>3. \A h \in Host : ServerShape(h)'
    BY <2>1 DEF ServerShape, Stopping, InUse
  <2> QED BY <2>1, <2>2, <2>3 DEF ChildrenStarted, ChildrenAreKnown, ServersAreDiscoverable
<1>2. CASE \E c \in Child : ExitEvent(c)
  <2> PICK c \in Child : ExitEvent(c)
    BY <1>2
  <2> PICK h \in Host : h = c.host
    BY ChildFields
  <2>1. /\ c.n <= host[h].starts /\ c \notin alive \cup exited /\ host[h].pc \in Awaits
        /\ exited' = exited \cup {c} /\ UNCHANGED <<alive, served, survived, raced, faults>>
        /\ host[h] \in Server /\ ServerShape(h) /\ c # None
    BY NoneAssumption DEF ExitEvent, ServerTypeOK
  <2>2. CASE IsUnexpected(c)
    <3> DEFINE t == Stopped(host[h])
    <3>1. /\ t \in Server /\ t.pc = host[h].pc /\ t.process = None /\ t.leaseBytes = None
          /\ t.starts = host[h].starts
      BY <2>1 DEF Stopped, Server, After
    <3>2. Set(h, t) /\ lease' = CleanedLease(h) /\ host[h].process = c /\ ~Stopping(h)
      BY <2>2 DEF ExitEvent, IsUnexpected
    <3> HIDE DEF t
    <3>3. host'[h] = t /\ \A k \in Host \ {h} : host'[k] = host[k]
      BY <3>2 DEF Set, ServerTypeOK
    <3>4. lease' = lease \/ (lease = c /\ lease' = None)
      BY <2>1, <3>2 DEF CleanedLease, ServerShape
    <3>5. ServerTypeOK'
      BY <2>1, <3>1, <3>2, <3>3, <3>4 DEF Set, ServerTypeOK
    <3>6. ServerShape(h)'
      BY <2>1, <3>1, <3>2, <3>3 DEF ServerShape, Stopping, Claiming, Awaits
    <3>7. \A d \in Child : InUse(d)' <=> InUse(d)
      BY <2>1, <3>1, <3>3, ChildFields DEF InUse
    <3>8. \A k \in Host \ {h} : ServerShape(k)'
      BY <3>3, <3>7 DEF ServerShape, Stopping
    <3>9. ServersAreDiscoverable'
      BY <2>1, <3>4, LeaseKept DEF ServerTypeOK
    <3>10. ChildrenStarted'
      BY <2>1, <3>1, <3>3, ChildFields DEF ChildrenStarted, ServerTypeOK
    <3>11. ChildrenAreKnown'
      BY <2>1, <3>2, <3>1, <3>3, ChildFields DEF ChildrenAreKnown, ServerTypeOK
    <3> QED BY <2>1, <3>5, <3>6, <3>8, <3>9, <3>10, <3>11
  <2>3. CASE ~IsUnexpected(c)
    <3>1. UNCHANGED <<lease, host>>
      BY <2>3 DEF ExitEvent
    <3>2. ServerTypeOK'
      BY <2>1, <3>1 DEF ServerTypeOK
    <3>3. \A k \in Host : ServerShape(k)'
      BY <2>1, <3>1 DEF ServerShape, Stopping, InUse
    <3> QED BY <2>1, <3>1, <3>2, <3>3 DEF ChildrenStarted, ChildrenAreKnown, ServersAreDiscoverable
  <2> QED BY <2>2, <2>3
<1>3. CASE \E h \in Host : Crash(h)
  <2> PICK h \in Host : Crash(h)
    BY <1>3
  <2> DEFINE t == Died(host[h].starts)
  <2>1. UNCHANGED <<alive, exited, served, survived, lease, raced>> /\ faults' \in 0..MaxFaults /\ Set(h, t)
    BY BoundsAssumption DEF Crash, Fault, ServerTypeOK
  <2>2. t \in Server /\ t.pc = "dead" /\ t.leaseBytes = None /\ t.starts = host[h].starts
    BY DEF Died, New, Server, Place, Awaits, After, ServerTypeOK
  <2> HIDE DEF t
  <2>3. host'[h] = t /\ \A k \in Host \ {h} : host'[k] = host[k]
    BY <2>1 DEF Set, ServerTypeOK
  <2>4. ServerTypeOK'
    BY <2>1, <2>2, <2>3 DEF Set, ServerTypeOK
  <2>5. ServerShape(h)'
    BY <2>2, <2>3 DEF ServerShape, Stopping, Claiming
  <2>6. \A d \in Child : ~InUse(d) => ~InUse(d)'
    BY <2>1, <2>2, <2>3, ChildFields DEF InUse
  <2>7. \A k \in Host \ {h} : ServerShape(k)'
    BY <2>3, <2>6 DEF ServerShape, Stopping
  <2>8. ChildrenStarted' /\ ChildrenAreKnown'
    BY <2>1, <2>2, <2>3, ChildFields DEF ChildrenStarted, ChildrenAreKnown, ServerTypeOK
  <2> QED BY <2>1, <2>4, <2>5, <2>7, <2>8, LeaseKept
<1> QED BY <1>1, <1>2, <1>3

LEMMA ServerStep == ServerInv /\ [ServerNext]_serverVars => ServerInv'
<1> SUFFICES ASSUME ServerInv, [ServerNext]_serverVars PROVE ServerInv'
  OBVIOUS
<1>1. CASE UNCHANGED serverVars
  BY <1>1 DEF serverVars, ServerInv, ServerTypeOK, ServerShape, Stopping, InUse, ChildrenStarted,
              ChildrenAreKnown, ServersAreDiscoverable, AtPlace
<1>2. ASSUME NEW h \in Host,
             Step(h) \/ Ready(h) \/ CloseServer(h) \/ \E d \in Asks[h] : Ensure(h, d) \/ Compile(h, d)
      PROVE  ServerInv'
  BY <1>2, ClaimStep, OperationStep, StartStep, WriteStep DEF Step
<1> QED BY <1>1, <1>2, ProcessStep DEF ServerNext

\* The inductive invariant of the hosts, their children and the lease, for any
\* hosts, digests and bounds.
THEOREM ServerInvariant == ServerSpec => []ServerInv
BY ServerStarts, ServerStep, PTL DEF ServerSpec

\* Type correctness: a served child runs, and a host starts no more than its
\* bound.
THEOREM ServerTypeCorrect == ServerSpec => []ServerTypeOK
<1>1. ServerInv => ServerTypeOK
  BY DEF ServerInv
<1> QED BY <1>1, ServerInvariant, PTL

\* Unless a claim removed a lease that it had not read, the lease names every
\* warm server that still runs, so a later host of the project finds it.
THEOREM ServersAreFound == ServerSpec => []ServersAreDiscoverable
<1>1. ServerInv => ServersAreDiscoverable
  BY DEF ServerInv
<1> QED BY <1>1, ServerInvariant, PTL

\* A host has at most one child that it did not give up.
THEOREM OneChild == ServerSpec => []OneChildPerHost
<1>1. ServerInv => OneChildPerHost
  BY DEF ServerInv, ChildrenAreKnown, OneChildPerHost
<1> QED BY <1>1, ServerInvariant, PTL
=============================================================================
